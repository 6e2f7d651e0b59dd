------------------------------ MODULE GetQuery ------------------------------
(***************************************************************************)
(* Reads of one collection: what insert, update and delete leave in the    *)
(* stored bytes and in the seq index (engine/operations), and how a get    *)
(* request is answered from them (handlers/process_get.rs, handlers/get,   *)
(* engine/operations/get.rs).                                              *)
(*                                                                         *)
(* Requests come one at a time; module CoalescedScan deals with scans that *)
(* share a pass and with writes during it.  The clock stands still: every  *)
(* timestamp is 0.                                                         *)
(***************************************************************************)
EXTENDS WhereClause, BoundedHeap

CONSTANTS
    DocKeys,     \* document keys; the prefix of k is k \div 10
    Bodies,      \* the JSON objects clients insert
    Patches,     \* the JSON objects clients update with
    Related,     \* the joined collection: word in lower case -> document
    MaxSeq,      \* bound: insertions
    MaxVersion   \* bound: writes of one document

ASSUME GetAssumption == DocKeys \subseteq Nat /\ MaxSeq \in Nat /\ MaxVersion \in Nat

VARIABLES
    col,        \* key -> stored bytes, Missing when there is no document
    seqIndex,   \* _seq -> key
    nextSeq,    \* the collection's sequence counter
    written     \* ghost: key -> the document as its writers know it

vars == <<col, seqIndex, nextSeq, written>>

Stored == {k \in DocKeys : col[k] # Missing}
Stamp(body, v, seq) ==
    With(With(With(With(body, "_v", Num(v)), "_seq", Num(seq)), "_createdAt", Num(0)),
         "_modifiedAt", Num(0))
Merge(doc, patch) == FoldLeft(LAMBDA d, kv : With(d, kv[1], kv[2]), doc, patch.items)
Drop(f, dom) == [x \in DOMAIN f \ dom |-> f[x]]
-----------------------------------------------------------------------------
(* operations::insert for one item: system fields under their IKEY names, _seq kept. *)
Insert(k, body) ==
    LET old == ReadValue(col[k])
        new == col[k] = Missing
        v == IF new THEN 1 ELSE Get(old, "-1").n + 1
        seq == IF new THEN nextSeq ELSE Get(old, "-3").n
        doc == With(With(With(With(body, "-1", Num(v)), "-4", Num(0)), "-5", Num(0)),
                    "-3", Num(seq))
    IN  /\ nextSeq < MaxSeq
        /\ v <= MaxVersion
        /\ nextSeq' = nextSeq + 1
        /\ col' = [col EXCEPT ![k] = WriteValue(doc)]
        /\ seqIndex' = (seq :> k) @@ seqIndex
        /\ written' = [written EXCEPT ![k] =
               IF new THEN Stamp(body, 1, nextSeq)
               ELSE Stamp(body, Get(@, "_v").n + 1, Get(@, "_seq").n)]

(* operations::update: the new _v and _modifiedAt go in under their public names, *)
(* beside the IKEY names that decoding produced.                                  *)
Update(k, patch) ==
    LET doc == Merge(ReadValue(col[k]), patch)
        v == Get(doc, "-1").n + 1
    IN  /\ col[k] # Missing
        /\ v <= MaxVersion
        /\ col' = [col EXCEPT ![k] =
               WriteValue(With(With(doc, "_v", Num(v)), "_modifiedAt", Num(0)))]
        /\ written' = [written EXCEPT ![k] = With(Merge(@, patch), "_v", Num(Get(@, "_v").n + 1))]
        /\ UNCHANGED <<seqIndex, nextSeq>>

SeqToken(k) == ReadTokenU64(col[k], "-3").n   \* read_msgpack_seq_token
BySeq(keys, asc) ==
    SetToSortSeq(keys, LAMBDA a, b : IF asc THEN SeqToken(a) < SeqToken(b) ELSE SeqToken(a) > SeqToken(b))
Take(s, n) == SubSeq(s, 1, IF n < Len(s) THEN n ELSE Len(s))
Skip(s, n) == SubSeq(s, n + 1, Len(s))

(* The keys of the seq index in its order. *)
IndexWalk(asc) ==
    LET seqs == SetToSortSeq(DOMAIN seqIndex, LAMBDA a, b : IF asc THEN a < b ELSE a > b)
    IN  [i \in DOMAIN seqs |-> seqIndex[seqs[i]]]

(* operations::delete: the index entry is found by the stored _seq. *)
RemoveKeys(keys) ==
    /\ seqIndex' = Drop(seqIndex, {SeqToken(k) : k \in keys})
    /\ col' = [k \in DocKeys |-> IF k \in keys THEN Missing ELSE col[k]]
    /\ written' = [k \in DocKeys |-> IF k \in keys THEN Missing ELSE written[k]]
    /\ UNCHANGED nextSeq

Delete(keys) == keys # {} /\ keys \subseteq Stored /\ RemoveKeys(keys)

(* Fault: the oldest are chosen whatever order is asked for. *)
DeleteOldestKeys(clause, n, asc) ==
    Take(BySeq({k \in Stored : EvaluateWhereMsgpack(col[k], clause)}, TRUE), n)

(* operations::delete_filtered with the clause evaluated on bytes. *)
DeleteFilteredKeys(clause, n, asc) ==
    Take(BySeq({k \in Stored : EvaluateWhereMsgpack(col[k], clause)}, asc), n)
DeleteFiltered(clause, n, asc) ==
    /\ DeleteFilteredKeys(clause, n, asc) # <<>>
    /\ RemoveKeys(Range(DeleteFilteredKeys(clause, n, asc)))

(* operations::delete_n *)
DeleteN(n, asc) ==
    /\ Take(IndexWalk(asc), n) # <<>>
    /\ RemoveKeys(Range(Take(IndexWalk(asc), n)))
-----------------------------------------------------------------------------
(***************************************************************************)
(* A get request: keys ("all", "one" or "many" of ks), clause (NoClause    *)
(* for none), the prefixes allowed, whether it joins, the sort specs, and  *)
(* order, offset and count.                                                *)
(***************************************************************************)
NoClause == [k |-> "absent"]
All == 1000000   \* "no limit": usize::MAX

HasPrefix(k, prefixes) == k \div 10 \in prefixes
Decode(k) == ExpandSystemFields(ReadValue(col[k]))
Pairs(keys) == [i \in DOMAIN keys |-> <<keys[i], Decode(keys[i])>>]

(* choose_scan_strategy with the predicate of the strategy. *)
UsesWhere(q) == q.clause # NoClause /\ ~q.join
Predicate(q, k) ==
    /\ q.prefixes # {} => HasPrefix(k, q.prefixes)
    /\ UsesWhere(q) => ScanPredicate(col[k], q.clause)
Matches(q) == {k \in Stored : Predicate(q, k)}

(* Fault: the limit is the page size alone. *)
CountOnly(q) == IF q.sort # <<>> THEN All ELSE q.count
EarlyExitCount(q) == IF q.sort # <<>> THEN All ELSE q.offset + q.count

(* get_filtered (PrefixOnly, WhereAndPrefix, FullScan) and the coalesced scan (WhereOnly). *)
GetFiltered(q) ==
    CASE q.sort # <<>> -> BySeq(Matches(q), TRUE)
      [] q.sort = <<>> /\ q.clause # NoClause /\ (UsesWhere(q) \/ q.prefixes # {}) ->
            Take(BySeq(Matches(q), q.asc), EarlyExitCount(q))
      [] OTHER -> Take(SelectSeq(IndexWalk(q.asc), LAMBDA k : Predicate(q, k)), EarlyExitCount(q))

(* fetch_documents; a lookup of several keys goes through a HashMap and comes in any order. *)
Orders(S) == {s \in [1..Cardinality(S) -> S] : Range(s) = S}
FetchDocuments(q) ==
    LET found == {k \in q.ks \cap Stored : q.prefixes # {} => HasPrefix(k, q.prefixes)}
    IN  IF q.keys = "all" THEN {Pairs(GetFiltered(q))} ELSE {Pairs(s) : s \in Orders(found)}

(* apply_joins with [{"j": {"from": .., "on": "r"}}] *)
ApplyJoins(doc) ==
    LET fk == Get(doc, "r")
    IN  IF fk.t = "str" /\ ~fk.up /\ fk.n \in DOMAIN Related THEN With(doc, "j", Related[fk.n]) ELSE doc

Status(code) == <<<<code, Missing>>>>   \* an answer that is an error; codes are no keys

(* filter_and_join_docs: an evaluation error fails the whole request. *)
Verdict(q, doc) == IF q.clause = NoClause THEN "yes" ELSE EvaluateWhere(doc, q.clause)
Gated(q, docs) == SelectSeq(docs, LAMBDA d : q.prefixes # {} => HasPrefix(d[1], q.prefixes))
Joined(q, docs) ==
    [i \in DOMAIN docs |-> <<docs[i][1], IF q.join THEN ApplyJoins(docs[i][2]) ELSE docs[i][2]>>]
Accepted(q, docs) ==
    IF \E i \in DOMAIN docs : Verdict(q, docs[i][2]) = "error" THEN Status(400)
    ELSE SelectSeq(docs, LAMBDA d : Verdict(q, d[2]) = "yes")

(* Fault: the clause is evaluated before the related documents are there. *)
FilterThenJoin(q, docs) == Joined(q, Accepted(q, Gated(q, docs)))
FilterAndJoin(q, docs) == Accepted(q, Joined(q, Gated(q, docs)))

(* compare_values: numbers, strings (upper case first), strings before numbers, missing last. *)
Rank(v) == CASE v.t = "str" -> IF v.up THEN 0 ELSE 1 [] v.t = "num" -> 2 [] v.t = "missing" -> 3
LessValue(a, b) == Rank(a) < Rank(b) \/ (Rank(a) = Rank(b) /\ a.n < b.n)

(* make_comparator: the first spec that tells two documents apart decides. *)
LessDoc(specs, a, b) ==
    LET x(i) == GetNestedValue(a, specs[i].path)
        y(i) == GetNestedValue(b, specs[i].path)
        apart == {i \in DOMAIN specs : LessValue(x(i), y(i)) \/ LessValue(y(i), x(i))}
        i == Min(apart)
    IN  apart # {} /\ IF specs[i].desc THEN LessValue(y(i), x(i)) ELSE LessValue(x(i), y(i))

(* shape_and_return up to shaping: stable sort, truncate, skip. *)
StableSort(specs, docs) ==
    LET before(i, j) ==
            \/ LessDoc(specs, docs[i][2], docs[j][2])
            \/ ~LessDoc(specs, docs[j][2], docs[i][2]) /\ i < j
        order == SetToSortSeq(DOMAIN docs, before)
    IN  [i \in DOMAIN docs |-> docs[order[i]]]
Paginate(q, docs) ==
    IF q.keys = "one" THEN Take(docs, 1)
    ELSE Skip(Take(IF q.sort = <<>> THEN docs ELSE StableSort(q.sort, docs), q.offset + q.count),
              q.offset)
-----------------------------------------------------------------------------
(***************************************************************************)
(* run_fast_sort_path: one sort field goes through scan_top_n_raw on       *)
(* bytes, several through scan_top_n and the comparator.  The heap is      *)
(* filled in the order of the index.                                       *)
(***************************************************************************)
TopN(items, cap) ==
    LET best == IntoSortedVec(FoldLeft(LAMBDA heap, item : PushBounded(heap, item, cap), {}, items))
    IN  [i \in DOMAIN best |-> best[i].key]

(* The closure of run_fast_sort_path. *)
SortPredicate(q, k) == q.clause = NoClause \/ EvaluateWhereMsgpack(col[k], q.clause)

(* Fault: the direction of the sort is lost. *)
SortNumberUp(spec, k) == ReadNumber(FindMsgpackValue(col[k], spec.path))

(* The sort value of a document: descending by negation. *)
SortNumber(spec, k) ==
    LET n == ReadNumber(FindMsgpackValue(col[k], spec.path)) IN IF spec.desc THEN -n ELSE n
ScanTopNRaw(q, spec, cap) ==
    LET keys == SelectSeq(IndexWalk(TRUE), LAMBDA k : /\ SortPredicate(q, k)
                                                      /\ IsNumber(FindMsgpackValue(col[k], spec.path)))
    IN  TopN([i \in DOMAIN keys |-> [key |-> keys[i], by |-> SortNumber(spec, keys[i])]], cap)

(* The place of a document under the comparator: how many come before it. *)
ScanTopN(q, cap) ==
    LET keys == SelectSeq(IndexWalk(TRUE), LAMBDA k : SortPredicate(q, k))
        before(k) == {a \in Range(keys) : LessDoc(q.sort, ReadValue(col[a]), ReadValue(col[k]))}
    IN  TopN([i \in DOMAIN keys |-> [key |-> keys[i], by |-> Cardinality(before(keys[i]))]], cap)

FastSortPath(q) ==
    Skip(IF Len(q.sort) = 1 THEN ScanTopNRaw(q, q.sort[1], q.offset + q.count)
         ELSE ScanTopN(q, q.offset + q.count),
         q.offset)

(* process_get after validation: the answers it may give, Status(400) when it fails. *)
TakesFastSort(q) == q.keys = "all" /\ ~q.join /\ q.prefixes = {} /\ q.sort # <<>>
ProcessGet(q) ==
    IF TakesFastSort(q) THEN {Pairs(FastSortPath(q))}
    ELSE {LET kept == FilterAndJoin(q, raw) IN IF kept = Status(400) THEN kept ELSE Paginate(q, kept) :
          raw \in FetchDocuments(q)}
-----------------------------------------------------------------------------
(* shape_doc: fields and excluded are sequences of paths, NoList when absent. *)
NoList == <<<<>>>>
Iso(v) == IF v.t = "num" THEN V("iso", v.n, FALSE, <<>>) ELSE v   \* ts_to_iso_val
OptIn == {"_seq", "_createdAt", "_modifiedAt"}
(* Fault: the opt-in fields stay. *)
KeepAll(doc, names) == doc
WithoutAll(doc, names) == MkObj([x \in Keys0(doc) \ names |-> Get(doc, x)])
ShapeDoc(doc, k, fields, excluded) ==
    LET meta == [f \in {f \in OptIn : Get(doc, f) # Missing} |->
                    IF f = "_seq" THEN Get(doc, f) ELSE Iso(Get(doc, f))]
        listed == SelectSeq(<<"_seq", "_createdAt", "_modifiedAt">>, LAMBDA f :
                      f \in DOMAIN meta /\ \E i \in DOMAIN fields : fields[i] = <<f>>)
        out == CASE fields # NoList ->
                        FoldLeft(LAMBDA d, f : With(d, f, meta[f]), Project(doc, fields), listed)
                 [] fields = NoList /\ excluded # NoList -> WithoutAll(Exclude(doc, excluded), OptIn)
                 [] OTHER -> WithoutAll(doc, OptIn)
    IN  With(With(out, "_v", Get(doc, "_v")), "_key", Str(k, FALSE))
-----------------------------------------------------------------------------
CONSTANTS
    Clauses,                    \* WHERE clauses
    SortClauses, JoinClauses,   \* those combined with a sort, and with a join
    Pages, Sorts, FieldLists    \* <<offset, count>>, sort specs, lists of paths

Init ==
    /\ col = [k \in DocKeys |-> Missing]
    /\ seqIndex = <<>>
    /\ nextSeq = 0
    /\ written = [k \in DocKeys |-> Missing]

Next ==
    \/ \E k \in DocKeys : \/ \E b \in Bodies : Insert(k, b)
                          \/ \E p \in Patches : Update(k, p)
    \/ \E keys \in SUBSET DocKeys : Delete(keys)
    \/ \E c \in Clauses, n \in 1..2, asc \in BOOLEAN : DeleteFiltered(c, n, asc)
    \/ \E n \in 1..2, asc \in BOOLEAN : DeleteN(n, asc)

Spec == Init /\ [][Next]_vars
-----------------------------------------------------------------------------
(* Queries over the whole collection: every clause, page and order. *)
Query(clause, prefixes, join, sort, asc, page) ==
    [keys |-> "all", ks |-> {}, clause |-> clause, prefixes |-> prefixes, join |-> join,
     sort |-> sort, asc |-> asc, offset |-> page[1], count |-> page[2]]
Matching(clause, prefixes) ==
    {k \in DocKeys : /\ written[k] # Missing
                     /\ prefixes # {} => HasPrefix(k, prefixes)
                     /\ clause = NoClause \/ EvaluateWhere(written[k], clause) = "yes"}
KeysOf(docs) == [i \in DOMAIN docs |-> docs[i][1]]
Slice(s, page) == Skip(Take(s, page[1] + page[2]), page[1])
WrittenOrder(keys, asc) ==
    SetToSortSeq(keys, LAMBDA a, b :
        LET x == Get(written[a], "_seq").n
            y == Get(written[b], "_seq").n IN IF asc THEN x < y ELSE x > y)

(* The bytes of every document decode to what its writers know: the fields *)
(* last written, the version they count and the first _seq, although       *)
(* update leaves two copies of _v in the bytes and numbers and strings     *)
(* change marker with their size (system_field_tokens.rs, update.rs).      *)
DecodedIsWritten ==
    \A k \in DocKeys :
        IF written[k] = Missing THEN col[k] = Missing ELSE Decode(k) = written[k]

(* On user fields and _seq the predicates that run on bytes accept a       *)
(* stored document exactly when evaluate_where accepts the decoded one:    *)
(* the scan neither hides nor invents matches (query.rs, for equality,     *)
(* ranges, $in of strings, $ct on strings and their combinations).         *)
FastPathAgrees ==
    \A k \in Stored, c \in Clauses :
        LET decoded == EvaluateWhere(written[k], c) = "yes"
        IN  /\ ScanPredicate(col[k], c) = decoded
            /\ EvaluateWhereMsgpack(col[k], c) = decoded

(* A page of an unsorted query is the slice [offset, offset + count) of    *)
(* all matching documents in insertion order, whichever of the four scan   *)
(* strategies serves it (fetch.rs, get_filtered, shape_and_return).        *)
PageIsSlice ==
    \A c \in Clauses \cup {NoClause}, ps \in {{}, {1}}, asc \in BOOLEAN :
        LET all == WrittenOrder(Matching(c, ps), asc)
        IN  \A page \in Pages : \A answer \in ProcessGet(Query(c, ps, FALSE, <<>>, asc, page)) :
                KeysOf(answer) = Slice(all, page)

(* All documents a sorted query matches, in the order of its specs; ties   *)
(* by key where the heap of the fast path decides, by _seq elsewhere.      *)
SortedMatches(c, ps, sort) ==
    LET tie(a, b) == IF ps = {} THEN a < b ELSE Get(written[a], "_seq").n < Get(written[b], "_seq").n
        less(a, b) == \/ LessDoc(sort, written[a], written[b])
                      \/ ~LessDoc(sort, written[b], written[a]) /\ tie(a, b)
    IN  SetToSortSeq(Matching(c, ps), less)
HasNumber(k, path) == GetNestedValue(written[k], path).t = "num"

(* A page of a sorted query holds matching documents in the order of the   *)
(* specs, ties broken the same way on every page, and it is the slice      *)
(* [offset, offset + count) of all of them, through the two heaps and      *)
(* through the sort of decoded documents alike (run_fast_sort_path,        *)
(* scan_top_n, shape_and_return).  For one spec on the fast path the slice *)
(* is claimed only when the field is a number in every matching document:  *)
(* SortedKeepsAll is what does not hold otherwise.                         *)
SortedPageExact ==
    \A c \in {NoClause} \cup SortClauses, ps \in {{}, {1}}, sort \in Sorts :
        LET all == SortedMatches(c, ps, sort)
            numbers == Len(sort) > 1 \/ ps # {} \/ \A k \in Range(all) : HasNumber(k, sort[1].path)
        IN  \A page \in Pages : \A answer \in ProcessGet(Query(c, ps, FALSE, sort, FALSE, page)) :
                /\ KeysOf(answer) = SelectSeq(all, LAMBDA k : k \in Range(KeysOf(answer)))
                /\ numbers => KeysOf(answer) = Slice(all, page)

(* Sorting leaves no document out: a page with room for the collection     *)
(* holds every matching document, those whose field is a string or missing *)
(* at their place in the order (docs/api-reference.md, `sort`;             *)
(* compare_values: "strings -> lexicographic, missing/null -> sorts last").*)
SortedKeepsAll ==
    \A sort \in Sorts :
        \A answer \in ProcessGet(Query(NoClause, {}, FALSE, sort, FALSE, <<0, Cardinality(DocKeys)>>)) :
            KeysOf(answer) = SortedMatches(NoClause, {}, sort)

(* The documents a joined query is about, in the order asked for: those    *)
(* that satisfy the clause with their related document in place.           *)
JoinedMatches(c, asc) ==
    WrittenOrder({k \in Matching(NoClause, {}) : EvaluateWhere(ApplyJoins(written[k]), c) = "yes"}, asc)

(* A joined query: every document returned carries its related one and     *)
(* satisfies the clause with it, in the order asked for, each once, and    *)
(* when the page has room for the whole collection none is left out        *)
(* (fetch_documents, apply_joins, filter_and_join_docs).  Shorter pages    *)
(* may hold fewer matches than there are: see JoinedPageExact.             *)
JoinedWhereExact ==
    \A c \in JoinClauses, asc \in BOOLEAN :
        \A page \in Pages : \A answer \in ProcessGet(Query(c, {}, TRUE, <<>>, asc, page)) :
            LET all == JoinedMatches(c, asc)
            IN  /\ \A i \in DOMAIN answer : answer[i][2] = ApplyJoins(written[answer[i][1]])
                /\ KeysOf(answer) = SelectSeq(all, LAMBDA k : k \in Range(KeysOf(answer)))
                /\ page = <<0, Cardinality(DocKeys)>> => KeysOf(answer) = all

(* A page of a joined query is the slice [offset, offset + count) of the   *)
(* documents that satisfy the clause, as without a join (docs/             *)
(* api-reference.md: count is "applied after filtering and sorting").      *)
JoinedPageExact ==
    \A c \in JoinClauses, asc \in BOOLEAN :
        \A page \in Pages : \A answer \in ProcessGet(Query(c, {}, TRUE, <<>>, asc, page)) :
            KeysOf(answer) = Slice(JoinedMatches(c, asc), page)

(* For the clauses of the instance: a delete by WHERE removes exactly the  *)
(* documents a get with the same clause, order and count returns           *)
(* (delete_filtered "mirrors" the read path), and a delete by count alone  *)
(* the ones an unfiltered get returns.  The clauses of run `query` are     *)
(* those the two evaluators judge alike; with the one of                   *)
(* MCGetQueryDelete.cfg the property does not hold.                        *)
DeleteMatchesGet ==
    \A asc \in BOOLEAN, n \in 1..2 :
        /\ \A c \in Clauses : \A answer \in ProcessGet(Query(c, {}, FALSE, <<>>, asc, <<0, n>>)) :
               KeysOf(answer) = DeleteFilteredKeys(c, n, asc)
        /\ \A answer \in ProcessGet(Query(NoClause, {}, FALSE, <<>>, asc, <<0, n>>)) :
               KeysOf(answer) = Take(IndexWalk(asc), n)

(* What a response shows of a document: with fields, the values under the  *)
(* listed paths; with excludedFields, all but those and the opt-in fields; *)
(* always _v and _key, never another system field unasked (shape_doc,      *)
(* project, exclude).                                                      *)
Under(l, paths) == \E i \in DOMAIN paths : IsPrefix(paths[i], l[1])
Times(l) == IF l[1] \in {<<"_createdAt">>, <<"_modifiedAt">>} THEN <<l[1], Iso(l[2])>> ELSE l
ShapedRight ==
    \A k \in Stored, paths \in FieldLists :
        LET doc == written[k]
            always == {<<<<"_v">>, Get(doc, "_v")>>, <<<<"_key">>, Str(k, FALSE)>>}
        IN  /\ Leaves(ShapeDoc(Decode(k), k, paths, NoList)) =
                   {Times(l) : l \in {l \in Leaves(doc) : Under(l, paths)}} \cup always
            /\ Leaves(ShapeDoc(Decode(k), k, NoList, paths)) =
                   {l \in Leaves(doc) : ~Under(l, paths) /\ l[1][1] \notin OptIn} \cup always

=============================================================================
