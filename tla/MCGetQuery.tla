----------------------------- MODULE MCGetQuery -----------------------------
(* Instance of GetQuery: three documents, two with a common prefix; a       *)
(* number or a string in f, a nested number, a foreign key.                 *)
EXTENDS ScopedRead

NameOrder == <<"-1", "-2", "-3", "-4", "-5", "_createdAt", "_key", "_modifiedAt", "_seq", "_v",
               "f", "j", "o", "r", "x">>
ThreeKeys == {11, 12, 21}

Doc1 == Obj(<<<<"f", Num(1)>>, <<"o", Obj(<<<<"x", Num(-200)>>>>)>>, <<"r", Str(2, FALSE)>>>>)
Doc2 == Obj(<<<<"f", Num(256)>>, <<"o", Obj(<<<<"x", Num(-1)>>>>)>>>>)
Doc3 == Obj(<<<<"f", Str(40, TRUE)>>>>)
TheBodies == {Doc1, Doc2, Doc3}
ThePatches == {Obj(<<<<"f", Num(1)>>, <<"o", Bool(TRUE)>>>>)}
TheRelated == (2 :> Obj(<<<<"x", Num(7)>>>>))

TheClauses == {
    Is(<<"f">>, Num(1)), Op(<<"_seq">>, "gte", Num(1)),
    Or(<<Op(<<"f">>, "gt", Num(255)), Op(<<"f">>, "ct", Str(3, TRUE))>>),
    And(<<Op(<<"f">>, "lte", Num(256)), Op(<<"r">>, "in", Arr(<<Str(2, TRUE), Num(3)>>))>>),
    List(<<Op(<<"o", "x">>, "gt", Num(-200)), Is(<<"f">>, Num(256))>>)}
(* Judged apart: on bytes $nin looks at strings only. *)
DifferingClauses == {Op(<<"f">>, "nin", Arr(<<Num(1)>>))}
TheSortClauses == {Op(<<"f">>, "lte", Num(256))}
TheJoinClauses == {Op(<<"j", "x">>, "gt", Num(5)), Op(<<"j", "x">>, "ne", Num(7))}
ThePages == {<<0, 3>>, <<1, 1>>}
Spec1(path, desc) == [path |-> path, desc |-> desc]
TheSorts == {<<Spec1(<<"f">>, FALSE)>>, <<Spec1(<<"o", "x">>, TRUE)>>,
             <<Spec1(<<"f">>, TRUE), Spec1(<<"o", "x">>, FALSE)>>}
TheScopeLists == {
    {AdminScope}, {Scope("read", "*", "any", 0)}, {Scope("write", "c", "any", 0), Scope("read", "d", "key", 21)},
    {Scope("read", "c", "key", 11), Scope("read", "*", "key", 12), Scope("read", "d", "key", 21)},
    {Scope("read", "c", "prefix", 1)}, {Scope("read", "c", "prefix", 1), Scope("read", "c", "key", 21)}}
TheFieldLists == {<<<<"f">>, <<"_seq">>>>, <<<<"o", "x">>, <<"o">>>>, <<<<"o", "x">>, <<"_createdAt">>>>,
                  <<<<"r">>, <<"_v">>, <<"o", "y">>>>}

=============================================================================
