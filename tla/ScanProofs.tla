----------------------------- MODULE ScanProofs -----------------------------
(***************************************************************************)
(* Proofs about CoalescedScan: whatever requests share a pass, however     *)
(* rayon splits it and whatever is written meanwhile, a scan returns the   *)
(* documents nobody wrote as if it had run alone, and sees a batch of      *)
(* inserts whole.                                                          *)
(***************************************************************************)
EXTENDS CoalescedScan, FiniteSetTheorems, SequenceTheorems, TLAPS

(* The folds of the model: the grouping loop and the reduce of two heaps. *)
KeepOp(members, group, c) == IF c \in members THEN Append(group, c) ELSE group
PushOp(cap, heap, item) == PushBounded(heap, item, cap)
Keeping == INSTANCE FoldFacts WITH Op <- KeepOp
Pushing == INSTANCE FoldFacts WITH Op <- PushOp
-----------------------------------------------------------------------------
(* The inductive invariant. *)
Items == [key : Keys, by : Int]
Heaps == {H \in SUBSET Items : IsFiniteSet(H)}
Found == [key : Keys, doc : Docs]
CallerStates == [at : {"idle", "waiting", "done"}, req : Requests \cup {NoReq},
                 got : Seq(Found), full : BOOLEAN]
CoordinatorStates ==
    [at : {"recv", "collect", "group", "scan", "decode", "dead"}, batch : Seq(Callers),
     groups : SUBSET Collections, cur : Collections \cup {NoCol}, todo : SUBSET Keys,
     left : Seq(Items), out : Seq(Found)]

TypeOK ==
    /\ docs \in [Collections -> Maps \cup {NoCol}]
    /\ queue \in Seq(Callers)
    /\ co \in CoordinatorStates
    /\ acc \in [Workers -> [Callers -> Heaps]]
    /\ merged \in [Callers -> Heaps]
    /\ caller \in [Callers -> CallerStates]
    /\ stable \in [Callers -> SUBSET Keys]
    /\ fresh \in [Callers -> SUBSET SUBSET Keys]
    /\ spent \in [writes : Nat, failures : Nat]

(* Every request is in one place of the line: the channel, the batch, or answered. *)
Distinct(s) == \A i, j \in 1 .. Len(s) : s[i] = s[j] => i = j
Separate(s, t) == \A i \in 1 .. Len(s), j \in 1 .. Len(t) : s[i] # t[j]
QueueFor(calls, line, batch) ==
    /\ Distinct(line) /\ Distinct(batch) /\ Separate(line, batch)
    /\ \A i \in 1 .. Len(line) : calls[line[i]].at = "waiting" /\ calls[line[i]].req \in Requests
BatchFor(calls, at, batch, groups, cur) ==
    \A i \in 1 .. Len(batch) :
       /\ calls[batch[i]].at # "idle" /\ calls[batch[i]].req \in Requests
       /\ (at = "collect" \/ calls[batch[i]].req.col \in groups \cup {cur})
             => calls[batch[i]].at = "waiting"
(* During a pass the requests it serves stand first. *)
FrontFor(calls, at, batch, cur) ==
    at \in {"scan", "decode"} =>
       \A i, j \in 1 .. Len(batch) :
          i < j /\ calls[batch[j]].req.col = cur => calls[batch[i]].req.col = cur
CursorFor(m, at, groups, cur) ==
    /\ cur \notin groups
    /\ at \in {"recv", "collect", "dead"} => groups = {}
    /\ at \notin {"scan", "decode"} => cur = NoCol
    /\ at \in {"scan", "decode"} => cur \in Collections /\ m[cur] # NoCol
HeadFor(calls, at, batch, cur, todo) ==
    /\ at \in {"recv", "dead"} => batch = <<>>
    /\ at = "decode" => /\ batch # <<>> /\ todo = {}
                        /\ calls[Head(batch)].req.col = cur
LineInv ==
    /\ QueueFor(caller, queue, co.batch)
    /\ BatchFor(caller, co.at, co.batch, co.groups, co.cur)
    /\ FrontFor(caller, co.at, co.batch, co.cur)
    /\ CursorFor(docs, co.at, co.groups, co.cur)
    /\ HeadFor(caller, co.at, co.batch, co.cur, co.todo)
    /\ co.at = "dead" => queue = <<>>

(* The documents a caller must find: matching, and not written since it asked or since *)
(* the batch that added them.                                                          *)
Live(kept, added) == kept \cup UNION added
LiveFor(m, call, L, added) ==
    /\ call.at = "idle" => added = {}
    /\ call.at = "waiting" =>
          /\ call.req \in Requests
          /\ \A k \in L : /\ m[call.req.col] # NoCol /\ m[call.req.col][k] # NoDoc
                          /\ Qualifies(call.req, m[call.req.col][k].val)
LiveInv == \A c \in Callers : LiveFor(docs, caller[c], Live(stable[c], fresh[c]), fresh[c])

(* A heap of request r holds x, or need items before x. *)
Covers(r, H, x) ==
    \/ x \in H
    \/ r.kind = "sorted" /\ r.need <= Cardinality(H) /\ \A y \in H : Less(y, x)
Apart(G, H) == \A y \in G, z \in H : y.key # z.key
HeapFor(r, m, L, todo, H) ==
    /\ \A y \in H : y.key \notin todo /\ (y.key \in L => y = Item(r, y.key, m[y.key]))
    /\ r.kind = "sorted" => Cardinality(H) <= r.need

(* The heaps of caller c during a pass over m of which todo is left: every document the *)
(* caller must find is still to be visited or covered by one of them.                   *)
PassFor(r, m, L, todo, A, M, c) ==
    /\ \A w \in Workers : HeapFor(r, m, L, todo, A[w][c]) /\ Apart(A[w][c], M)
    /\ HeapFor(r, m, L, todo, M)
    /\ \A w, v \in Workers : w # v => Apart(A[w][c], A[v][c])
    /\ \A k \in L \ todo : \/ Covers(r, M, Item(r, k, m[k]))
                           \/ \E w \in Workers : Covers(r, A[w][c], Item(r, k, m[k]))
PassInv ==
    co.at \in {"scan", "decode"} =>
       \A i \in 1 .. Len(co.batch) :
          caller[co.batch[i]].req.col = co.cur =>
             PassFor(caller[co.batch[i]].req, docs[co.cur],
                     Live(stable[co.batch[i]], fresh[co.batch[i]]),
                     co.todo, acc, merged[co.batch[i]], co.batch[i])

(* An answer half decoded: out in order, left behind it in order, and a document that is *)
(* in neither comes after both in a full answer.                                         *)
AnswerFor(r, m, L, full, left, out) ==
    /\ \A i, j \in 1 .. Len(left) : i < j => Less(left[i], left[j])
    /\ \A i \in 1 .. Len(left) :
          left[i].key \in L => left[i] = Item(r, left[i].key, m[left[i].key])
    /\ \A i \in 1 .. Len(out) : out[i].key \in L => out[i].doc = m[out[i].key]
    /\ \A i, j \in 1 .. Len(out) :
          i < j /\ out[i].key \in L /\ out[j].key \in L
             => Less(Item(r, out[i].key, m[out[i].key]), Item(r, out[j].key, m[out[j].key]))
    /\ \A i \in 1 .. Len(out), j \in 1 .. Len(left) :
          out[i].key \in L => Less(Item(r, out[i].key, m[out[i].key]), left[j])
    /\ \A k \in L :
          \/ \E i \in 1 .. Len(out) : out[i].key = k
          \/ \E j \in 1 .. Len(left) : left[j] = Item(r, k, m[k])
          \/ /\ full
             /\ \A i \in 1 .. Len(out) :
                   out[i].key \in L => Less(Item(r, out[i].key, m[out[i].key]), Item(r, k, m[k]))
             /\ \A j \in 1 .. Len(left) : Less(left[j], Item(r, k, m[k]))
AnswerInv ==
    co.at = "decode" =>
       AnswerFor(caller[Head(co.batch)].req, docs[co.cur],
                 Live(stable[Head(co.batch)], fresh[Head(co.batch)]),
                 caller[Head(co.batch)].full, co.left, co.out)

Inv == TypeOK /\ LineInv /\ LiveInv /\ PassInv /\ AnswerInv
-----------------------------------------------------------------------------
(***************************************************************************)
(* Heaps.  Less is a strict total order of the items.                      *)
(***************************************************************************)
LEMMA KeysAreNat == Keys \subseteq Nat /\ IsFiniteSet(Keys) /\ Vals \subseteq Nat
BY ScanAssumption

LEMMA LessOrder ==
    ASSUME NEW x \in Items, NEW y \in Items, NEW z \in Items
    PROVE  /\ ~Less(x, x)
           /\ Less(x, y) => ~Less(y, x)
           /\ x # y => Less(x, y) \/ Less(y, x)
           /\ Less(x, y) /\ Less(y, z) => Less(x, z)
<1>1. x.key \in Nat /\ y.key \in Nat /\ z.key \in Nat /\ x.by \in Int /\ y.by \in Int /\ z.by \in Int
  BY KeysAreNat DEF Items
<1>2. x.key = y.key /\ x.by = y.by => x = y
  BY DEF Items
<1> QED
  BY <1>1, <1>2 DEF Less

LEMMA HeapFacts ==
    ASSUME NEW H \in Heaps
    PROVE  H \subseteq Items /\ IsFiniteSet(H) /\ Cardinality(H) \in Nat
BY FS_CardinalityType DEF Heaps

LEMMA AddToHeap ==
    ASSUME NEW H \in Heaps, NEW x \in Items
    PROVE  /\ H \cup {x} \in Heaps
           /\ x \notin H => Cardinality(H \cup {x}) = Cardinality(H) + 1
BY HeapFacts, FS_AddElement DEF Heaps

LEMMA RemoveFromHeap ==
    ASSUME NEW H \in Heaps, NEW x
    PROVE  /\ H \ {x} \in Heaps
           /\ x \in H => Cardinality(H \ {x}) = Cardinality(H) - 1
BY HeapFacts, FS_RemoveElement DEF Heaps

LEMMA EmptyHeap == {} \in Heaps /\ Cardinality({}) = 0
BY FS_EmptySet DEF Heaps

LEMMA NoItems ==
    ASSUME NEW H \in Heaps, Cardinality(H) = 0
    PROVE  H = {}
BY HeapFacts, FS_EmptySet

(* peek: a heap that is not empty has a largest item. *)
IsWorst(H, x) == x \in H /\ \A y \in H \ {x} : Less(y, x)

LEMMA WorstExists ==
    \A H \in Heaps : H # {} => \E x \in H : \A y \in H \ {x} : Less(y, x)
<1> DEFINE Sized(n) == \A H \in Heaps : Cardinality(H) = n /\ H # {} => \E x : IsWorst(H, x)
           N == {n \in Nat : Sized(n)}
<1>1. 0 \in N
  BY NoItems
<1>2. ASSUME NEW n \in Nat, n \in N PROVE n + 1 \in N
  <2> SUFFICES ASSUME NEW H \in Heaps, Cardinality(H) = n + 1, H # {}
               PROVE  \E x : IsWorst(H, x)
    OBVIOUS
  <2>1. PICK z \in H : TRUE
    OBVIOUS
  <2>2. H \ {z} \in Heaps /\ Cardinality(H \ {z}) = n
    BY <2>1, RemoveFromHeap
  <2>3. CASE H \ {z} = {}
    BY <2>1, <2>3 DEF IsWorst
  <2>4. CASE H \ {z} # {}
    <3>1. PICK x : IsWorst(H \ {z}, x)
      BY <1>2, <2>2, <2>4
    <3>2. x \in Items /\ z \in Items /\ x # z /\ H \subseteq Items
      BY <2>1, <3>1, HeapFacts DEF IsWorst
    <3>3. CASE Less(x, z)
      <4>1. \A y \in H \ {z} : Less(y, z)
        BY <3>1, <3>2, <3>3, LessOrder DEF IsWorst
      <4> QED
        BY <2>1, <4>1 DEF IsWorst
    <3>4. CASE Less(z, x)
      BY <3>1, <3>4 DEF IsWorst
    <3> QED
      BY <3>2, <3>3, <3>4, LessOrder
  <2> QED
    BY <2>3, <2>4
<1>3. \A n \in Nat : n \in N
  <2> HIDE DEF N
  <2> QED
    BY <1>1, <1>2, Pushing!NatSetInduction
<1> QED
  BY <1>3, HeapFacts DEF IsWorst

LEMMA WorstIsLargest ==
    ASSUME NEW H \in Heaps, H # {}
    PROVE  Worst(H) \in H /\ \A y \in H \ {Worst(H)} : Less(y, Worst(H))
<1>1. \E x \in H : \A y \in H \ {x} : Less(y, x)
  BY WorstExists
<1> QED
  BY <1>1, Zenon DEF Worst

(***************************************************************************)
(* push_bounded keeps the bound, and the items it drops come after need    *)
(* others.                                                                 *)
(***************************************************************************)
Bounded(cap, H, x) == x \in H \/ (cap <= Cardinality(H) /\ \A y \in H : Less(y, x))

LEMMA PushFacts ==
    ASSUME NEW H \in Heaps, NEW x \in Items, x \notin H, NEW cap \in Nat, Cardinality(H) <= cap
    PROVE  LET N == PushBounded(H, x, cap)
           IN  /\ N \in Heaps /\ N \subseteq H \cup {x} /\ Cardinality(N) <= cap
               /\ Bounded(cap, N, x)
               /\ \A y \in Items : Bounded(cap, H, y) => Bounded(cap, N, y)
<1> DEFINE N == PushBounded(H, x, cap)
<1>0. H \subseteq Items /\ Cardinality(H) \in Nat
  BY HeapFacts
<1>1. CASE cap = 0
  <2>1. N = H
    BY <1>1 DEF PushBounded
  <2>2. H = {}
    BY <1>0, <1>1, NoItems
  <2> QED
    BY <1>0, <1>1, <2>1, <2>2 DEF Bounded
<1>2. CASE cap > 0 /\ Cardinality(H) < cap
  <2>1. N = H \cup {x}
    BY <1>2 DEF PushBounded
  <2>2. N \in Heaps /\ Cardinality(N) = Cardinality(H) + 1
    BY <2>1, AddToHeap
  <2> QED
    BY <1>0, <1>2, <2>1, <2>2 DEF Bounded
<1>3. CASE cap > 0 /\ Cardinality(H) = cap
  <2>1. H # {}
    BY <1>3, EmptyHeap
  <2> DEFINE t == Worst(H)
  <2>2. t \in H /\ t \in Items /\ \A y \in H \ {t} : Less(y, t)
    BY <1>0, <2>1, WorstIsLargest
  <2>3. N = IF Less(x, t) THEN (H \ {t}) \cup {x} ELSE H
    BY <1>3, <1>0 DEF PushBounded
  <2> HIDE DEF t, N
  <2>4. CASE Less(x, t)
    <3>1. H \ {t} \in Heaps /\ Cardinality(H \ {t}) = cap - 1 /\ x \notin H \ {t}
      BY <1>3, <2>2, RemoveFromHeap
    <3>2. N \in Heaps /\ Cardinality(N) = cap
      <4> DEFINE R == H \ {t}
      <4> HIDE DEF R
      <4>1. R \cup {x} \in Heaps /\ Cardinality(R \cup {x}) = Cardinality(R) + 1
        BY <3>1, AddToHeap DEF R
      <4> QED
        BY <2>3, <2>4, <3>1, <4>1 DEF R
    <3>3. \A y \in N : Less(y, t)
      BY <2>2, <2>3, <2>4
    <3>4. ASSUME NEW y \in Items, Bounded(cap, H, y) PROVE Bounded(cap, N, y)
      <4>1. CASE y = t
        BY <3>2, <3>3, <4>1 DEF Bounded
      <4>2. CASE y \in H \ {t}
        BY <2>3, <2>4, <4>2 DEF Bounded
      <4>3. CASE y \notin H
        <5>1. Less(t, y)
          BY <2>2, <3>4, <4>3 DEF Bounded
        <5>2. \A z \in N : Less(z, y)
          BY <3>3, <5>1, <2>2, <3>2, LessOrder, HeapFacts
        <5> QED
          BY <3>2, <5>2 DEF Bounded
      <4> QED
        BY <4>1, <4>2, <4>3
    <3> QED
      BY <2>3, <2>4, <3>2, <3>4 DEF Bounded, N
  <2>5. CASE ~Less(x, t)
    <3>1. Less(t, x)
      BY <2>2, <2>5, LessOrder
    <3>2. \A y \in H : Less(y, x)
      BY <1>0, <2>2, <3>1, LessOrder
    <3> QED
      BY <1>3, <2>3, <2>5, <3>2 DEF Bounded, N
  <2> QED
    BY <2>4, <2>5
<1> QED
  BY <1>0, <1>1, <1>2, <1>3

(* The reduce: each item of the other heap is pushed once. *)
LEMMA HeapListed ==
    ASSUME NEW H \in Heaps
    PROVE  LET s == SetToSeq(H)
           IN  /\ s \in Seq(Items) /\ Distinct(s)
               /\ \A x : x \in H <=> \E i \in 1 .. Len(s) : s[i] = x
<1> DEFINE n == Cardinality(H)
           s == SetToSeq(H)
<1>0. H \subseteq Items /\ IsFiniteSet(H) /\ n \in Nat
  BY HeapFacts
<1>1. PICK m \in Nat : ExistsBijection(1 .. m, H)
  BY <1>0, FS_NatBijection
<1>2. m = n
  BY <1>1, FS_CountingElements
<1>3. PICK f \in Bijection(1 .. n, H) : TRUE
  BY <1>1, <1>2 DEF ExistsBijection
<1>4. \E g \in [1 .. n -> H] : IsInjective(g)
  BY <1>3 DEF Bijection, Injection
<1>5. s \in [1 .. n -> H] /\ IsInjective(s)
  BY <1>4, Zenon DEF SetToSeq
<1> HIDE DEF s
<1>6. s \in Injection(1 .. n, H)
  BY <1>5 DEF Injection
<1>7. Cardinality(1 .. n) = n
  BY <1>0, FS_Interval
<1>8. s \in Surjection(1 .. n, H)
  <2> DEFINE D == 1 .. n
  <2>1. s \in Injection(D, H) /\ Cardinality(D) = Cardinality(H)
    BY <1>6, <1>7
  <2> HIDE DEF D
  <2>2. s \in Surjection(D, H)
    BY <1>0, <2>1, FS_Injection
  <2> QED
    BY <2>2 DEF D
<1>9. s \in Seq(Items) /\ Len(s) = n
  BY <1>0, <1>5
<1> QED
  BY <1>5, <1>8, <1>9 DEF Distinct, IsInjective, Surjection, s

MergedFor(cap, G, s, R) ==
    /\ R \in Heaps /\ Cardinality(R) <= cap
    /\ \A x \in R : x \in G \/ \E i \in 1 .. Len(s) : s[i] = x
    /\ \A i \in 1 .. Len(s) : Bounded(cap, R, s[i])
    /\ \A y \in Items : Bounded(cap, G, y) => Bounded(cap, R, y)
Mergeable(G, s) == Distinct(s) /\ \A i \in 1 .. Len(s) : s[i] \notin G

LEMMA PushAllType ==
    ASSUME NEW G \in Heaps, NEW cap
    PROVE  \A s \in Seq(Items) : Pushing!Fold(cap, G, s) \in Heaps
<1> DEFINE T == {s \in Seq(Items) : Pushing!Fold(cap, G, s) \in Heaps}
<1>1. <<>> \in T
  BY Pushing!FoldEmpty, EmptySeq
<1>2. ASSUME NEW s \in Seq(Items), NEW x \in Items, s \in T PROVE Append(s, x) \in T
  <2> DEFINE R == Pushing!Fold(cap, G, s)
  <2>1. R \in Heaps
    BY <1>2
  <2>2. Pushing!Fold(cap, G, Append(s, x)) = PushBounded(R, x, cap)
    BY Pushing!FoldAppend DEF PushOp
  <2> HIDE DEF R
  <2>3. R \cup {x} \in Heaps
    BY <2>1, AddToHeap
  <2>4. (R \ {Worst(R)}) \cup {x} \in Heaps
    <3> DEFINE Q == R \ {Worst(R)}
    <3>1. Q \in Heaps
      BY <2>1, RemoveFromHeap
    <3> HIDE DEF Q
    <3>2. Q \cup {x} \in Heaps
      BY <3>1, AddToHeap
    <3> QED
      BY <3>2 DEF Q
  <2>5. PushBounded(R, x, cap) \in Heaps
    BY <2>1, <2>3, <2>4 DEF PushBounded
  <2>6. Append(s, x) \in Seq(Items)
    OBVIOUS
  <2> QED
    BY <2>2, <2>5, <2>6
<1> HIDE DEF T
<1>3. \A s \in Seq(Items) : s \in T
  BY <1>1, <1>2, Pushing!SeqSetInduction
<1> QED
  BY <1>3 DEF T

LEMMA PushAll ==
    ASSUME NEW G \in Heaps, NEW cap \in Nat, Cardinality(G) <= cap
    PROVE  \A s \in Seq(Items) : Mergeable(G, s) => MergedFor(cap, G, s, Pushing!Fold(cap, G, s))
<1> DEFINE T == {s \in Seq(Items) : Mergeable(G, s) => MergedFor(cap, G, s, Pushing!Fold(cap, G, s))}
<1>1. <<>> \in T
  <2>1. Pushing!Fold(cap, G, <<>>) = G /\ <<>> \in Seq(Items) /\ Len(<<>>) = 0
    BY Pushing!FoldEmpty, EmptySeq
  <2>2. MergedFor(cap, G, <<>>, G)
    BY DEF MergedFor
  <2> QED
    BY <2>1, <2>2
<1>2. ASSUME NEW s \in Seq(Items), NEW x \in Items, s \in T PROVE Append(s, x) \in T
  <2> DEFINE t == Append(s, x)
             R == Pushing!Fold(cap, G, s)
             N == PushBounded(R, x, cap)
  <2>1. t \in Seq(Items) /\ Len(t) = Len(s) + 1 /\ Len(s) \in Nat
    OBVIOUS
  <2>2. t[Len(s) + 1] = x /\ \A i \in 1 .. Len(s) : t[i] = s[i]
    OBVIOUS
  <2>3. Pushing!Fold(cap, G, t) = N
    BY Pushing!FoldAppend DEF PushOp
  <2> SUFFICES ASSUME Mergeable(G, t) PROVE MergedFor(cap, G, t, N)
    BY <2>1, <2>3
  <2> HIDE DEF t
  <2>4. Mergeable(G, s)
    BY <2>1, <2>2 DEF Mergeable, Distinct
  <2>5. MergedFor(cap, G, s, R)
    BY <1>2, <2>4
  <2> HIDE DEF R, N
  <2>6. x \notin G /\ \A i \in 1 .. Len(s) : s[i] # x
    <3>1. Len(s) + 1 \in 1 .. Len(t) /\ \A i \in 1 .. Len(s) : i \in 1 .. Len(t) /\ i # Len(s) + 1
      BY <2>1
    <3> QED
      BY <2>2, <3>1 DEF Mergeable, Distinct
  <2>7. x \notin R /\ R \in Heaps /\ Cardinality(R) <= cap
    BY <2>5, <2>6 DEF MergedFor
  <2>8. /\ N \in Heaps /\ N \subseteq R \cup {x} /\ Cardinality(N) <= cap
        /\ Bounded(cap, N, x)
        /\ \A y \in Items : Bounded(cap, R, y) => Bounded(cap, N, y)
    BY <2>7, PushFacts DEF N
  <2>9. \A i \in 1 .. Len(s) : s[i] \in Items
    OBVIOUS
  <2>10. \A i \in 1 .. Len(t) : i \in 1 .. Len(s) \/ i = Len(s) + 1
    BY <2>1
  <2>11. \A i \in 1 .. Len(t) : Bounded(cap, N, t[i])
    BY <2>2, <2>5, <2>8, <2>9, <2>10 DEF MergedFor
  <2>12. \A y \in N : y \in G \/ \E i \in 1 .. Len(t) : t[i] = y
    <3> SUFFICES ASSUME NEW y \in N, y \notin G PROVE \E i \in 1 .. Len(t) : t[i] = y
      OBVIOUS
    <3>1. CASE y = x
      BY <2>1, <2>2, <3>1
    <3>2. CASE y \in R
      <4>1. PICK i \in 1 .. Len(s) : s[i] = y
        BY <2>5, <3>2 DEF MergedFor
      <4> QED
        BY <2>1, <2>2, <4>1
    <3> QED
      BY <2>8, <3>1, <3>2
  <2> QED
    BY <2>5, <2>8, <2>11, <2>12 DEF MergedFor
<1> HIDE DEF T
<1>3. \A s \in Seq(Items) : s \in T
  BY <1>1, <1>2, Pushing!SeqSetInduction
<1> QED
  BY <1>3 DEF T

LEMMA MergeIsFold ==
    ASSUME NEW r, NEW G, NEW H, r.kind # "filtered"
    PROVE  Merge(r, G, H) = Pushing!Fold(r.need, G, SetToSeq(H))
BY DEF Merge, Pushing!Fold, PushOp, FoldLeft, MapThenFoldSet, Max,
       Pushing!FoldLeft, Pushing!MapThenFoldSet, Pushing!Max

LEMMA MergeType ==
    ASSUME NEW r, NEW G \in Heaps, NEW H \in Heaps
    PROVE  Merge(r, G, H) \in Heaps
<1>1. CASE r.kind = "filtered"
  <2>1. Merge(r, G, H) = G \cup H
    BY <1>1 DEF Merge
  <2> QED
    BY <2>1, FS_Union DEF Heaps
<1>2. CASE r.kind # "filtered"
  BY <1>2, MergeIsFold, PushAllType, HeapListed
<1> QED
  BY <1>1, <1>2

LEMMA RequestShape ==
    ASSUME NEW r \in Requests
    PROVE  r.kind \in {"filtered", "sorted"} /\ r.col \in Collections /\ r.need \in Nat /\ r.up \in BOOLEAN
BY ShapeAssumption

(* Nothing a request must find is lost in the reduce. *)
LEMMA MergeFacts ==
    ASSUME NEW r \in Requests, NEW G \in Heaps, NEW H \in Heaps, Apart(G, H),
           r.kind = "sorted" => Cardinality(G) <= r.need
    PROVE  LET R == Merge(r, G, H)
           IN  /\ R \in Heaps /\ R \subseteq G \cup H
               /\ r.kind = "sorted" => Cardinality(R) <= r.need
               /\ \A y \in Items : Covers(r, G, y) \/ Covers(r, H, y) => Covers(r, R, y)
<1> DEFINE R == Merge(r, G, H)
           s == SetToSeq(H)
<1>0. R \in Heaps /\ r.kind \in {"filtered", "sorted"} /\ r.need \in Nat
  BY MergeType, RequestShape
<1>1. CASE r.kind = "filtered"
  BY <1>0, <1>1 DEF Merge, Covers
<1>2. CASE r.kind = "sorted"
  <2>1. s \in Seq(Items) /\ Distinct(s) /\ \A x : x \in H <=> \E i \in 1 .. Len(s) : s[i] = x
    BY HeapListed
  <2> HIDE DEF s
  <2>2. Mergeable(G, s)
    BY <2>1 DEF Mergeable, Apart
  <2>3. MergedFor(r.need, G, s, R)
    BY <1>0, <1>2, <2>1, <2>2, MergeIsFold, PushAll DEF s
  <2> HIDE DEF R
  <2>4. R \subseteq G \cup H /\ \A y \in H : Bounded(r.need, R, y)
    BY <2>1, <2>3 DEF MergedFor
  <2>5. ASSUME NEW y \in Items, Bounded(r.need, H, y) PROVE Bounded(r.need, R, y)
    <3>1. CASE y \in H
      BY <2>4, <3>1
    <3>2. CASE y \notin H /\ H \subseteq R
      <4>1. Cardinality(R) <= r.need /\ r.need <= Cardinality(H)
        BY <2>3, <2>5, <3>2 DEF MergedFor, Bounded
      <4>2. Cardinality(H) <= Cardinality(R) /\ (Cardinality(R) = Cardinality(H) => R = H)
        BY <1>0, <3>2, HeapFacts, FS_Subset
      <4>3. Cardinality(R) \in Nat /\ Cardinality(H) \in Nat
        BY <1>0, HeapFacts
      <4>4. R = H
        BY <1>0, <4>1, <4>2, <4>3
      <4> QED
        BY <2>5, <4>4
    <3>3. CASE y \notin H /\ ~(H \subseteq R)
      <4>1. PICK z \in H : z \notin R
        BY <3>3
      <4>2. r.need <= Cardinality(R) /\ \A u \in R : Less(u, z)
        BY <2>4, <4>1 DEF Bounded
      <4>3. Less(z, y)
        BY <2>5, <3>3, <4>1 DEF Bounded
      <4>4. \A u \in R : Less(u, y)
        BY <1>0, <4>1, <4>2, <4>3, HeapFacts, LessOrder
      <4> QED
        BY <4>2, <4>4 DEF Bounded
    <3> QED
      BY <3>1, <3>2, <3>3
  <2>6. \A y \in Items : Bounded(r.need, G, y) => Bounded(r.need, R, y)
    BY <2>3 DEF MergedFor
  <2>7. \A B, y : Covers(r, B, y) <=> Bounded(r.need, B, y)
    BY <1>2 DEF Covers, Bounded
  <2> QED
    BY <1>0, <2>3, <2>4, <2>5, <2>6, <2>7 DEF MergedFor, R
<1> QED
  BY <1>0, <1>1, <1>2

(* What a document adds to a heap. *)
LEMMA ItemType ==
    ASSUME NEW r \in Requests, NEW k \in Keys, NEW d \in Docs
    PROVE  Item(r, k, d) \in Items /\ Item(r, k, d).key = k
<1>0. d.val \in Vals /\ d.seq \in Nat
  BY DEF Docs
<1>1. d.val \in Nat
  BY <1>0, KeysAreNat
<1>2. (IF r.kind = "sorted" THEN d.val ELSE d.seq) \in Int
  BY <1>0, <1>1
<1> QED
  BY <1>2 DEF Item, Items

LEMMA FeedFacts ==
    ASSUME NEW r \in Requests, NEW H \in Heaps, NEW k \in Keys, NEW d \in Docs,
           \A y \in H : y.key # k,
           r.kind = "sorted" => Cardinality(H) <= r.need
    PROVE  LET N == Feed(r, H, k, d)
               x == Item(r, k, d)
           IN  /\ N \in Heaps /\ N \subseteq H \cup {x}
               /\ r.kind = "sorted" => Cardinality(N) <= r.need
               /\ Qualifies(r, d.val) => Covers(r, N, x)
               /\ \A y \in Items : Covers(r, H, y) => Covers(r, N, y)
<1> DEFINE N == Feed(r, H, k, d)
           x == Item(r, k, d)
<1>0. x \in Items /\ x \notin H /\ r.kind \in {"filtered", "sorted"} /\ r.need \in Nat
  BY ItemType, RequestShape
<1> HIDE DEF x
<1>1. CASE ~Matches(r, d)
  <2>1. N = H
    BY <1>1 DEF Feed
  <2> QED
    BY <1>1, <2>1 DEF Matches, Qualifies, x
<1>2. CASE Matches(r, d) /\ r.kind = "filtered"
  <2>1. N = H \cup {x}
    BY <1>2 DEF Feed, x
  <2>2. N \in Heaps
    BY <1>0, <2>1, AddToHeap
  <2> QED
    BY <1>2, <2>1, <2>2 DEF Covers, x
<1>3. CASE Matches(r, d) /\ r.kind = "sorted" /\ d.val = 0
  <2>1. N = H
    BY <1>3 DEF Feed
  <2> QED
    BY <1>3, <2>1 DEF Qualifies, x
<1>4. CASE Matches(r, d) /\ r.kind = "sorted" /\ d.val # 0
  <2>1. N = PushBounded(H, x, r.need)
    BY <1>4 DEF Feed, x
  <2> DEFINE P == PushBounded(H, x, r.need)
  <2>2. /\ P \in Heaps /\ P \subseteq H \cup {x} /\ Cardinality(P) <= r.need
        /\ Bounded(r.need, P, x)
        /\ \A y \in Items : Bounded(r.need, H, y) => Bounded(r.need, P, y)
    BY <1>0, <1>4, PushFacts
  <2> HIDE DEF P
  <2>3. \A B, y : Covers(r, B, y) <=> Bounded(r.need, B, y)
    BY <1>4 DEF Covers, Bounded
  <2>4. N = P
    BY <2>1 DEF P
  <2> QED
    BY <2>2, <2>3, <2>4 DEF x
<1> QED
  BY <1>0, <1>1, <1>2, <1>3, <1>4

(* A request of any kind leaves a heap a heap. *)
LEMMA FeedType ==
    ASSUME NEW r \in Requests, NEW H \in Heaps, NEW k \in Keys, NEW d \in Docs
    PROVE  Feed(r, H, k, d) \in Heaps
<1> DEFINE x == Item(r, k, d)
<1>1. x \in Items
  BY ItemType
<1> HIDE DEF x
<1>2. H \cup {x} \in Heaps
  BY <1>1, AddToHeap
<1>3. (H \ {Worst(H)}) \cup {x} \in Heaps
  <2> DEFINE Q == H \ {Worst(H)}
  <2>1. Q \in Heaps
    BY RemoveFromHeap
  <2> HIDE DEF Q
  <2>2. Q \cup {x} \in Heaps
    BY <1>1, <2>1, AddToHeap
  <2> QED
    BY <2>2 DEF Q
<1>4. PushBounded(H, x, r.need) \in Heaps
  BY <1>2, <1>3 DEF PushBounded
<1> QED
  BY <1>2, <1>4 DEF Feed, x

(***************************************************************************)
(* into_sorted_vec: an item stands behind as many as are less than it.     *)
(***************************************************************************)
Before(H, x) == {y \in H : Less(y, x)}
Rank(H, x) == Cardinality(Before(H, x))

LEMMA RankBounds ==
    ASSUME NEW H \in Heaps, NEW x \in H
    PROVE  Rank(H, x) \in 0 .. Cardinality(H) - 1
<1>1. H \subseteq Items /\ IsFiniteSet(H) /\ Cardinality(H) \in Nat
  BY HeapFacts
<1>2. Before(H, x) \subseteq H \ {x}
  BY <1>1, LessOrder DEF Before
<1>3. IsFiniteSet(H \ {x}) /\ Cardinality(H \ {x}) = Cardinality(H) - 1
  BY <1>1, FS_RemoveElement
<1>4. IsFiniteSet(Before(H, x)) /\ Cardinality(Before(H, x)) <= Cardinality(H \ {x})
  BY <1>2, <1>3, FS_Subset
<1>5. Cardinality(Before(H, x)) \in Nat
  BY <1>4, FS_CardinalityType
<1> QED
  BY <1>1, <1>3, <1>4, <1>5 DEF Rank

LEMMA RankGrows ==
    ASSUME NEW H \in Heaps, NEW x \in H, NEW y \in H, Less(x, y)
    PROVE  Rank(H, x) < Rank(H, y)
<1>1. H \subseteq Items /\ IsFiniteSet(H)
  BY HeapFacts
<1>2. Before(H, x) \subseteq Before(H, y) /\ x \in Before(H, y) /\ x \notin Before(H, x)
  BY <1>1, LessOrder DEF Before
<1>3. IsFiniteSet(Before(H, y))
  BY <1>1, FS_Subset DEF Before
<1>4. Rank(H, x) <= Rank(H, y) /\ Rank(H, x) # Rank(H, y)
  BY <1>2, <1>3, FS_Subset DEF Rank
<1>5. Rank(H, x) \in Int /\ Rank(H, y) \in Int
  BY RankBounds
<1> QED
  BY <1>4, <1>5

LEMMA RankTaken ==
    ASSUME NEW H \in Heaps, NEW n \in 0 .. Cardinality(H) - 1
    PROVE  \E x \in H : Rank(H, x) = n
<1> DEFINE f == [x \in H |-> Rank(H, x)]
           D == 0 .. Cardinality(H) - 1
<1>0. H \subseteq Items /\ Cardinality(H) \in Nat /\ IsFiniteSet(H)
  BY HeapFacts
<1>1. f \in [H -> D]
  BY RankBounds
<1>2. \A x, y \in H : f[x] = f[y] => x = y
  <2> SUFFICES ASSUME NEW x \in H, NEW y \in H, x # y PROVE f[x] # f[y]
    OBVIOUS
  <2>1. Less(x, y) \/ Less(y, x)
    BY <1>0, LessOrder
  <2>2. Rank(H, x) \in Int /\ Rank(H, y) \in Int
    BY RankBounds
  <2> QED
    BY <2>1, <2>2, RankGrows
<1>3. f \in Injection(H, D)
  BY <1>1, <1>2 DEF Injection, IsInjective
<1>4. IsFiniteSet(D) /\ Cardinality(D) = Cardinality(H)
  BY <1>0, FS_Interval
<1> HIDE DEF f, D
<1>5. f \in Surjection(H, D)
  BY <1>3, <1>4, FS_Injection
<1> QED
  BY <1>5 DEF Surjection, f, D

LEMMA SortedVec ==
    ASSUME NEW H \in Heaps
    PROVE  LET s == IntoSortedVec(H)
           IN  /\ s \in Seq(Items) /\ Len(s) = Cardinality(H)
               /\ \A i \in 1 .. Len(s) : s[i] \in H
               /\ \A i, j \in 1 .. Len(s) : i < j => Less(s[i], s[j])
               /\ \A x \in H : \E i \in 1 .. Len(s) : s[i] = x
<1> DEFINE s == IntoSortedVec(H)
           n == Cardinality(H)
<1>0. H \subseteq Items /\ n \in Nat
  BY HeapFacts
<1>1. ASSUME NEW i \in 1 .. n PROVE s[i] \in H /\ Rank(H, s[i]) = i - 1
  <2>1. i - 1 \in 0 .. n - 1
    BY <1>0
  <2>2. \E x \in H : Cardinality({y \in H : Less(y, x)}) = i - 1
    BY <2>1, RankTaken DEF Rank, Before
  <2>3. s[i] = CHOOSE x \in H : Cardinality({y \in H : Less(y, x)}) = i - 1
    BY DEF IntoSortedVec
  <2>4. s[i] \in H /\ Cardinality({y \in H : Less(y, s[i])}) = i - 1
    BY <2>2, <2>3, Zenon
  <2> QED
    BY <2>4 DEF Rank, Before
<1>2. s = [i \in 1 .. n |-> s[i]]
  <2> DEFINE E(i) == CHOOSE x \in H : Cardinality({y \in H : Less(y, x)}) = i - 1
  <2>1. s = [i \in 1 .. n |-> E(i)]
    BY DEF IntoSortedVec
  <2> HIDE DEF E, s
  <2> QED
    BY <2>1
<1> HIDE DEF s, n
<1>3. s \in Seq(Items) /\ Len(s) = n
  <2>1. s \in [1 .. n -> Items]
    BY <1>0, <1>1, <1>2
  <2> QED
    BY <1>0, <2>1
<1>4. ASSUME NEW i \in 1 .. n, NEW j \in 1 .. n, i < j PROVE Less(s[i], s[j])
  <2>1. s[i] # s[j] /\ s[i] \in H /\ s[j] \in H /\ Rank(H, s[i]) < Rank(H, s[j])
    <3>1. s[i] \in H /\ Rank(H, s[i]) = i - 1 /\ s[j] \in H /\ Rank(H, s[j]) = j - 1
      BY <1>1
    <3> QED
      BY <1>4, <3>1
  <2>2. CASE Less(s[j], s[i])
    <3>1. Rank(H, s[j]) < Rank(H, s[i])
      BY <2>1, <2>2, RankGrows
    <3>2. Rank(H, s[i]) \in Int /\ Rank(H, s[j]) \in Int
      BY <2>1, RankBounds
    <3> QED
      BY <2>1, <3>1, <3>2
  <2> QED
    BY <1>0, <2>1, <2>2, LessOrder
<1>5. ASSUME NEW x \in H PROVE \E i \in 1 .. n : s[i] = x
  <2> DEFINE i == Rank(H, x) + 1
  <2>1. i \in 1 .. n /\ Rank(H, x) \in Int
    BY <1>0, RankBounds DEF n
  <2>2. s[i] \in H /\ Rank(H, s[i]) = Rank(H, x)
    BY <1>1, <2>1
  <2> HIDE DEF i
  <2>3. s[i] = x
    <3>1. CASE Less(s[i], x)
      BY <2>1, <2>2, <3>1, RankGrows
    <3>2. CASE Less(x, s[i])
      BY <2>1, <2>2, <3>2, RankGrows
    <3> QED
      BY <1>0, <2>2, <3>1, <3>2, LessOrder
  <2> QED
    BY <2>1, <2>3
<1> QED
  BY <1>1, <1>3, <1>4, <1>5 DEF s, n

(* The page: what is left out comes after need others. *)
LEMMA WinnersFacts ==
    ASSUME NEW r \in Requests, NEW H \in Heaps
    PROVE  LET s == Winners(r, H)
           IN  /\ s \in Seq(Items)
               /\ \A i \in 1 .. Len(s) : s[i] \in H
               /\ \A i, j \in 1 .. Len(s) : i < j => Less(s[i], s[j])
               /\ \A x \in Items : Covers(r, H, x) =>
                     \/ \E i \in 1 .. Len(s) : s[i] = x
                     \/ Cardinality(H) >= r.need /\ \A i \in 1 .. Len(s) : Less(s[i], x)
<1> DEFINE v == IntoSortedVec(H)
           s == Winners(r, H)
<1>0. r.kind \in {"filtered", "sorted"} /\ r.need \in Nat /\ Cardinality(H) \in Nat
  BY RequestShape, HeapFacts
<1>1. /\ v \in Seq(Items) /\ Len(v) = Cardinality(H)
      /\ \A i \in 1 .. Len(v) : v[i] \in H
      /\ \A i, j \in 1 .. Len(v) : i < j => Less(v[i], v[j])
      /\ \A x \in H : \E i \in 1 .. Len(v) : v[i] = x
  BY SortedVec
<1> HIDE DEF v
<1>2. CASE r.kind = "sorted"
  <2>1. s = v
    BY <1>2 DEF Winners, v
  <2>2. ASSUME NEW x \in Items, Covers(r, H, x)
        PROVE  \/ \E i \in 1 .. Len(v) : v[i] = x
               \/ Cardinality(H) >= r.need /\ \A i \in 1 .. Len(v) : Less(v[i], x)
    BY <1>0, <1>1, <2>2 DEF Covers
  <2> HIDE DEF s
  <2> QED
    BY <1>1, <2>1, <2>2 DEF s
<1>3. CASE r.kind = "filtered"
  <2> DEFINE n == IF r.need < Len(v) THEN r.need ELSE Len(v)
  <2>1. s = SubSeq(v, 1, n)
    BY <1>3 DEF Winners, v
  <2>2. n \in 0 .. Len(v) /\ n <= r.need /\ (n = Len(v) \/ n = r.need)
    BY <1>0, <1>1
  <2> HIDE DEF n, s
  <2>3. s \in Seq(Items) /\ Len(s) = n /\ \A i \in 1 .. n : s[i] = v[i]
    BY <1>0, <1>1, <2>1, <2>2
  <2>4. ASSUME NEW x \in Items, Covers(r, H, x)
        PROVE  \/ \E i \in 1 .. Len(s) : s[i] = x
               \/ Cardinality(H) >= r.need /\ \A i \in 1 .. Len(s) : Less(s[i], x)
    <3>1. PICK j \in 1 .. Len(v) : v[j] = x
      BY <1>1, <1>3, <2>4 DEF Covers
    <3>2. CASE j <= n
      BY <2>2, <2>3, <3>1, <3>2
    <3>3. CASE j > n
      <4>1. \A i \in 1 .. n : i \in 1 .. Len(v) /\ i < j
        BY <1>1, <2>2, <3>3
      <4>2. n = r.need /\ Cardinality(H) >= n
        BY <1>0, <1>1, <2>2, <3>1, <3>3
      <4> QED
        BY <1>1, <2>3, <3>1, <4>1, <4>2
    <3> QED
      BY <2>2, <3>2, <3>3
  <2>5. \A i \in 1 .. n : i \in 1 .. Len(v)
    BY <1>1, <2>2
  <2> QED
    BY <1>1, <2>3, <2>4, <2>5 DEF s
<1> QED
  BY <1>0, <1>2, <1>3

(***************************************************************************)
(* The grouping loop.                                                      *)
(***************************************************************************)
KeptFor(s, S, t) ==
    /\ t \in Seq(Callers)
    /\ \A c : (\E i \in 1 .. Len(t) : t[i] = c) <=> (c \in S /\ \E i \in 1 .. Len(s) : s[i] = c)
    /\ Distinct(s) => Distinct(t)

LEMMA OnlyFacts ==
    ASSUME NEW S
    PROVE  \A s \in Seq(Callers) : KeptFor(s, S, Only(s, S))
<1>0. \A s : Only(s, S) = Keeping!Fold(S, <<>>, s)
  BY DEF Only, Keeping!Fold, KeepOp, FoldLeft, MapThenFoldSet, Max,
         Keeping!FoldLeft, Keeping!MapThenFoldSet, Keeping!Max
<1> DEFINE T == {s \in Seq(Callers) : KeptFor(s, S, Keeping!Fold(S, <<>>, s))}
<1>1. <<>> \in T
  <2>1. Keeping!Fold(S, <<>>, <<>>) = <<>> /\ <<>> \in Seq(Callers) /\ Len(<<>>) = 0
    BY Keeping!FoldEmpty, EmptySeq
  <2>2. KeptFor(<<>>, S, <<>>)
    BY DEF KeptFor
  <2> QED
    BY <2>1, <2>2
<1>2. ASSUME NEW s \in Seq(Callers), NEW x \in Callers, s \in T PROVE Append(s, x) \in T
  <2> DEFINE u == Append(s, x)
             t == Keeping!Fold(S, <<>>, s)
             q == IF x \in S THEN Append(t, x) ELSE t
  <2>1. u \in Seq(Callers) /\ Len(u) = Len(s) + 1 /\ Len(s) \in Nat
    OBVIOUS
  <2>2. u[Len(s) + 1] = x /\ \A i \in 1 .. Len(s) : u[i] = s[i]
    OBVIOUS
  <2>3. Keeping!Fold(S, <<>>, u) = q
    BY Keeping!FoldAppend DEF KeepOp
  <2>4. KeptFor(s, S, t)
    BY <1>2
  <2> HIDE DEF u, t
  <2>5. \A c : (\E i \in 1 .. Len(u) : u[i] = c) <=> c = x \/ \E i \in 1 .. Len(s) : s[i] = c
    <3>1. \A i \in 1 .. Len(u) : i \in 1 .. Len(s) \/ i = Len(s) + 1
      BY <2>1
    <3>2. Len(s) + 1 \in 1 .. Len(u) /\ \A i \in 1 .. Len(s) : i \in 1 .. Len(u)
      BY <2>1
    <3> QED
      BY <2>2, <3>1, <3>2
  <2>6. Distinct(u) => Distinct(s) /\ ~\E i \in 1 .. Len(s) : s[i] = x
    <3>1. Len(s) + 1 \in 1 .. Len(u) /\ \A i \in 1 .. Len(s) : i \in 1 .. Len(u) /\ i # Len(s) + 1
      BY <2>1
    <3> QED
      BY <2>2, <3>1 DEF Distinct
  <2>7. CASE x \notin S
    <3>1. q = t
      BY <2>7
    <3>2. KeptFor(u, S, t)
      BY <2>4, <2>5, <2>6, <2>7 DEF KeptFor
    <3> QED
      BY <2>1, <2>3, <3>1, <3>2 DEF u
  <2>8. CASE x \in S
    <3>0. t \in Seq(Callers)
      BY <2>4 DEF KeptFor
    <3>1. q \in Seq(Callers) /\ Len(q) = Len(t) + 1 /\ Len(t) \in Nat
      BY <2>8, <3>0
    <3>2. q[Len(t) + 1] = x /\ \A i \in 1 .. Len(t) : q[i] = t[i]
      BY <2>8, <3>0
    <3> HIDE DEF q
    <3>3. \A i \in 1 .. Len(q) : i \in 1 .. Len(t) \/ i = Len(t) + 1
      BY <3>1
    <3>4. Len(t) + 1 \in 1 .. Len(q) /\ \A i \in 1 .. Len(t) : i \in 1 .. Len(q)
      BY <3>1
    <3>5. \A c : (\E i \in 1 .. Len(q) : q[i] = c) <=> c = x \/ \E i \in 1 .. Len(t) : t[i] = c
      BY <3>2, <3>3, <3>4
    <3>6. ASSUME Distinct(u) PROVE Distinct(q)
      <4>1. Distinct(t) /\ \A i \in 1 .. Len(t) : t[i] # x
        BY <2>4, <2>6, <3>6 DEF KeptFor
      <4> QED
        BY <3>2, <3>3, <4>1 DEF Distinct
    <3>7. KeptFor(u, S, q)
      BY <2>4, <2>5, <2>8, <3>1, <3>5, <3>6 DEF KeptFor
    <3> QED
      BY <2>1, <2>3, <3>7 DEF u
  <2> QED
    BY <2>7, <2>8 DEF u
<1> HIDE DEF T
<1>3. \A s \in Seq(Callers) : s \in T
  BY <1>1, <1>2, Keeping!SeqSetInduction
<1> QED
  BY <1>0, <1>3 DEF T
-----------------------------------------------------------------------------
(***************************************************************************)
(* The line of requests.                                                   *)
(***************************************************************************)
LEMMA TailFacts ==
    ASSUME NEW S, NEW s \in Seq(S), s # <<>>
    PROVE  /\ Tail(s) \in Seq(S) /\ Len(s) \in Nat /\ Len(s) > 0 /\ Len(Tail(s)) = Len(s) - 1
           /\ Head(s) = s[1] /\ Head(s) \in S /\ 1 \in 1 .. Len(s)
           /\ \A i \in 1 .. Len(Tail(s)) : Tail(s)[i] = s[i + 1] /\ i + 1 \in 1 .. Len(s) /\ i + 1 # 1
OBVIOUS

LEMMA AppendFacts ==
    ASSUME NEW S, NEW s \in Seq(S), NEW x \in S
    PROVE  /\ Append(s, x) \in Seq(S) /\ Len(s) \in Nat /\ Len(Append(s, x)) = Len(s) + 1
           /\ Append(s, x)[Len(s) + 1] = x /\ Len(s) + 1 \in 1 .. Len(Append(s, x))
           /\ \A i \in 1 .. Len(s) : Append(s, x)[i] = s[i] /\ i \in 1 .. Len(Append(s, x)) /\ i # Len(s) + 1
           /\ \A i \in 1 .. Len(Append(s, x)) : i \in 1 .. Len(s) \/ i = Len(s) + 1
OBVIOUS

LEMMA QueueGrows ==
    ASSUME NEW calls, NEW line \in Seq(Callers), NEW batch \in Seq(Callers), NEW c \in Callers,
           QueueFor(calls, line, batch),
           \A i \in 1 .. Len(line) : line[i] # c, \A i \in 1 .. Len(batch) : batch[i] # c,
           calls[c].at = "waiting", calls[c].req \in Requests
    PROVE  QueueFor(calls, Append(line, c), batch)
<1> DEFINE t == Append(line, c)
<1>1. /\ t[Len(line) + 1] = c
      /\ \A i \in 1 .. Len(line) : t[i] = line[i]
      /\ \A i \in 1 .. Len(t) : i \in 1 .. Len(line) \/ i = Len(line) + 1
  BY AppendFacts
<1> HIDE DEF t
<1>2. Distinct(t)
  BY <1>1 DEF QueueFor, Distinct
<1>3. Separate(t, batch)
  BY <1>1 DEF QueueFor, Separate
<1>4. \A i \in 1 .. Len(t) : calls[t[i]].at = "waiting" /\ calls[t[i]].req \in Requests
  BY <1>1 DEF QueueFor
<1> QED
  BY <1>2, <1>3, <1>4 DEF QueueFor, t

LEMMA QueueShifts ==
    ASSUME NEW calls, NEW line \in Seq(Callers), NEW batch \in Seq(Callers),
           QueueFor(calls, line, batch), line # <<>>
    PROVE  QueueFor(calls, Tail(line), Append(batch, Head(line)))
<1> DEFINE c == Head(line)
           t == Tail(line)
           b == Append(batch, c)
<1>1. /\ c = line[1] /\ c \in Callers /\ 1 \in 1 .. Len(line)
      /\ \A i \in 1 .. Len(t) : t[i] = line[i + 1] /\ i + 1 \in 1 .. Len(line) /\ i + 1 # 1
  BY TailFacts
<1>2. \A i, j \in 1 .. Len(t) : i + 1 = j + 1 => i = j
  OBVIOUS
<1>3. /\ b[Len(batch) + 1] = c
      /\ \A i \in 1 .. Len(batch) : b[i] = batch[i]
      /\ \A i \in 1 .. Len(b) : i \in 1 .. Len(batch) \/ i = Len(batch) + 1
  BY <1>1, AppendFacts
<1> HIDE DEF c, t, b
<1>4. Distinct(t) /\ \A i \in 1 .. Len(t) : t[i] # c
  BY <1>1, <1>2 DEF QueueFor, Distinct
<1>5. Distinct(b)
  BY <1>1, <1>3 DEF QueueFor, Distinct, Separate
<1>6. Separate(t, b)
  BY <1>1, <1>3, <1>4 DEF QueueFor, Separate
<1>7. \A i \in 1 .. Len(t) : calls[t[i]].at = "waiting" /\ calls[t[i]].req \in Requests
  BY <1>1 DEF QueueFor
<1> QED
  BY <1>4, <1>5, <1>6, <1>7 DEF QueueFor, c, t, b

LEMMA BatchShrinks ==
    ASSUME NEW calls, NEW line \in Seq(Callers), NEW batch \in Seq(Callers),
           QueueFor(calls, line, batch), batch # <<>>
    PROVE  /\ QueueFor(calls, line, Tail(batch))
           /\ \A i \in 1 .. Len(Tail(batch)) : Tail(batch)[i] # Head(batch)
           /\ \A i \in 1 .. Len(line) : line[i] # Head(batch)
<1> DEFINE c == Head(batch)
           t == Tail(batch)
<1>1. /\ c = batch[1] /\ c \in Callers /\ 1 \in 1 .. Len(batch)
      /\ \A i \in 1 .. Len(t) : t[i] = batch[i + 1] /\ i + 1 \in 1 .. Len(batch) /\ i + 1 # 1
  BY TailFacts
<1>2. \A i, j \in 1 .. Len(t) : i + 1 = j + 1 => i = j
  OBVIOUS
<1> HIDE DEF c, t
<1>4. Distinct(t) /\ \A i \in 1 .. Len(t) : t[i] # c
  BY <1>1, <1>2 DEF QueueFor, Distinct
<1>6. Separate(line, t)
  BY <1>1 DEF QueueFor, Separate
<1>7. \A i \in 1 .. Len(line) : line[i] # c
  BY <1>1 DEF QueueFor, Separate
<1> QED
  BY <1>4, <1>6, <1>7 DEF QueueFor, c, t

(* The pass puts the requests of its collection first. *)
LEMMA GroupFirst ==
    ASSUME NEW batch \in Seq(Callers), NEW S, Distinct(batch)
    PROVE  LET p == Only(batch, S)
               q == Only(batch, Callers \ S)
               b == p \o q
           IN  /\ b \in Seq(Callers) /\ Distinct(b)
               /\ \A c : (\E i \in 1 .. Len(b) : b[i] = c) <=> \E i \in 1 .. Len(batch) : batch[i] = c
               /\ \A i, j \in 1 .. Len(b) : i < j /\ b[j] \in S => b[i] \in S
<1> DEFINE p == Only(batch, S)
           q == Only(batch, Callers \ S)
           b == p \o q
<1>1. KeptFor(batch, S, p)
  BY OnlyFacts
<1>2. KeptFor(batch, Callers \ S, q)
  BY OnlyFacts
<1> HIDE DEF p, q
<1>3. /\ p \in Seq(Callers) /\ Distinct(p)
      /\ \A i \in 1 .. Len(p) : p[i] \in S /\ \E j \in 1 .. Len(batch) : batch[j] = p[i]
  BY <1>1 DEF KeptFor
<1>4. /\ q \in Seq(Callers) /\ Distinct(q)
      /\ \A i \in 1 .. Len(q) : q[i] \notin S /\ \E j \in 1 .. Len(batch) : batch[j] = q[i]
  BY <1>2 DEF KeptFor
<1>5. /\ b \in Seq(Callers) /\ Len(b) = Len(p) + Len(q) /\ Len(p) \in Nat /\ Len(q) \in Nat
      /\ \A i \in 1 .. Len(b) : b[i] = IF i <= Len(p) THEN p[i] ELSE q[i - Len(p)]
  BY <1>3, <1>4
<1>6. \A i \in 1 .. Len(b) : \/ i \in 1 .. Len(p) /\ b[i] = p[i]
                             \/ i > Len(p) /\ i - Len(p) \in 1 .. Len(q) /\ b[i] = q[i - Len(p)]
  BY <1>5
<1>7. /\ \A i \in 1 .. Len(p) : i \in 1 .. Len(b) /\ b[i] = p[i]
      /\ \A i \in 1 .. Len(q) : i + Len(p) \in 1 .. Len(b) /\ b[i + Len(p)] = q[i]
  BY <1>5
<1> HIDE DEF b
<1>8. Distinct(b)
  <2> SUFFICES ASSUME NEW i \in 1 .. Len(b), NEW j \in 1 .. Len(b), b[i] = b[j] PROVE i = j
    BY DEF Distinct
  <2>1. CASE i \in 1 .. Len(p) /\ b[i] = p[i]
    <3>1. CASE j \in 1 .. Len(p) /\ b[j] = p[j]
      BY <1>3, <2>1, <3>1 DEF Distinct
    <3>2. CASE j > Len(p) /\ j - Len(p) \in 1 .. Len(q) /\ b[j] = q[j - Len(p)]
      BY <1>3, <1>4, <2>1, <3>2
    <3> QED
      BY <1>6, <3>1, <3>2
  <2>2. CASE i > Len(p) /\ i - Len(p) \in 1 .. Len(q) /\ b[i] = q[i - Len(p)]
    <3>1. CASE j \in 1 .. Len(p) /\ b[j] = p[j]
      BY <1>3, <1>4, <2>2, <3>1
    <3>2. CASE j > Len(p) /\ j - Len(p) \in 1 .. Len(q) /\ b[j] = q[j - Len(p)]
      <4>1. i - Len(p) = j - Len(p)
        BY <1>4, <2>2, <3>2 DEF Distinct
      <4> QED
        BY <1>5, <4>1
    <3> QED
      BY <1>6, <3>1, <3>2
  <2> QED
    BY <1>6, <2>1, <2>2
<1>9. ASSUME NEW c PROVE (\E i \in 1 .. Len(b) : b[i] = c) <=> \E i \in 1 .. Len(batch) : batch[i] = c
  <2>1. ASSUME NEW i \in 1 .. Len(b), b[i] = c PROVE \E j \in 1 .. Len(batch) : batch[j] = c
    BY <1>3, <1>4, <1>6, <2>1
  <2>2. ASSUME NEW i \in 1 .. Len(batch), batch[i] = c PROVE \E j \in 1 .. Len(b) : b[j] = c
    <3>1. c \in Callers
      BY <2>2
    <3>2. CASE c \in S
      <4>1. \E j \in 1 .. Len(p) : p[j] = c
        BY <1>1, <2>2, <3>2 DEF KeptFor
      <4> QED
        BY <1>7, <4>1
    <3>3. CASE c \notin S
      <4>1. \E j \in 1 .. Len(q) : q[j] = c
        BY <1>2, <2>2, <3>1, <3>3 DEF KeptFor
      <4> QED
        BY <1>7, <4>1
    <3> QED
      BY <3>2, <3>3
  <2> QED
    BY <2>1, <2>2
<1>10. \A i, j \in 1 .. Len(b) : i < j /\ b[j] \in S => b[i] \in S
  <2> SUFFICES ASSUME NEW i \in 1 .. Len(b), NEW j \in 1 .. Len(b), i < j, b[j] \in S PROVE b[i] \in S
    OBVIOUS
  <2>1. j \in 1 .. Len(p)
    BY <1>4, <1>6
  <2>2. i \in 1 .. Len(p) /\ b[i] = p[i]
    BY <1>5, <1>7, <2>1
  <2> QED
    BY <1>3, <2>2
<1> QED
  BY <1>5, <1>8, <1>9, <1>10 DEF b, p, q
-----------------------------------------------------------------------------
(***************************************************************************)
(* The pass and the answer of one caller.                                  *)
(***************************************************************************)
LEMMA PassShrinks ==
    ASSUME NEW r, NEW m, NEW L, NEW todo, NEW A, NEW M, NEW c, NEW m2, NEW L2,
           PassFor(r, m, L, todo, A, M, c), L2 \subseteq L, \A k \in L2 : m2[k] = m[k]
    PROVE  PassFor(r, m2, L2, todo, A, M, c)
<1>1. \A H : HeapFor(r, m, L, todo, H) => HeapFor(r, m2, L2, todo, H)
  BY DEF HeapFor
<1> QED
  BY <1>1 DEF PassFor

LEMMA AnswerShrinks ==
    ASSUME NEW r, NEW m, NEW L, NEW full, NEW left, NEW out, NEW m2, NEW L2,
           AnswerFor(r, m, L, full, left, out), L2 \subseteq L, \A k \in L2 : m2[k] = m[k]
    PROVE  AnswerFor(r, m2, L2, full, left, out)
<1>1. /\ \A i, j \in 1 .. Len(left) : i < j => Less(left[i], left[j])
      /\ \A i \in 1 .. Len(left) :
            left[i].key \in L2 => left[i] = Item(r, left[i].key, m2[left[i].key])
      /\ \A i \in 1 .. Len(out) : out[i].key \in L2 => out[i].doc = m2[out[i].key]
  BY DEF AnswerFor
<1>2. \A i, j \in 1 .. Len(out) :
          i < j /\ out[i].key \in L2 /\ out[j].key \in L2
             => Less(Item(r, out[i].key, m2[out[i].key]), Item(r, out[j].key, m2[out[j].key]))
  BY DEF AnswerFor
<1>3. \A i \in 1 .. Len(out), j \in 1 .. Len(left) :
          out[i].key \in L2 => Less(Item(r, out[i].key, m2[out[i].key]), left[j])
  BY DEF AnswerFor
<1>4. ASSUME NEW k \in L2
      PROVE  \/ \E i \in 1 .. Len(out) : out[i].key = k
             \/ \E j \in 1 .. Len(left) : left[j] = Item(r, k, m2[k])
             \/ /\ full
                /\ \A i \in 1 .. Len(out) :
                      out[i].key \in L2 => Less(Item(r, out[i].key, m2[out[i].key]), Item(r, k, m2[k]))
                /\ \A j \in 1 .. Len(left) : Less(left[j], Item(r, k, m2[k]))
  <2>1. k \in L /\ m2[k] = m[k]
    OBVIOUS
  <2> QED
    BY <2>1 DEF AnswerFor
<1> QED
  BY <1>1, <1>2, <1>3, <1>4 DEF AnswerFor

LEMMA PassStarts ==
    ASSUME NEW r \in Requests, NEW m, NEW L, L \subseteq Keys, NEW c \in Callers
    PROVE  PassFor(r, m, L, Keys, [w \in Workers |-> Empty], {}, c)
<1>1. HeapFor(r, m, L, Keys, {})
  BY RequestShape, EmptyHeap DEF HeapFor
<1>2. \A w \in Workers : [v \in Workers |-> Empty][w][c] = {}
  BY DEF Empty
<1>3. Apart({}, {})
  BY DEF Apart
<1> DEFINE A == [v \in Workers |-> Empty]
<1>4. \A w \in Workers : A[w][c] = {}
  BY <1>2
<1> HIDE DEF A
<1>5. PassFor(r, m, L, Keys, A, {}, c)
  BY <1>1, <1>3, <1>4 DEF PassFor
<1> QED
  BY <1>5 DEF A

LEMMA PassSkips ==
    ASSUME NEW r, NEW m, NEW L, NEW todo, NEW A, NEW M, NEW c, NEW k,
           PassFor(r, m, L, todo, A, M, c), k \notin L
    PROVE  PassFor(r, m, L, todo \ {k}, A, M, c)
<1>1. \A H : HeapFor(r, m, L, todo, H) => HeapFor(r, m, L, todo \ {k}, H)
  BY DEF HeapFor
<1>2. L \ (todo \ {k}) = L \ todo
  OBVIOUS
<1> QED
  BY <1>1, <1>2 DEF PassFor

LEMMA PassVisits ==
    ASSUME NEW r \in Requests, NEW m, NEW L, NEW todo, NEW M \in Heaps, NEW c,
           NEW A, NEW B, NEW w \in Workers, NEW k \in Keys,
           \A v \in Workers : A[v][c] \in Heaps,
           L \subseteq Keys, \A j \in L : m[j] \in Docs,
           PassFor(r, m, L, todo, A, M, c), k \in todo, m[k] \in Docs,
           k \in L => Qualifies(r, m[k].val),
           B[w][c] = Feed(r, A[w][c], k, m[k]),
           \A v \in Workers \ {w} : B[v][c] = A[v][c]
    PROVE  PassFor(r, m, L, todo \ {k}, B, M, c)
<1> DEFINE x == Item(r, k, m[k])
           N == B[w][c]
           rest == todo \ {k}
<1>1. x \in Items /\ x.key = k
  BY ItemType
<1>2. /\ \A v \in Workers : HeapFor(r, m, L, todo, A[v][c]) /\ Apart(A[v][c], M)
      /\ HeapFor(r, m, L, todo, M)
  BY DEF PassFor
<1>3. /\ \A v \in Workers : \A y \in A[v][c] : y.key # k
      /\ \A y \in M : y.key # k
  BY <1>2 DEF HeapFor
<1>4. r.kind = "sorted" => Cardinality(A[w][c]) <= r.need
  BY <1>2 DEF HeapFor
<1>5. /\ N \in Heaps /\ N \subseteq A[w][c] \cup {x}
      /\ r.kind = "sorted" => Cardinality(N) <= r.need
      /\ Qualifies(r, m[k].val) => Covers(r, N, x)
      /\ \A y \in Items : Covers(r, A[w][c], y) => Covers(r, N, y)
  <2> DEFINE H == A[w][c]
  <2>1. H \in Heaps /\ (\A y \in H : y.key # k) /\ (r.kind = "sorted" => Cardinality(H) <= r.need)
    BY <1>3, <1>4
  <2> HIDE DEF H
  <2>2. LET F == Feed(r, H, k, m[k])
        IN  /\ F \in Heaps /\ F \subseteq H \cup {Item(r, k, m[k])}
            /\ r.kind = "sorted" => Cardinality(F) <= r.need
            /\ Qualifies(r, m[k].val) => Covers(r, F, Item(r, k, m[k]))
            /\ \A y \in Items : Covers(r, H, y) => Covers(r, F, y)
    BY <2>1, FeedFacts
  <2> QED
    BY <2>2 DEF H
<1> HIDE DEF x, N
<1>6. \A H : HeapFor(r, m, L, todo, H) => HeapFor(r, m, L, rest, H)
  BY DEF HeapFor
<1>7. HeapFor(r, m, L, rest, N)
  <2>1. \A y \in N : y.key \notin rest /\ (y.key \in L => y = Item(r, y.key, m[y.key]))
    <3> SUFFICES ASSUME NEW y \in N PROVE y.key \notin rest /\ (y.key \in L => y = Item(r, y.key, m[y.key]))
      OBVIOUS
    <3>1. CASE y = x
      BY <1>1, <3>1 DEF x
    <3>2. CASE y \in A[w][c]
      BY <1>2, <3>2 DEF HeapFor
    <3> QED
      BY <1>5, <3>1, <3>2
  <2> QED
    BY <1>5, <2>1 DEF HeapFor
<1>8. \A H : Apart(A[w][c], H) /\ (\A y \in H : y.key # k) => Apart(N, H) /\ Apart(H, N)
  BY <1>1, <1>5 DEF Apart
<1>9. \A v \in Workers \ {w} : Apart(A[w][c], A[v][c]) /\ \A y \in A[v][c] : y.key # k
  BY <1>3 DEF PassFor
<1>10. \A v, u \in Workers : v # u => Apart(B[v][c], B[u][c])
  <2> SUFFICES ASSUME NEW v \in Workers, NEW u \in Workers, v # u PROVE Apart(B[v][c], B[u][c])
    OBVIOUS
  <2>1. CASE v = w
    BY <1>8, <1>9, <2>1 DEF N
  <2>2. CASE u = w
    BY <1>8, <1>9, <2>2 DEF N
  <2>3. CASE v # w /\ u # w
    BY <2>3 DEF PassFor
  <2> QED
    BY <2>1, <2>2, <2>3
<1>11. \A v \in Workers : HeapFor(r, m, L, rest, B[v][c]) /\ Apart(B[v][c], M)
  <2> SUFFICES ASSUME NEW v \in Workers PROVE HeapFor(r, m, L, rest, B[v][c]) /\ Apart(B[v][c], M)
    OBVIOUS
  <2>1. CASE v = w
    BY <1>2, <1>3, <1>7, <1>8, <2>1 DEF N
  <2>2. CASE v # w
    BY <1>2, <1>6, <2>2
  <2> QED
    BY <2>1, <2>2
<1>12. ASSUME NEW j \in L \ rest
       PROVE  \/ Covers(r, M, Item(r, j, m[j]))
              \/ \E v \in Workers : Covers(r, B[v][c], Item(r, j, m[j]))
  <2>1. CASE j = k
    BY <1>5, <2>1 DEF x, N
  <2>2. CASE j # k
    <3> DEFINE z == Item(r, j, m[j])
    <3>1. j \in L \ todo /\ z \in Items
      BY <2>2, ItemType
    <3>2. Covers(r, M, z) \/ \E v \in Workers : Covers(r, A[v][c], z)
      BY <3>1 DEF PassFor
    <3> HIDE DEF z
    <3>3. ASSUME NEW v \in Workers, Covers(r, A[v][c], z) PROVE Covers(r, B[v][c], z)
      BY <1>5, <3>1, <3>3 DEF N
    <3> QED
      BY <3>2, <3>3 DEF z
  <2> QED
    BY <2>1, <2>2
<1> QED
  BY <1>2, <1>6, <1>10, <1>11, <1>12 DEF PassFor

LEMMA PassReduces ==
    ASSUME NEW r \in Requests, NEW m, NEW L, NEW M \in Heaps, NEW c,
           NEW A, NEW B, NEW w \in Workers,
           \A v \in Workers : A[v][c] \in Heaps,
           L \subseteq Keys, \A j \in L : m[j] \in Docs,
           PassFor(r, m, L, {}, A, M, c),
           B[w][c] = {}, \A v \in Workers \ {w} : B[v][c] = A[v][c]
    PROVE  PassFor(r, m, L, {}, B, Merge(r, M, A[w][c]), c)
<1> DEFINE H == A[w][c]
           R == Merge(r, M, H)
<1>1. /\ \A v \in Workers : HeapFor(r, m, L, {}, A[v][c]) /\ Apart(A[v][c], M)
      /\ HeapFor(r, m, L, {}, M)
      /\ \A v \in Workers \ {w} : Apart(A[v][c], H)
  BY DEF PassFor
<1>2. H \in Heaps /\ Apart(M, H) /\ (r.kind = "sorted" => Cardinality(M) <= r.need)
  BY <1>1 DEF Apart, HeapFor
<1>3. HeapFor(r, m, L, {}, H)
  BY <1>1
<1> HIDE DEF H
<1>4. /\ R \in Heaps /\ R \subseteq M \cup H
      /\ r.kind = "sorted" => Cardinality(R) <= r.need
      /\ \A y \in Items : Covers(r, M, y) \/ Covers(r, H, y) => Covers(r, R, y)
  BY <1>2, MergeFacts
<1> HIDE DEF R
<1>5. HeapFor(r, m, L, {}, R)
  BY <1>1, <1>3, <1>4 DEF HeapFor
<1>6. HeapFor(r, m, L, {}, {})
  BY RequestShape, EmptyHeap DEF HeapFor
<1>7. ASSUME NEW v \in Workers PROVE HeapFor(r, m, L, {}, B[v][c]) /\ Apart(B[v][c], R)
  <2>1. CASE v = w
    BY <1>6, <2>1 DEF Apart
  <2>2. CASE v # w
    <3>1. B[v][c] = A[v][c] /\ Apart(A[v][c], M) /\ Apart(A[v][c], H)
      BY <1>1, <2>2
    <3> QED
      BY <1>1, <1>4, <3>1 DEF Apart
  <2> QED
    BY <2>1, <2>2
<1>8. ASSUME NEW v \in Workers, NEW u \in Workers, v # u PROVE Apart(B[v][c], B[u][c])
  <2>1. CASE v = w \/ u = w
    BY <2>1 DEF Apart
  <2>2. CASE v # w /\ u # w
    BY <1>8, <2>2 DEF PassFor
  <2> QED
    BY <2>1, <2>2
<1>9. ASSUME NEW j \in L
      PROVE  \/ Covers(r, R, Item(r, j, m[j]))
             \/ \E v \in Workers : Covers(r, B[v][c], Item(r, j, m[j]))
  <2> DEFINE z == Item(r, j, m[j])
  <2>1. z \in Items
    BY ItemType
  <2>2. Covers(r, M, z) \/ \E v \in Workers : Covers(r, A[v][c], z)
    BY DEF PassFor
  <2> HIDE DEF z
  <2>3. CASE Covers(r, M, z)
    BY <1>4, <2>1, <2>3 DEF z
  <2>4. ASSUME NEW v \in Workers, Covers(r, A[v][c], z)
        PROVE  Covers(r, R, z) \/ \E u \in Workers : Covers(r, B[u][c], z)
    <3>1. CASE v = w
      BY <1>4, <2>1, <2>4, <3>1 DEF H
    <3>2. CASE v # w
      BY <2>4, <3>2
    <3> QED
      BY <3>1, <3>2
  <2> QED
    BY <2>2, <2>3, <2>4 DEF z
<1>10. PassFor(r, m, L, {}, B, R, c)
  BY <1>5, <1>7, <1>8, <1>9 DEF PassFor
<1> QED
  BY <1>10 DEF R, H

LEMMA AnswerStarts ==
    ASSUME NEW r \in Requests, NEW m, NEW L, NEW M \in Heaps, NEW c, NEW A,
           \A v \in Workers : A[v][c] = {},
           L \subseteq Keys, \A j \in L : m[j] \in Docs,
           PassFor(r, m, L, {}, A, M, c)
    PROVE  AnswerFor(r, m, L, Cardinality(M) >= r.need, Winners(r, M), <<>>)
<1> DEFINE s == Winners(r, M)
<1>1. /\ s \in Seq(Items)
      /\ \A i \in 1 .. Len(s) : s[i] \in M
      /\ \A i, j \in 1 .. Len(s) : i < j => Less(s[i], s[j])
      /\ \A x \in Items : Covers(r, M, x) =>
                     \/ \E i \in 1 .. Len(s) : s[i] = x
                     \/ Cardinality(M) >= r.need /\ \A i \in 1 .. Len(s) : Less(s[i], x)
  BY WinnersFacts
<1> HIDE DEF s
<1>2. HeapFor(r, m, L, {}, M)
  BY DEF PassFor
<1>3. ASSUME NEW x \in Items, Covers(r, {}, x) PROVE Covers(r, M, x)
  <2>1. r.kind = "sorted" /\ r.need <= 0
    BY <1>3, EmptyHeap DEF Covers
  <2>2. r.need = 0 /\ Cardinality(M) <= 0 /\ Cardinality(M) \in Nat
    BY <1>2, <2>1, RequestShape, HeapFacts DEF HeapFor
  <2>3. M = {}
    BY <2>2, NoItems
  <2> QED
    BY <1>3, <2>3
<1>4. \A j \in L : Item(r, j, m[j]) \in Items /\ Covers(r, M, Item(r, j, m[j]))
  <2> SUFFICES ASSUME NEW j \in L PROVE Item(r, j, m[j]) \in Items /\ Covers(r, M, Item(r, j, m[j]))
    OBVIOUS
  <2>1. Item(r, j, m[j]) \in Items
    BY ItemType
  <2>2. Covers(r, M, Item(r, j, m[j])) \/ \E w \in Workers : Covers(r, A[w][c], Item(r, j, m[j]))
    BY DEF PassFor
  <2> QED
    BY <1>3, <2>1, <2>2
<1>5. Len(<<>>) = 0
  OBVIOUS
<1>6. \A i \in 1 .. Len(s) : s[i].key \in L => s[i] = Item(r, s[i].key, m[s[i].key])
  BY <1>1, <1>2 DEF HeapFor
<1>7. AnswerFor(r, m, L, Cardinality(M) >= r.need, s, <<>>)
  BY <1>1, <1>4, <1>5, <1>6 DEF AnswerFor
<1> QED
  BY <1>7 DEF s

LEMMA AnswerSkips ==
    ASSUME NEW r, NEW m, NEW L, NEW full, NEW left \in Seq(Items), NEW out,
           AnswerFor(r, m, L, full, left, out), left # <<>>, Head(left).key \notin L,
           \A j \in L : Item(r, j, m[j]).key = j
    PROVE  AnswerFor(r, m, L, full, Tail(left), out)
<1> DEFINE t == Tail(left)
<1>1. /\ Head(left) = left[1] /\ Len(left) \in Nat
      /\ \A i \in 1 .. Len(t) : t[i] = left[i + 1] /\ i + 1 \in 1 .. Len(left) /\ i + 1 # 1
      /\ Len(t) = Len(left) - 1
  BY TailFacts
<1>2. \A i, j \in 1 .. Len(t) : i < j => i + 1 < j + 1
  OBVIOUS
<1>3. \A j \in 1 .. Len(left) : j = 1 \/ (j - 1 \in 1 .. Len(t) /\ left[j] = t[j - 1])
  BY <1>1
<1> HIDE DEF t
<1>4. ASSUME NEW k \in L
      PROVE  \/ \E i \in 1 .. Len(out) : out[i].key = k
             \/ \E j \in 1 .. Len(t) : t[j] = Item(r, k, m[k])
             \/ /\ full
                /\ \A i \in 1 .. Len(out) :
                      out[i].key \in L => Less(Item(r, out[i].key, m[out[i].key]), Item(r, k, m[k]))
                /\ \A j \in 1 .. Len(t) : Less(t[j], Item(r, k, m[k]))
  <2>1. left[1] # Item(r, k, m[k])
    BY <1>1
  <2>2. \A j \in 1 .. Len(left) : left[j] = Item(r, k, m[k]) => j - 1 \in 1 .. Len(t) /\ t[j - 1] = Item(r, k, m[k])
    BY <1>3, <2>1
  <2>3. (\A j \in 1 .. Len(left) : Less(left[j], Item(r, k, m[k])))
           => \A j \in 1 .. Len(t) : Less(t[j], Item(r, k, m[k]))
    BY <1>1
  <2> QED
    BY <2>2, <2>3 DEF AnswerFor
<1>5. \A i, j \in 1 .. Len(t) : i < j => Less(t[i], t[j])
  BY <1>1, <1>2 DEF AnswerFor
<1>6. /\ \A i \in 1 .. Len(t) : t[i].key \in L => t[i] = Item(r, t[i].key, m[t[i].key])
      /\ \A i \in 1 .. Len(out), j \in 1 .. Len(t) :
            out[i].key \in L => Less(Item(r, out[i].key, m[out[i].key]), t[j])
  BY <1>1 DEF AnswerFor
<1> QED
  BY <1>4, <1>5, <1>6 DEF AnswerFor, t

LEMMA AnswerAdvances ==
    ASSUME NEW r, NEW m, NEW L, NEW full, NEW left \in Seq(Items), NEW out \in Seq(Found),
           AnswerFor(r, m, L, full, left, out), left # <<>>,
           NEW e \in Found, e.key = Head(left).key, e.doc = m[e.key],
           \A j \in L : Item(r, j, m[j]).key = j
    PROVE  AnswerFor(r, m, L, full, Tail(left), Append(out, e))
<1> DEFINE t == Tail(left)
           o == Append(out, e)
           place(k) == Item(r, k, m[k])
<1>1. /\ Head(left) = left[1] /\ Len(left) \in Nat /\ 1 \in 1 .. Len(left)
      /\ \A i \in 1 .. Len(t) : t[i] = left[i + 1] /\ i + 1 \in 1 .. Len(left) /\ i + 1 # 1 /\ 1 < i + 1
      /\ Len(t) = Len(left) - 1
  BY TailFacts
<1>2. \A i, j \in 1 .. Len(t) : i < j => i + 1 < j + 1
  OBVIOUS
<1>3. \A j \in 1 .. Len(left) : j = 1 \/ (j - 1 \in 1 .. Len(t) /\ left[j] = t[j - 1])
  BY <1>1
<1>4. /\ Len(out) \in Nat /\ o[Len(out) + 1] = e /\ Len(out) + 1 \in 1 .. Len(o)
      /\ \A i \in 1 .. Len(out) : o[i] = out[i] /\ i \in 1 .. Len(o)
      /\ \A i \in 1 .. Len(o) : i \in 1 .. Len(out) \/ i = Len(out) + 1
      /\ \A i, j \in 1 .. Len(o) : i < j => i \in 1 .. Len(out)
  BY AppendFacts
<1>5. e.key \in L => left[1] = place(e.key)
  BY <1>1 DEF AnswerFor
<1> HIDE DEF t, o, place
<1>6. ASSUME NEW k \in L
      PROVE  \/ \E i \in 1 .. Len(o) : o[i].key = k
             \/ \E j \in 1 .. Len(t) : t[j] = place(k)
             \/ /\ full
                /\ \A i \in 1 .. Len(o) : o[i].key \in L => Less(place(o[i].key), place(k))
                /\ \A j \in 1 .. Len(t) : Less(t[j], place(k))
  <2>1. CASE \E i \in 1 .. Len(out) : out[i].key = k
    BY <1>4, <2>1
  <2>2. ASSUME NEW j \in 1 .. Len(left), left[j] = place(k) PROVE
             \/ \E i \in 1 .. Len(o) : o[i].key = k
             \/ \E i \in 1 .. Len(t) : t[i] = place(k)
    <3>1. CASE j = 1
      <4>1. e.key = k
        BY <1>1, <2>2, <3>1 DEF place
      <4> QED
        BY <1>4, <4>1
    <3>2. CASE j # 1
      BY <1>3, <2>2, <3>2
    <3> QED
      BY <3>1, <3>2
  <2>3. CASE /\ full
             /\ \A i \in 1 .. Len(out) : out[i].key \in L => Less(place(out[i].key), place(k))
             /\ \A j \in 1 .. Len(left) : Less(left[j], place(k))
    <3>1. \A i \in 1 .. Len(o) : o[i].key \in L => Less(place(o[i].key), place(k))
      BY <1>1, <1>4, <1>5, <2>3
    <3> QED
      BY <1>1, <2>3, <3>1
  <2>4. \/ \E i \in 1 .. Len(out) : out[i].key = k
        \/ \E j \in 1 .. Len(left) : left[j] = place(k)
        \/ /\ full
           /\ \A i \in 1 .. Len(out) : out[i].key \in L => Less(place(out[i].key), place(k))
           /\ \A j \in 1 .. Len(left) : Less(left[j], place(k))
    BY DEF AnswerFor, place
  <2> QED
    BY <2>1, <2>2, <2>3, <2>4
<1>7. \A i, j \in 1 .. Len(t) : i < j => Less(t[i], t[j])
  BY <1>1, <1>2 DEF AnswerFor
<1>8. \A i \in 1 .. Len(t) : t[i].key \in L => t[i] = place(t[i].key)
  BY <1>1 DEF AnswerFor, place
<1>9. ASSUME NEW i \in 1 .. Len(o), NEW j \in 1 .. Len(t), o[i].key \in L
      PROVE  Less(place(o[i].key), t[j])
  <2>1. CASE i \in 1 .. Len(out)
    BY <1>1, <1>4, <1>9, <2>1 DEF AnswerFor, place
  <2>2. CASE i = Len(out) + 1
    <3>1. Less(left[1], left[j + 1])
      BY <1>1 DEF AnswerFor
    <3> QED
      BY <1>1, <1>4, <1>5, <1>9, <2>2, <3>1
  <2> QED
    BY <1>4, <2>1, <2>2
<1>10. ASSUME NEW i \in 1 .. Len(o), NEW j \in 1 .. Len(o), i < j, o[i].key \in L, o[j].key \in L
       PROVE  Less(place(o[i].key), place(o[j].key))
  <2>0. i \in 1 .. Len(out) /\ o[i] = out[i]
    BY <1>4, <1>10
  <2>1. CASE j \in 1 .. Len(out)
    BY <1>4, <1>10, <2>0, <2>1 DEF AnswerFor, place
  <2>2. CASE j = Len(out) + 1
    <3>1. Less(place(out[i].key), left[1])
      BY <1>1, <1>10, <2>0 DEF AnswerFor, place
    <3> QED
      BY <1>4, <1>5, <1>10, <2>0, <2>2, <3>1
  <2> QED
    BY <1>4, <2>1, <2>2
<1>11. \A i \in 1 .. Len(o) : o[i].key \in L => o[i].doc = m[o[i].key]
  BY <1>4 DEF AnswerFor
<1> QED
  BY <1>6, <1>7, <1>8, <1>9, <1>10, <1>11 DEF AnswerFor, t, o, place
-----------------------------------------------------------------------------
(***************************************************************************)
(* The steps.                                                              *)
(***************************************************************************)
LEMMA CoFacts ==
    ASSUME TypeOK
    PROVE  /\ co.batch \in Seq(Callers) /\ co.groups \subseteq Collections /\ co.todo \subseteq Keys
           /\ co.left \in Seq(Items) /\ co.out \in Seq(Found) /\ co.cur \in Collections \cup {NoCol}
           /\ \A i \in 1 .. Len(co.batch) : co.batch[i] \in Callers
           /\ \A i \in 1 .. Len(queue) : queue[i] \in Callers
<1>1. co.batch \in Seq(Callers) /\ queue \in Seq(Callers)
  BY DEF TypeOK, CoordinatorStates
<1> QED
  BY <1>1 DEF TypeOK, CoordinatorStates

LEMMA LiveType ==
    ASSUME TypeOK, NEW c \in Callers
    PROVE  Live(stable[c], fresh[c]) \subseteq Keys
<1>1. stable[c] \subseteq Keys /\ fresh[c] \subseteq SUBSET Keys
  BY DEF TypeOK
<1> QED
  BY <1>1 DEF Live

LEMMA NoPass ==
    ASSUME co'.at \notin {"scan", "decode"}
    PROVE  PassInv' /\ AnswerInv'
BY DEF PassInv, AnswerInv

LEMMA FrontKept ==
    ASSUME NEW calls, NEW now, NEW at, NEW batch, NEW cur, FrontFor(calls, at, batch, cur),
           \A i \in 1 .. Len(batch) : now[batch[i]] = calls[batch[i]]
    PROVE  FrontFor(now, at, batch, cur)
<1> SUFFICES ASSUME at \in {"scan", "decode"}, NEW i \in 1 .. Len(batch), NEW j \in 1 .. Len(batch),
                    i < j, now[batch[j]].req.col = cur
             PROVE  now[batch[i]].req.col = cur
  BY DEF FrontFor
<1>1. now[batch[i]] = calls[batch[i]] /\ now[batch[j]] = calls[batch[j]]
  OBVIOUS
<1>2. calls[batch[i]].req.col = cur
  BY <1>1 DEF FrontFor
<1> QED
  BY <1>1, <1>2

(* What is present is a document. *)
LEMMA DocType ==
    ASSUME TypeOK, NEW c \in Collections, NEW k \in Keys, docs[c] # NoCol, docs[c][k] # NoDoc
    PROVE  docs[c] \in Maps /\ docs[c][k] \in Docs
BY DEF TypeOK, Maps

(* The documents a caller of the pass must find are in the collection. *)
LEMMA MateFacts ==
    ASSUME TypeOK, LineInv, LiveInv, co.at \in {"scan", "decode"},
           NEW i \in 1 .. Len(co.batch), caller[co.batch[i]].req.col = co.cur
    PROVE  /\ co.batch[i] \in Callers /\ caller[co.batch[i]].at = "waiting"
           /\ caller[co.batch[i]].req \in Requests /\ co.cur \in Collections /\ docs[co.cur] \in Maps
           /\ \A k \in Live(stable[co.batch[i]], fresh[co.batch[i]]) :
                 /\ k \in Keys /\ docs[co.cur][k] \in Docs
                 /\ Qualifies(caller[co.batch[i]].req, docs[co.cur][k].val)
<1> DEFINE c == co.batch[i]
<1>1. c \in Callers
  BY CoFacts
<1>2. co.cur \in Collections /\ docs[co.cur] # NoCol
  BY DEF LineInv, CursorFor
<1>3. docs[co.cur] \in Maps
  BY <1>2 DEF TypeOK
<1>4. caller[c].at = "waiting" /\ caller[c].req \in Requests
  BY DEF LineInv, BatchFor
<1> HIDE DEF c
<1>5. LiveFor(docs, caller[c], Live(stable[c], fresh[c]), fresh[c])
  BY <1>1 DEF LiveInv
<1>6. Live(stable[c], fresh[c]) \subseteq Keys
  BY <1>1, LiveType
<1>7. caller[c].req.col = co.cur
  BY DEF c
<1>8. ASSUME NEW k \in Live(stable[c], fresh[c])
      PROVE  k \in Keys /\ docs[co.cur][k] \in Docs /\ Qualifies(caller[c].req, docs[co.cur][k].val)
  <2>1. k \in Keys /\ docs[co.cur][k] # NoDoc /\ Qualifies(caller[c].req, docs[co.cur][k].val)
    BY <1>4, <1>5, <1>6, <1>7 DEF LiveFor
  <2> QED
    BY <1>2, <2>1, DocType
<1> QED
  BY <1>1, <1>2, <1>3, <1>4, <1>8 DEF c

LEMMA InitInv == Init => Inv
<1> SUFFICES ASSUME Init PROVE Inv
  OBVIOUS
<1>1. docs \in [Collections -> Maps \cup {NoCol}]
  <2>1. PICK start \in Starts :
           docs = [c \in Collections |->
                      IF start[c] = NoCol THEN NoCol
                      ELSE [k \in Keys |-> IF k \in DOMAIN start[c]
                                           THEN [seq |-> k, val |-> start[c][k]] ELSE NoDoc]]
    BY DEF Init
  <2>2. ASSUME NEW c \in Collections, start[c] # NoCol
        PROVE  [k \in Keys |-> IF k \in DOMAIN start[c]
                               THEN [seq |-> k, val |-> start[c][k]] ELSE NoDoc] \in Maps
    <3>1. ASSUME NEW k \in Keys, k \in DOMAIN start[c] PROVE [seq |-> k, val |-> start[c][k]] \in Docs
      <4>1. start[c][k] \in Vals /\ k \in Nat
        BY <2>2, <3>1, ShapeAssumption, KeysAreNat
      <4> QED
        BY <4>1 DEF Docs
    <3> QED
      BY <3>1 DEF Maps
  <2> QED
    BY <2>1, <2>2
<1>2. co = Idle /\ queue = <<>> /\ co.at = "recv" /\ co.batch = <<>> /\ co.groups = {} /\ co.cur = NoCol
  BY DEF Init, Idle
<1>3. co \in CoordinatorStates
  BY <1>2, EmptySeq DEF Idle, CoordinatorStates
<1>4. Empty \in [Callers -> Heaps]
  BY EmptyHeap DEF Empty
<1>5. [at |-> "idle", req |-> NoReq, got |-> <<>>, full |-> FALSE] \in CallerStates
  BY EmptySeq DEF CallerStates
<1>6. TypeOK
  <2>1. caller \in [Callers -> CallerStates] /\ queue \in Seq(Callers)
    BY <1>5, EmptySeq DEF Init
  <2>2. acc \in [Workers -> [Callers -> Heaps]] /\ merged \in [Callers -> Heaps]
    BY <1>4 DEF Init
  <2>3. stable \in [Callers -> SUBSET Keys] /\ fresh \in [Callers -> SUBSET SUBSET Keys]
    BY DEF Init, Empty
  <2>4. spent \in [writes : Nat, failures : Nat]
    BY DEF Init
  <2> QED
    BY <1>1, <1>3, <2>1, <2>2, <2>3, <2>4 DEF TypeOK
<1>7. LineInv
  <2>1. Len(queue) = 0 /\ Len(co.batch) = 0
    BY <1>2
  <2>2. co.cur \notin co.groups /\ co.at = "recv"
    BY <1>2
  <2> QED
    BY <1>2, <2>1, <2>2 DEF LineInv, QueueFor, Distinct, Separate, BatchFor, FrontFor, CursorFor, HeadFor
<1>8. LiveInv
  <2>1. \A c \in Callers : caller[c].at = "idle" /\ fresh[c] = {}
    BY DEF Init, Empty
  <2> QED
    BY <2>1 DEF LiveInv, LiveFor
<1>9. PassInv /\ AnswerInv
  BY <1>2 DEF PassInv, AnswerInv
<1> QED
  BY <1>6, <1>7, <1>8, <1>9 DEF Inv

LEMMA EmptyLine ==
    ASSUME NEW calls, NEW at, NEW groups, NEW cur
    PROVE  /\ QueueFor(calls, <<>>, <<>>) /\ BatchFor(calls, at, <<>>, groups, cur)
           /\ FrontFor(calls, at, <<>>, cur)
           /\ at = "dead" => \A todo : HeadFor(calls, at, <<>>, cur, todo)
<1>1. Len(<<>>) = 0
  OBVIOUS
<1> QED
  BY <1>1 DEF QueueFor, Distinct, Separate, BatchFor, FrontFor, HeadFor

LEMMA SubmitDeadInv ==
    ASSUME Inv, NEW c \in Callers, NEW r \in Requests, Submit(c, r), co.at = "dead"
    PROVE  Inv'
<1>0. TypeOK /\ LineInv /\ LiveInv
  BY DEF Inv
<1>1. /\ caller' = [caller EXCEPT ![c] = [at |-> "done", req |-> r, got |-> <<>>, full |-> FALSE]]
      /\ UNCHANGED <<docs, queue, co, acc, merged, stable, fresh, spent>> /\ caller[c].at = "idle"
  BY DEF Submit, ghosts
<1>2. [at |-> "done", req |-> r, got |-> <<>>, full |-> FALSE] \in CallerStates
  BY EmptySeq DEF CallerStates
<1>3. TypeOK'
  BY <1>0, <1>1, <1>2 DEF TypeOK
<1>4. co.batch = <<>> /\ Len(co.batch) = 0
  BY <1>0 DEF LineInv, HeadFor
<1>5. \A i \in 1 .. Len(queue) : queue[i] # c /\ caller'[queue[i]] = caller[queue[i]]
  <2>1. \A i \in 1 .. Len(queue) : queue[i] # c /\ queue[i] \in Callers
    BY <1>0, <1>1, CoFacts DEF LineInv, QueueFor
  <2> QED
    BY <1>0, <1>1, <2>1 DEF TypeOK
<1>6. LineInv'
  <2>1. QueueFor(caller', queue', co'.batch)
    BY <1>0, <1>1, <1>5 DEF LineInv, QueueFor
  <2>2. BatchFor(caller', co'.at, co'.batch, co'.groups, co'.cur) /\ FrontFor(caller', co'.at, co'.batch, co'.cur)
    BY <1>1, <1>4 DEF BatchFor, FrontFor
  <2>3. CursorFor(docs', co'.at, co'.groups, co'.cur) /\ HeadFor(caller', co'.at, co'.batch, co'.cur, co'.todo)
    BY <1>0, <1>1 DEF LineInv, CursorFor, HeadFor
  <2>4. co'.at = "dead" => queue' = <<>>
    BY <1>0, <1>1 DEF LineInv
  <2> QED
    BY <2>1, <2>2, <2>3, <2>4 DEF LineInv
<1>7. LiveInv'
  <2> SUFFICES ASSUME NEW x \in Callers
               PROVE  LiveFor(docs', caller'[x], Live(stable'[x], fresh'[x]), fresh'[x])
    BY DEF LiveInv
  <2>1. LiveFor(docs, caller[x], Live(stable[x], fresh[x]), fresh[x])
    BY <1>0 DEF LiveInv
  <2>2. CASE x = c
    BY <1>0, <1>1, <2>2 DEF LiveFor, TypeOK
  <2>3. CASE x # c
    BY <1>0, <1>1, <2>1, <2>3 DEF TypeOK
  <2> QED
    BY <2>2, <2>3
<1>8. co'.at \notin {"scan", "decode"}
  BY <1>1
<1> QED
  BY <1>3, <1>6, <1>7, <1>8, NoPass DEF Inv

LEMMA SubmitInv ==
    ASSUME Inv, NEW c \in Callers, NEW r \in Requests, Submit(c, r), co.at # "dead"
    PROVE  Inv'
<1>0. TypeOK /\ LineInv /\ LiveInv /\ PassInv /\ AnswerInv
  BY DEF Inv
<1> DEFINE S == {k \in Present(r.col) : Qualifies(r, docs[r.col][k].val)}
<1>1. /\ caller' = [caller EXCEPT ![c] = [caller[c] EXCEPT !.at = "waiting", !.req = r]]
      /\ queue' = Append(queue, c)
      /\ stable' = [stable EXCEPT ![c] = S]
      /\ UNCHANGED <<docs, co, acc, merged, fresh, spent>> /\ caller[c].at = "idle"
  BY DEF Submit
<1>2. caller[c] \in CallerStates
  BY <1>0 DEF TypeOK
<1>3. /\ caller'[c] \in CallerStates /\ caller'[c].at = "waiting" /\ caller'[c].req = r
      /\ \A x \in Callers \ {c} : caller'[x] = caller[x] /\ stable'[x] = stable[x]
      /\ stable'[c] = S
  BY <1>0, <1>1, <1>2 DEF TypeOK, CallerStates
<1>4. S \subseteq Keys
  BY DEF Present
<1> HIDE DEF S
<1>5. TypeOK'
  <2>1. caller' \in [Callers -> CallerStates] /\ stable' \in [Callers -> SUBSET Keys]
    BY <1>0, <1>1, <1>3, <1>4 DEF TypeOK
  <2>2. queue' \in Seq(Callers)
    BY <1>0, <1>1, AppendFacts DEF TypeOK
  <2> QED
    BY <1>0, <1>1, <2>1, <2>2 DEF TypeOK
<1>6. /\ \A i \in 1 .. Len(queue) : queue[i] # c /\ queue[i] \in Callers
      /\ \A i \in 1 .. Len(co.batch) : co.batch[i] # c /\ co.batch[i] \in Callers
  BY <1>0, <1>1, CoFacts DEF LineInv, QueueFor, BatchFor
<1>7. /\ \A i \in 1 .. Len(queue) : caller'[queue[i]] = caller[queue[i]]
      /\ \A i \in 1 .. Len(co.batch) : /\ caller'[co.batch[i]] = caller[co.batch[i]]
                                       /\ stable'[co.batch[i]] = stable[co.batch[i]]
  BY <1>3, <1>6
<1>8. LineInv'
  <2>1. QueueFor(caller', queue, co.batch)
    BY <1>0, <1>7 DEF LineInv, QueueFor
  <2>2. QueueFor(caller', queue', co'.batch)
    <3>1. QueueFor(caller', Append(queue, c), co.batch)
      <4> DEFINE calls == caller'
      <4>1. QueueFor(calls, queue, co.batch) /\ calls[c].at = "waiting" /\ calls[c].req \in Requests
        BY <1>3, <2>1
      <4>2. queue \in Seq(Callers) /\ co.batch \in Seq(Callers)
        BY <1>0, CoFacts DEF TypeOK
      <4> HIDE DEF calls
      <4>3. QueueFor(calls, Append(queue, c), co.batch)
        BY <1>6, <4>1, <4>2, QueueGrows
      <4> QED
        BY <4>3 DEF calls
    <3> QED
      BY <1>1, <3>1
  <2>3. BatchFor(caller', co'.at, co'.batch, co'.groups, co'.cur)
    BY <1>0, <1>1, <1>7 DEF LineInv, BatchFor
  <2>4. FrontFor(caller', co'.at, co'.batch, co'.cur)
    BY <1>0, <1>1, <1>7, FrontKept DEF LineInv
  <2>5. CursorFor(docs', co'.at, co'.groups, co'.cur)
    BY <1>0, <1>1 DEF LineInv
  <2>6. HeadFor(caller', co'.at, co'.batch, co'.cur, co'.todo)
    <3>1. co.at = "decode" => Head(co.batch) = co.batch[1] /\ 1 \in 1 .. Len(co.batch)
      BY <1>0, TailFacts, CoFacts DEF LineInv, HeadFor
    <3> QED
      BY <1>0, <1>1, <1>7, <3>1 DEF LineInv, HeadFor
  <2> QED
    BY <1>1, <2>2, <2>3, <2>4, <2>5, <2>6 DEF LineInv
<1>9. LiveInv'
  <2> SUFFICES ASSUME NEW x \in Callers
               PROVE  LiveFor(docs', caller'[x], Live(stable'[x], fresh'[x]), fresh'[x])
    BY DEF LiveInv
  <2>1. LiveFor(docs, caller[x], Live(stable[x], fresh[x]), fresh[x])
    BY <1>0 DEF LiveInv
  <2>2. CASE x = c
    <3>1. fresh[c] = {}
      BY <1>1, <2>1, <2>2 DEF LiveFor
    <3>2. Live(stable'[c], fresh'[c]) = S
      BY <1>1, <1>3, <3>1 DEF Live
    <3>3. \A k \in S : docs[r.col] # NoCol /\ docs[r.col][k] # NoDoc /\ Qualifies(r, docs[r.col][k].val)
      BY DEF S, Present
    <3> QED
      BY <1>1, <1>3, <2>2, <3>2, <3>3 DEF LiveFor
  <2>3. CASE x # c
    BY <1>1, <1>3, <2>1, <2>3
  <2> QED
    BY <2>2, <2>3
<1>10. PassInv'
  BY <1>0, <1>1, <1>7 DEF PassInv
<1>11. AnswerInv'
  <2>1. co.at = "decode" => Head(co.batch) = co.batch[1] /\ 1 \in 1 .. Len(co.batch)
    BY <1>0, TailFacts, CoFacts DEF LineInv, HeadFor
  <2> QED
    BY <1>0, <1>1, <1>7, <2>1 DEF AnswerInv
<1> QED
  BY <1>5, <1>8, <1>9, <1>10, <1>11 DEF Inv

LEMMA DisconnectedInv ==
    ASSUME Inv, NEW c \in Callers, Disconnected(c)
    PROVE  Inv'
<1>0. TypeOK /\ LineInv /\ LiveInv
  BY DEF Inv
<1>1. /\ caller' = [caller EXCEPT ![c] = [caller[c] EXCEPT !.at = "done", !.got = <<>>]]
      /\ UNCHANGED <<docs, queue, co, acc, merged, stable, fresh, spent>> /\ co.at = "dead"
  BY DEF Disconnected, ghosts
<1>2. caller[c] \in CallerStates /\ <<>> \in Seq(Found)
  BY <1>0, EmptySeq DEF TypeOK
<1>3. /\ caller'[c] \in CallerStates /\ caller'[c].at = "done"
      /\ \A x \in Callers \ {c} : caller'[x] = caller[x]
  BY <1>0, <1>1, <1>2 DEF TypeOK, CallerStates
<1>4. TypeOK'
  <2>1. caller' \in [Callers -> CallerStates]
    BY <1>0, <1>1, <1>3 DEF TypeOK
  <2> QED
    BY <1>0, <1>1, <2>1 DEF TypeOK
<1>5. queue = <<>> /\ co.batch = <<>>
  BY <1>0, <1>1 DEF LineInv, HeadFor
<1>6. LineInv'
  <2>1. /\ QueueFor(caller', queue', co'.batch) /\ BatchFor(caller', co'.at, co'.batch, co'.groups, co'.cur)
        /\ FrontFor(caller', co'.at, co'.batch, co'.cur)
    BY <1>1, <1>5, EmptyLine
  <2>2. CursorFor(docs', co'.at, co'.groups, co'.cur)
    BY <1>0, <1>1 DEF LineInv
  <2>3. HeadFor(caller', co'.at, co'.batch, co'.cur, co'.todo)
    BY <1>1, <1>5 DEF HeadFor
  <2> QED
    BY <1>1, <1>5, <2>1, <2>2, <2>3 DEF LineInv
<1>7. LiveInv'
  <2> SUFFICES ASSUME NEW x \in Callers
               PROVE  LiveFor(docs', caller'[x], Live(stable'[x], fresh'[x]), fresh'[x])
    BY DEF LiveInv
  <2>1. LiveFor(docs, caller[x], Live(stable[x], fresh[x]), fresh[x])
    BY <1>0 DEF LiveInv
  <2>2. CASE x = c
    BY <1>3, <2>2 DEF LiveFor
  <2>3. CASE x # c
    BY <1>1, <1>3, <2>1, <2>3
  <2> QED
    BY <2>2, <2>3
<1>8. co'.at \notin {"scan", "decode"}
  BY <1>1
<1> QED
  BY <1>4, <1>6, <1>7, <1>8, NoPass DEF Inv

(* The same callers, documents and ghosts. *)
LEMMA LiveKept ==
    ASSUME LiveInv, UNCHANGED <<docs, caller, stable, fresh>>
    PROVE  LiveInv'
BY DEF LiveInv

LEMMA RecvInv == ASSUME Inv, Recv PROVE Inv'
<1>0. TypeOK /\ LineInv /\ LiveInv
  BY DEF Inv
<1>1. /\ co.at = "recv" /\ queue # <<>>
      /\ co' = [co EXCEPT !.at = "collect", !.batch = <<Head(queue)>>]
      /\ queue' = Tail(queue)
      /\ UNCHANGED <<docs, acc, merged, caller, stable, fresh, spent>>
  BY DEF Recv, ghosts
<1>2. co.batch = <<>> /\ queue \in Seq(Callers)
  BY <1>0, <1>1 DEF LineInv, HeadFor, TypeOK
<1>3. Tail(queue) \in Seq(Callers) /\ Head(queue) = queue[1] /\ 1 \in 1 .. Len(queue) /\ Head(queue) \in Callers
  BY <1>1, <1>2, TailFacts
<1>4. Append(<<>>, Head(queue)) = <<Head(queue)>> /\ <<Head(queue)>> \in Seq(Callers) /\ <<>> \in Seq(Callers)
  BY <1>3
<1>5. /\ co'.at = "collect" /\ co'.batch = <<Head(queue)>> /\ co'.groups = co.groups /\ co'.cur = co.cur
      /\ co'.todo = co.todo /\ co' \in CoordinatorStates
  BY <1>0, <1>1, <1>4 DEF TypeOK, CoordinatorStates
<1>6. TypeOK'
  BY <1>0, <1>1, <1>3, <1>5 DEF TypeOK
<1>7. LineInv'
  <2>1. QueueFor(caller, <<>> , <<>>) /\ QueueFor(caller, queue, <<>>)
    BY <1>0, <1>2, EmptyLine DEF LineInv
  <2>2. QueueFor(caller', queue', co'.batch)
    <3>1. QueueFor(caller, Tail(queue), Append(<<>>, Head(queue)))
      BY <1>1, <1>2, <1>4, <2>1, QueueShifts
    <3> QED
      BY <1>1, <1>4, <1>5, <3>1
  <2>3. caller[Head(queue)].at = "waiting" /\ caller[Head(queue)].req \in Requests
    BY <1>3, <2>1 DEF QueueFor
  <2>4. \A i \in 1 .. Len(co'.batch) : co'.batch[i] = Head(queue)
    BY <1>5
  <2>5. BatchFor(caller', co'.at, co'.batch, co'.groups, co'.cur)
    BY <1>1, <2>3, <2>4 DEF BatchFor
  <2>6. FrontFor(caller', co'.at, co'.batch, co'.cur) /\ HeadFor(caller', co'.at, co'.batch, co'.cur, co'.todo)
    BY <1>5 DEF FrontFor, HeadFor
  <2>7. CursorFor(docs', co'.at, co'.groups, co'.cur)
    BY <1>0, <1>1, <1>5 DEF LineInv, CursorFor
  <2> QED
    BY <1>5, <2>2, <2>5, <2>6, <2>7 DEF LineInv
<1>8. co'.at \notin {"scan", "decode"}
  BY <1>5
<1> QED
  BY <1>0, <1>1, <1>6, <1>7, <1>8, LiveKept, NoPass DEF Inv

LEMMA CollectInv == ASSUME Inv, Collect PROVE Inv'
<1>0. TypeOK /\ LineInv /\ LiveInv
  BY DEF Inv
<1>1. /\ co.at = "collect" /\ queue # <<>>
      /\ co' = [co EXCEPT !.batch = Append(co.batch, Head(queue))]
      /\ queue' = Tail(queue)
      /\ UNCHANGED <<docs, acc, merged, caller, stable, fresh, spent>>
  BY DEF Collect, ghosts
<1>2. queue \in Seq(Callers) /\ co.batch \in Seq(Callers)
  BY <1>0, CoFacts DEF TypeOK
<1>3. Tail(queue) \in Seq(Callers) /\ Head(queue) = queue[1] /\ 1 \in 1 .. Len(queue) /\ Head(queue) \in Callers
  BY <1>1, <1>2, TailFacts
<1> DEFINE b == Append(co.batch, Head(queue))
<1>4. /\ b \in Seq(Callers) /\ b[Len(co.batch) + 1] = Head(queue)
      /\ \A i \in 1 .. Len(co.batch) : b[i] = co.batch[i]
      /\ \A i \in 1 .. Len(b) : i \in 1 .. Len(co.batch) \/ i = Len(co.batch) + 1
  BY <1>2, <1>3, AppendFacts
<1> HIDE DEF b
<1>5. /\ co'.at = "collect" /\ co'.batch = b /\ co'.groups = co.groups /\ co'.cur = co.cur
      /\ co'.todo = co.todo /\ co' \in CoordinatorStates
  BY <1>0, <1>1, <1>4 DEF TypeOK, CoordinatorStates, b
<1>6. TypeOK'
  BY <1>0, <1>1, <1>3, <1>5 DEF TypeOK
<1>7. LineInv'
  <2>1. QueueFor(caller, queue, co.batch)
    BY <1>0 DEF LineInv
  <2>2. QueueFor(caller', queue', co'.batch)
    <3>1. QueueFor(caller, Tail(queue), b)
      BY <1>1, <1>2, <2>1, QueueShifts DEF b
    <3> QED
      BY <1>1, <1>5, <3>1
  <2>3. caller[Head(queue)].at = "waiting" /\ caller[Head(queue)].req \in Requests
    BY <1>3, <2>1 DEF QueueFor
  <2>4. \A i \in 1 .. Len(co.batch) : caller[co.batch[i]].at = "waiting" /\ caller[co.batch[i]].req \in Requests
    BY <1>0, <1>1 DEF LineInv, BatchFor
  <2>5. \A i \in 1 .. Len(b) : caller[b[i]].at = "waiting" /\ caller[b[i]].req \in Requests
    BY <1>4, <2>3, <2>4
  <2>6. BatchFor(caller', co'.at, co'.batch, co'.groups, co'.cur)
    BY <1>1, <1>5, <2>5 DEF BatchFor
  <2>7. FrontFor(caller', co'.at, co'.batch, co'.cur) /\ HeadFor(caller', co'.at, co'.batch, co'.cur, co'.todo)
    BY <1>5 DEF FrontFor, HeadFor
  <2>8. CursorFor(docs', co'.at, co'.groups, co'.cur)
    BY <1>0, <1>1, <1>5 DEF LineInv, CursorFor
  <2> QED
    BY <1>5, <2>2, <2>6, <2>7, <2>8 DEF LineInv
<1>8. co'.at \notin {"scan", "decode"}
  BY <1>5
<1> QED
  BY <1>0, <1>1, <1>6, <1>7, <1>8, LiveKept, NoPass DEF Inv

LEMMA WindowClosesInv == ASSUME Inv, WindowCloses PROVE Inv'
<1>0. TypeOK /\ LineInv /\ LiveInv
  BY DEF Inv
<1> DEFINE G == {caller[c].req.col : c \in Range(co.batch)}
<1>1. /\ co.at = "collect"
      /\ co' = [co EXCEPT !.at = "group", !.groups = G]
      /\ UNCHANGED <<docs, queue, acc, merged, caller, stable, fresh, spent>>
  BY DEF WindowCloses, ghosts
<1>2. \A i \in 1 .. Len(co.batch) : caller[co.batch[i]].at = "waiting" /\ caller[co.batch[i]].req \in Requests
  BY <1>0, <1>1 DEF LineInv, BatchFor
<1>3. G \subseteq Collections
  <2>1. \A c \in Range(co.batch) : \E i \in 1 .. Len(co.batch) : co.batch[i] = c
    BY <1>0, CoFacts DEF Range
  <2> QED
    BY <1>2, <2>1, RequestShape
<1> HIDE DEF G
<1>5. /\ co'.at = "group" /\ co'.batch = co.batch /\ co'.groups = G /\ co'.cur = co.cur
      /\ co'.todo = co.todo /\ co' \in CoordinatorStates
  BY <1>0, <1>1, <1>3 DEF TypeOK, CoordinatorStates
<1>6. TypeOK'
  BY <1>0, <1>1, <1>5 DEF TypeOK
<1>7. LineInv'
  <2>1. QueueFor(caller', queue', co'.batch)
    BY <1>0, <1>1, <1>5 DEF LineInv
  <2>2. BatchFor(caller', co'.at, co'.batch, co'.groups, co'.cur)
    BY <1>1, <1>2, <1>5 DEF BatchFor
  <2>3. FrontFor(caller', co'.at, co'.batch, co'.cur) /\ HeadFor(caller', co'.at, co'.batch, co'.cur, co'.todo)
    BY <1>5 DEF FrontFor, HeadFor
  <2>4. co.cur = NoCol /\ NoCol \notin G
    BY <1>0, <1>1, <1>3, ShapeAssumption DEF LineInv, CursorFor
  <2>5. CursorFor(docs', co'.at, co'.groups, co'.cur)
    BY <1>5, <2>4 DEF CursorFor
  <2> QED
    BY <1>5, <2>1, <2>2, <2>3, <2>5 DEF LineInv
<1>8. co'.at \notin {"scan", "decode"}
  BY <1>5
<1> QED
  BY <1>0, <1>1, <1>6, <1>7, <1>8, LiveKept, NoPass DEF Inv

LEMMA NextBatchInv == ASSUME Inv, NextBatch PROVE Inv'
<1>0. TypeOK /\ LineInv /\ LiveInv
  BY DEF Inv
<1>1. co' = Idle /\ UNCHANGED <<docs, queue, acc, merged, caller, stable, fresh, spent>>
  BY DEF NextBatch, ghosts
<1>2. /\ co'.at = "recv" /\ co'.batch = <<>> /\ co'.groups = {} /\ co'.cur = NoCol
      /\ co' \in CoordinatorStates
  BY <1>1, EmptySeq DEF Idle, CoordinatorStates
<1>3. TypeOK'
  BY <1>0, <1>1, <1>2 DEF TypeOK
<1>4. LineInv'
  <2>1. Len(<<>>) = 0
    OBVIOUS
  <2>2. QueueFor(caller', queue', co'.batch)
    BY <1>0, <1>1, <1>2, <2>1 DEF LineInv, QueueFor, Distinct, Separate
  <2>3. BatchFor(caller', co'.at, co'.batch, co'.groups, co'.cur)
    BY <1>2, <2>1 DEF BatchFor
  <2>4. /\ FrontFor(caller', co'.at, co'.batch, co'.cur)
        /\ CursorFor(docs', co'.at, co'.groups, co'.cur)
        /\ HeadFor(caller', co'.at, co'.batch, co'.cur, co'.todo)
    BY <1>2 DEF FrontFor, CursorFor, HeadFor
  <2> QED
    BY <1>2, <2>2, <2>3, <2>4 DEF LineInv
<1>5. co'.at \notin {"scan", "decode"}
  BY <1>2
<1> QED
  BY <1>0, <1>1, <1>3, <1>4, <1>5, LiveKept, NoPass DEF Inv

LEMMA DieInv == ASSUME Inv, Die PROVE Inv'
<1>0. TypeOK /\ LineInv /\ LiveInv
  BY DEF Inv
<1>1. /\ co' = [Idle EXCEPT !.at = "dead"] /\ queue' = <<>>
      /\ spent' = [spent EXCEPT !.failures = spent.failures + 1]
      /\ UNCHANGED <<docs, acc, merged, caller, stable, fresh>>
  BY DEF Die, ghosts
<1>2. /\ co'.at = "dead" /\ co'.batch = <<>> /\ co'.groups = {} /\ co'.cur = NoCol
      /\ co' \in CoordinatorStates
  BY <1>1, EmptySeq DEF Idle, CoordinatorStates
<1>3. TypeOK'
  <2>1. spent' \in [writes : Nat, failures : Nat] /\ queue' \in Seq(Callers)
    BY <1>0, <1>1, EmptySeq DEF TypeOK
  <2> QED
    BY <1>0, <1>1, <1>2, <2>1 DEF TypeOK
<1>4. LineInv'
  <2>1. QueueFor(caller', queue', co'.batch) /\ BatchFor(caller', co'.at, co'.batch, co'.groups, co'.cur)
    BY <1>1, <1>2, EmptyLine
  <2>2. /\ FrontFor(caller', co'.at, co'.batch, co'.cur)
        /\ CursorFor(docs', co'.at, co'.groups, co'.cur)
        /\ HeadFor(caller', co'.at, co'.batch, co'.cur, co'.todo)
    BY <1>2 DEF FrontFor, CursorFor, HeadFor
  <2> QED
    BY <1>1, <2>1, <2>2 DEF LineInv
<1>5. co'.at \notin {"scan", "decode"}
  BY <1>2
<1> QED
  BY <1>0, <1>1, <1>3, <1>4, <1>5, LiveKept, NoPass DEF Inv

LEMMA EndPassInv == ASSUME Inv, EndPass PROVE Inv'
<1>0. TypeOK /\ LineInv /\ LiveInv
  BY DEF Inv
<1>1. /\ co' = [co EXCEPT !.at = "group", !.cur = NoCol] /\ Group(co.cur) = <<>>
      /\ UNCHANGED <<docs, queue, acc, merged, caller, stable, fresh, spent>>
  BY DEF EndPass, ghosts
<1>2. /\ co'.at = "group" /\ co'.batch = co.batch /\ co'.groups = co.groups /\ co'.cur = NoCol
      /\ co' \in CoordinatorStates
  BY <1>0, <1>1 DEF TypeOK, CoordinatorStates
<1>3. TypeOK'
  BY <1>0, <1>1, <1>2 DEF TypeOK
<1>4. LineInv'
  <2>1. QueueFor(caller', queue', co'.batch)
    BY <1>0, <1>1, <1>2 DEF LineInv
  <2>2. \A i \in 1 .. Len(co.batch) :
           caller[co.batch[i]].req \in Requests /\ caller[co.batch[i]].req.col # NoCol
    BY <1>0, RequestShape, ShapeAssumption DEF LineInv, BatchFor
  <2>3. BatchFor(caller', co'.at, co'.batch, co'.groups, co'.cur)
    BY <1>0, <1>1, <1>2, <2>2 DEF LineInv, BatchFor
  <2>4. co.groups \subseteq Collections
    BY <1>0, CoFacts
  <2>5. /\ FrontFor(caller', co'.at, co'.batch, co'.cur)
        /\ CursorFor(docs', co'.at, co'.groups, co'.cur)
        /\ HeadFor(caller', co'.at, co'.batch, co'.cur, co'.todo)
    BY <1>2, <2>4, ShapeAssumption DEF FrontFor, CursorFor, HeadFor
  <2> QED
    BY <1>2, <2>1, <2>3, <2>5 DEF LineInv
<1>5. co'.at \notin {"scan", "decode"}
  BY <1>2
<1> QED
  BY <1>0, <1>1, <1>3, <1>4, <1>5, LiveKept, NoPass DEF Inv

LEMMA GroupFacts ==
    ASSUME TypeOK, NEW g
    PROVE  /\ \A c : c \in Range(Group(g)) <=>
                    /\ c \in Callers /\ caller[c].req.col = g
                    /\ \E i \in 1 .. Len(co.batch) : co.batch[i] = c
           /\ Group(g) = <<>> => \A i \in 1 .. Len(co.batch) : caller[co.batch[i]].req.col # g
           /\ Group(g) # <<>> => \E i \in 1 .. Len(co.batch) : caller[co.batch[i]].req.col = g
<1> DEFINE t == Group(g)
<1>0. \A i \in 1 .. Len(co.batch) : co.batch[i] \in Callers
  BY CoFacts
<1>1. KeptFor(co.batch, AskersOf(g), t)
  BY CoFacts, OnlyFacts DEF Group
<1> HIDE DEF t
<1>2. /\ t \in Seq(Callers)
      /\ \A c : (\E i \in 1 .. Len(t) : t[i] = c) <=>
                (c \in AskersOf(g) /\ \E i \in 1 .. Len(co.batch) : co.batch[i] = c)
  BY <1>1 DEF KeptFor
<1>3. \A c : c \in Range(t) <=> \E i \in 1 .. Len(t) : t[i] = c
  BY <1>2 DEF Range
<1>4. t # <<>> => 1 \in 1 .. Len(t)
  BY <1>2
<1>5. t = <<>> => ~\E i \in 1 .. Len(t) : TRUE
  OBVIOUS
<1>6. \A c : c \in AskersOf(g) <=> c \in Callers /\ caller[c].req.col = g
  BY DEF AskersOf
<1>7. t = <<>> => \A i \in 1 .. Len(co.batch) : caller[co.batch[i]].req.col # g
  BY <1>0, <1>2, <1>5, <1>6
<1>8. t # <<>> => \E i \in 1 .. Len(co.batch) : caller[co.batch[i]].req.col = g
  BY <1>2, <1>4, <1>6
<1> QED
  BY <1>2, <1>3, <1>6, <1>7, <1>8 DEF t

LEMMA UnknownCollectionInv ==
    ASSUME Inv, NEW g \in Collections, UnknownCollection(g)
    PROVE  Inv'
<1>0. TypeOK /\ LineInv /\ LiveInv
  BY DEF Inv
<1> DEFINE G == Range(Group(g))
<1>1. /\ co.at = "group" /\ g \in co.groups
      /\ caller' = [c \in Callers |-> IF c \in G THEN [caller[c] EXCEPT !.at = "done"] ELSE caller[c]]
      /\ co' = [co EXCEPT !.groups = co.groups \ {g}]
      /\ UNCHANGED <<docs, queue, acc, merged, stable, fresh, spent>>
  BY DEF UnknownCollection, ghosts
<1>2. \A c : c \in G <=> /\ c \in Callers /\ caller[c].req.col = g
                        /\ \E i \in 1 .. Len(co.batch) : co.batch[i] = c
  BY <1>0, GroupFacts
<1> HIDE DEF G
<1>3. \A c \in Callers : /\ caller[c] \in CallerStates /\ caller'[c] \in CallerStates
                         /\ caller'[c].req = caller[c].req
                         /\ c \in G => caller'[c].at = "done"
                         /\ c \notin G => caller'[c] = caller[c]
  <2> SUFFICES ASSUME NEW c \in Callers
               PROVE  /\ caller[c] \in CallerStates /\ caller'[c] \in CallerStates
                      /\ caller'[c].req = caller[c].req
                      /\ c \in G => caller'[c].at = "done"
                      /\ c \notin G => caller'[c] = caller[c]
    OBVIOUS
  <2>1. caller[c] \in CallerStates
    BY <1>0 DEF TypeOK
  <2> QED
    BY <1>1, <2>1 DEF CallerStates
<1>4. /\ co'.at = "group" /\ co'.batch = co.batch /\ co'.groups = co.groups \ {g} /\ co'.cur = co.cur
      /\ co'.todo = co.todo /\ co' \in CoordinatorStates
  BY <1>0, <1>1 DEF TypeOK, CoordinatorStates
<1>5. TypeOK'
  <2>1. caller' \in [Callers -> CallerStates]
    BY <1>1, <1>3
  <2> QED
    BY <1>0, <1>1, <1>4, <2>1 DEF TypeOK
<1>6. /\ \A i \in 1 .. Len(queue) : queue[i] \in Callers /\ queue[i] \notin G
      /\ \A i \in 1 .. Len(co.batch) : co.batch[i] \in Callers
  BY <1>0, <1>2, CoFacts DEF LineInv, QueueFor, Separate
<1>7. LineInv'
  <2>1. QueueFor(caller', queue', co'.batch)
    BY <1>0, <1>1, <1>3, <1>4, <1>6 DEF LineInv, QueueFor
  <2>2. BatchFor(caller', co'.at, co'.batch, co'.groups, co'.cur)
    <3> SUFFICES ASSUME NEW i \in 1 .. Len(co.batch)
                 PROVE  /\ caller'[co.batch[i]].at # "idle" /\ caller'[co.batch[i]].req \in Requests
                        /\ caller'[co.batch[i]].req.col \in (co.groups \ {g}) \cup {co.cur}
                              => caller'[co.batch[i]].at = "waiting"
      BY <1>4 DEF BatchFor
    <3>1. co.cur = NoCol
      BY <1>0, <1>1 DEF LineInv, CursorFor
    <3>2. /\ caller[co.batch[i]].at # "idle" /\ caller[co.batch[i]].req \in Requests
          /\ caller[co.batch[i]].req.col \in co.groups \cup {co.cur} => caller[co.batch[i]].at = "waiting"
      BY <1>0 DEF LineInv, BatchFor
    <3>3. co.batch[i] \in G => caller[co.batch[i]].req.col \notin (co.groups \ {g}) \cup {co.cur}
      BY <1>2, <3>1, ShapeAssumption
    <3> QED
      BY <1>3, <1>6, <3>2, <3>3
  <2>3. FrontFor(caller', co'.at, co'.batch, co'.cur) /\ HeadFor(caller', co'.at, co'.batch, co'.cur, co'.todo)
    BY <1>4 DEF FrontFor, HeadFor
  <2>4. CursorFor(docs', co'.at, co'.groups, co'.cur)
    BY <1>0, <1>1, <1>4 DEF LineInv, CursorFor
  <2> QED
    BY <1>4, <2>1, <2>2, <2>3, <2>4 DEF LineInv
<1>8. LiveInv'
  <2> SUFFICES ASSUME NEW x \in Callers
               PROVE  LiveFor(docs', caller'[x], Live(stable'[x], fresh'[x]), fresh'[x])
    BY DEF LiveInv
  <2>1. LiveFor(docs, caller[x], Live(stable[x], fresh[x]), fresh[x])
    BY <1>0 DEF LiveInv
  <2>2. CASE x \in G
    BY <1>3, <2>2 DEF LiveFor
  <2>3. CASE x \notin G
    BY <1>1, <1>3, <2>1, <2>3
  <2> QED
    BY <2>2, <2>3
<1>9. co'.at \notin {"scan", "decode"}
  BY <1>4
<1> QED
  BY <1>5, <1>7, <1>8, <1>9, NoPass DEF Inv

LEMMA StartPassInv ==
    ASSUME Inv, NEW g \in Collections, StartPass(g)
    PROVE  Inv'
<1>0. TypeOK /\ LineInv /\ LiveInv
  BY DEF Inv
<1> DEFINE b == Only(co.batch, AskersOf(g)) \o Only(co.batch, Callers \ AskersOf(g))
<1>1. /\ co.at = "group" /\ g \in co.groups /\ docs[g] # NoCol
      /\ co' = [co EXCEPT !.at = "scan", !.cur = g, !.groups = co.groups \ {g}, !.todo = Keys, !.batch = b]
      /\ acc' = [w \in Workers |-> Empty] /\ merged' = Empty
      /\ UNCHANGED <<docs, queue, caller, stable, fresh, spent>>
  BY DEF StartPass, Group, ghosts
<1>2. QueueFor(caller, queue, co.batch) /\ BatchFor(caller, co.at, co.batch, co.groups, co.cur)
  BY <1>0 DEF LineInv
<1>3. /\ b \in Seq(Callers) /\ Distinct(b)
      /\ \A c : (\E i \in 1 .. Len(b) : b[i] = c) <=> \E i \in 1 .. Len(co.batch) : co.batch[i] = c
      /\ \A i, j \in 1 .. Len(b) : i < j /\ b[j] \in AskersOf(g) => b[i] \in AskersOf(g)
  <2>1. co.batch \in Seq(Callers) /\ Distinct(co.batch)
    BY <1>0, <1>2, CoFacts DEF QueueFor
  <2> QED
    BY <2>1, GroupFirst
<1> HIDE DEF b
<1>4. /\ co'.at = "scan" /\ co'.batch = b /\ co'.groups = co.groups \ {g} /\ co'.cur = g
      /\ co'.todo = Keys /\ co' \in CoordinatorStates
  BY <1>0, <1>1, <1>3 DEF TypeOK, CoordinatorStates
<1>5. Empty \in [Callers -> Heaps]
  BY EmptyHeap DEF Empty
<1>6. TypeOK'
  BY <1>0, <1>1, <1>4, <1>5 DEF TypeOK
<1>7. \A i \in 1 .. Len(b) :
         /\ b[i] \in Callers
         /\ caller[b[i]].at # "idle" /\ caller[b[i]].req \in Requests
         /\ caller[b[i]].req.col \in co.groups => caller[b[i]].at = "waiting"
  <2> SUFFICES ASSUME NEW i \in 1 .. Len(b)
               PROVE  /\ b[i] \in Callers
                      /\ caller[b[i]].at # "idle" /\ caller[b[i]].req \in Requests
                      /\ caller[b[i]].req.col \in co.groups => caller[b[i]].at = "waiting"
    OBVIOUS
  <2>1. PICK j \in 1 .. Len(co.batch) : co.batch[j] = b[i]
    BY <1>3
  <2>2. b[i] \in Callers
    BY <1>0, <2>1, CoFacts
  <2> QED
    BY <1>2, <2>1, <2>2 DEF BatchFor
<1>8. LineInv'
  <2>1. Separate(queue, b)
    BY <1>2, <1>3 DEF QueueFor, Separate
  <2>2. QueueFor(caller', queue', co'.batch)
    BY <1>1, <1>2, <1>3, <1>4, <2>1 DEF QueueFor
  <2>3. BatchFor(caller', co'.at, co'.batch, co'.groups, co'.cur)
    BY <1>1, <1>4, <1>7 DEF BatchFor
  <2>4. FrontFor(caller', co'.at, co'.batch, co'.cur)
    <3> SUFFICES ASSUME NEW i \in 1 .. Len(b), NEW j \in 1 .. Len(b), i < j, caller[b[j]].req.col = g
                 PROVE  caller[b[i]].req.col = g
      BY <1>1, <1>4 DEF FrontFor
    <3>1. b[j] \in AskersOf(g)
      BY <1>7 DEF AskersOf
    <3>2. b[i] \in AskersOf(g)
      BY <1>3, <3>1
    <3> QED
      BY <3>2 DEF AskersOf
  <2>5. /\ CursorFor(docs', co'.at, co'.groups, co'.cur)
        /\ HeadFor(caller', co'.at, co'.batch, co'.cur, co'.todo)
    BY <1>1, <1>4 DEF CursorFor, HeadFor
  <2> QED
    BY <1>4, <2>2, <2>3, <2>4, <2>5 DEF LineInv
<1>9. PassInv'
  <2> SUFFICES ASSUME NEW i \in 1 .. Len(b)
               PROVE  PassFor(caller[b[i]].req, docs[g], Live(stable[b[i]], fresh[b[i]]),
                              Keys, acc', merged'[b[i]], b[i])
    BY <1>1, <1>4 DEF PassInv
  <2>1. merged'[b[i]] = {} /\ b[i] \in Callers /\ caller[b[i]].req \in Requests
    BY <1>1, <1>7 DEF Empty
  <2>2. Live(stable[b[i]], fresh[b[i]]) \subseteq Keys
    BY <1>0, <2>1, LiveType
  <2> QED
    BY <1>1, <2>1, <2>2, PassStarts
<1>10. AnswerInv'
  BY <1>4 DEF AnswerInv
<1> QED
  BY <1>0, <1>1, <1>6, <1>8, <1>9, <1>10, LiveKept DEF Inv

LEMMA VisitInv ==
    ASSUME Inv, NEW w \in Workers, NEW k \in Keys, Visit(w, k)
    PROVE  Inv'
<1>0. TypeOK /\ LineInv /\ LiveInv /\ PassInv
  BY DEF Inv
<1> DEFINE G == Range(Group(co.cur))
           F == [c \in Callers |-> IF c \in G THEN Feed(caller[c].req, acc[w][c], k, docs[co.cur][k])
                                   ELSE acc[w][c]]
<1>1. /\ co.at = "scan" /\ k \in co.todo
      /\ co' = [co EXCEPT !.todo = co.todo \ {k}]
      /\ acc' = IF k \notin Present(co.cur) THEN acc ELSE [acc EXCEPT ![w] = F]
      /\ UNCHANGED <<docs, queue, merged, caller, stable, fresh, spent>>
  BY DEF Visit, ghosts
<1>2. \A c : c \in G <=> /\ c \in Callers /\ caller[c].req.col = co.cur
                        /\ \E i \in 1 .. Len(co.batch) : co.batch[i] = c
  BY <1>0, GroupFacts
<1>3. co.cur \in Collections /\ docs[co.cur] # NoCol
  BY <1>0, <1>1 DEF LineInv, CursorFor
<1>4. k \in Present(co.cur) <=> docs[co.cur][k] # NoDoc
  BY <1>3 DEF Present
<1>5. k \in Present(co.cur) => docs[co.cur][k] \in Docs
  BY <1>0, <1>3, <1>4, DocType
<1> HIDE DEF G
<1>6. ASSUME k \in Present(co.cur) PROVE F \in [Callers -> Heaps]
  <2> SUFFICES ASSUME NEW c \in Callers
               PROVE  (IF c \in G THEN Feed(caller[c].req, acc[w][c], k, docs[co.cur][k])
                       ELSE acc[w][c]) \in Heaps
    OBVIOUS
  <2>1. acc[w][c] \in Heaps
    BY <1>0 DEF TypeOK
  <2>2. CASE c \in G
    <3>1. caller[c].req \in Requests
      BY <1>0, <1>2, <2>2 DEF LineInv, BatchFor
    <3>2. Feed(caller[c].req, acc[w][c], k, docs[co.cur][k]) \in Heaps
      BY <1>5, <1>6, <2>1, <3>1, FeedType
    <3> QED
      BY <2>2, <3>2
  <2> QED
    BY <2>1, <2>2
<1>7. /\ co'.at = "scan" /\ co'.batch = co.batch /\ co'.groups = co.groups /\ co'.cur = co.cur
      /\ co'.todo = co.todo \ {k} /\ co' \in CoordinatorStates
  BY <1>0, <1>1 DEF TypeOK, CoordinatorStates
<1>8. ASSUME k \in Present(co.cur)
      PROVE  \A c \in G : /\ acc'[w][c] = Feed(caller[c].req, acc[w][c], k, docs[co.cur][k])
                          /\ \A v \in Workers \ {w} : acc'[v][c] = acc[v][c]
  <2>1. acc' = [acc EXCEPT ![w] = F]
    BY <1>1, <1>8
  <2>2. acc'[w] = F /\ \A v \in Workers \ {w} : acc'[v] = acc[v]
    <3> HIDE DEF F
    <3> QED
      BY <1>0, <2>1 DEF TypeOK
  <2> QED
    BY <1>2, <2>2
<1>9. acc' \in [Workers -> [Callers -> Heaps]]
  <2> HIDE DEF F
  <2> QED
    BY <1>0, <1>1, <1>6 DEF TypeOK
<1> HIDE DEF F
<1>10. TypeOK'
  BY <1>0, <1>1, <1>7, <1>9 DEF TypeOK
<1>11. LineInv'
  <2>1. HeadFor(caller', co'.at, co'.batch, co'.cur, co'.todo)
    BY <1>7 DEF HeadFor
  <2> QED
    BY <1>0, <1>1, <1>7, <2>1 DEF LineInv
<1>12. PassInv'
  <2> SUFFICES ASSUME NEW i \in 1 .. Len(co.batch), caller[co.batch[i]].req.col = co.cur
               PROVE  PassFor(caller[co.batch[i]].req, docs[co.cur],
                              Live(stable[co.batch[i]], fresh[co.batch[i]]),
                              co.todo \ {k}, acc', merged[co.batch[i]], co.batch[i])
    BY <1>1, <1>7 DEF PassInv
  <2> DEFINE c == co.batch[i]
             r == caller[c].req
             m == docs[co.cur]
             L == Live(stable[c], fresh[c])
  <2>1. /\ c \in Callers /\ r \in Requests /\ c \in G
        /\ \A j \in L : j \in Keys /\ m[j] \in Docs /\ Qualifies(r, m[j].val)
    <3>1. co.at \in {"scan", "decode"}
      BY <1>1
    <3> QED
      BY <1>0, <1>2, <3>1, MateFacts
  <2>2. PassFor(r, m, L, co.todo, acc, merged[c], c)
    BY <1>0, <1>1 DEF PassInv
  <2>3. merged[c] \in Heaps /\ \A v \in Workers : acc[v][c] \in Heaps
    BY <1>0, <2>1 DEF TypeOK
  <2>4. CASE k \notin Present(co.cur)
    <3>1. k \notin L
      <4>1. m[k] = NoDoc
        BY <1>4, <2>4
      <4> QED
        BY <2>1, <4>1, ShapeAssumption
    <3>2. acc' = acc
      BY <1>1, <2>4
    <3> HIDE DEF c, r, m, L
    <3>3. PassFor(r, m, L, co.todo \ {k}, acc, merged[c], c)
      BY <2>2, <3>1, PassSkips
    <3> QED
      BY <3>2, <3>3 DEF c, r, m, L
  <2>5. CASE k \in Present(co.cur)
    <3>1. /\ acc'[w][c] = Feed(r, acc[w][c], k, m[k]) /\ m[k] \in Docs
          /\ \A v \in Workers \ {w} : acc'[v][c] = acc[v][c]
      BY <1>5, <1>8, <2>1, <2>5
    <3>2. L \subseteq Keys /\ (\A j \in L : m[j] \in Docs) /\ (k \in L => Qualifies(r, m[k].val))
      BY <2>1
    <3> DEFINE B == acc'
               M == merged[c]
    <3>3. /\ B[w][c] = Feed(r, acc[w][c], k, m[k])
          /\ \A v \in Workers \ {w} : B[v][c] = acc[v][c]
          /\ M \in Heaps /\ r \in Requests /\ PassFor(r, m, L, co.todo, acc, M, c)
      BY <2>1, <2>2, <2>3, <3>1
    <3> HIDE DEF c, r, m, L, B, M
    <3>4. PassFor(r, m, L, co.todo \ {k}, B, M, c)
      BY <1>1, <2>3, <3>1, <3>2, <3>3, PassVisits
    <3> QED
      BY <3>4 DEF c, r, m, L, B, M
  <2> QED
    BY <2>4, <2>5
<1>13. AnswerInv'
  BY <1>7 DEF AnswerInv
<1> QED
  BY <1>0, <1>1, <1>10, <1>11, <1>12, <1>13, LiveKept DEF Inv

LEMMA ReduceInv ==
    ASSUME Inv, NEW w \in Workers, Reduce(w)
    PROVE  Inv'
<1>0. TypeOK /\ LineInv /\ LiveInv /\ PassInv
  BY DEF Inv
<1>1. /\ co.at = "scan" /\ co.todo = {}
      /\ merged' = [c \in Callers |-> Merge(caller[c].req, merged[c], acc[w][c])]
      /\ acc' = [acc EXCEPT ![w] = Empty]
      /\ UNCHANGED <<docs, queue, co, caller, stable, fresh, spent>>
  BY DEF Reduce, ghosts
<1>2. \A c \in Callers : merged[c] \in Heaps /\ \A v \in Workers : acc[v][c] \in Heaps
  BY <1>0 DEF TypeOK
<1>3. /\ acc' \in [Workers -> [Callers -> Heaps]]
      /\ \A c \in Callers : acc'[w][c] = {} /\ \A v \in Workers \ {w} : acc'[v][c] = acc[v][c]
  BY <1>0, <1>1, EmptyHeap DEF TypeOK, Empty
<1>4. merged' \in [Callers -> Heaps]
  BY <1>1, <1>2, MergeType
<1>5. TypeOK'
  BY <1>0, <1>1, <1>3, <1>4 DEF TypeOK
<1>6. LineInv'
  BY <1>0, <1>1 DEF LineInv
<1>7. PassInv'
  <2> SUFFICES ASSUME NEW i \in 1 .. Len(co.batch), caller[co.batch[i]].req.col = co.cur
               PROVE  PassFor(caller[co.batch[i]].req, docs[co.cur],
                              Live(stable[co.batch[i]], fresh[co.batch[i]]),
                              {}, acc', merged'[co.batch[i]], co.batch[i])
    BY <1>1 DEF PassInv
  <2> DEFINE c == co.batch[i]
             r == caller[c].req
             m == docs[co.cur]
             L == Live(stable[c], fresh[c])
             B == acc'
             M == merged[c]
  <2>1. /\ c \in Callers /\ r \in Requests
        /\ \A j \in L : j \in Keys /\ m[j] \in Docs /\ Qualifies(r, m[j].val)
    <3>1. co.at \in {"scan", "decode"}
      BY <1>1
    <3> QED
      BY <1>0, <3>1, MateFacts
  <2>2. PassFor(r, m, L, {}, acc, M, c)
    BY <1>0, <1>1 DEF PassInv
  <2>3. /\ B[w][c] = {} /\ \A v \in Workers \ {w} : B[v][c] = acc[v][c]
        /\ M \in Heaps /\ \A v \in Workers : acc[v][c] \in Heaps
    BY <1>2, <1>3, <2>1
  <2>4. merged'[c] = Merge(r, M, acc[w][c])
    BY <1>1, <2>1
  <2>5. L \subseteq Keys /\ \A j \in L : m[j] \in Docs
    BY <2>1
  <2> HIDE DEF c, r, m, L, B, M
  <2>6. PassFor(r, m, L, {}, B, Merge(r, M, acc[w][c]), c)
    BY <2>1, <2>2, <2>3, <2>5, PassReduces
  <2> QED
    BY <2>4, <2>6 DEF c, r, m, L, B, M
<1>8. AnswerInv'
  BY <1>1 DEF AnswerInv
<1> QED
  BY <1>0, <1>1, <1>5, <1>6, <1>7, <1>8, LiveKept DEF Inv

LEMMA StartAnswerInv ==
    ASSUME Inv, NEW c \in Callers, StartAnswer(c)
    PROVE  Inv'
<1>0. TypeOK /\ LineInv /\ LiveInv /\ PassInv
  BY DEF Inv
<1> DEFINE s == Winners(caller[c].req, merged[c])
           full == Cardinality(merged[c]) >= caller[c].req.need
<1>1. /\ co.at = "scan" /\ co.todo = {} /\ (\A w \in Workers : acc[w] = Empty)
      /\ Group(co.cur) # <<>> /\ c = Head(co.batch)
      /\ co' = [co EXCEPT !.at = "decode", !.left = s, !.out = <<>>]
      /\ caller' = [caller EXCEPT ![c].full = full]
      /\ UNCHANGED <<docs, queue, acc, merged, stable, fresh, spent>>
  BY DEF StartAnswer, ghosts
<1>2. PICK j \in 1 .. Len(co.batch) : caller[co.batch[j]].req.col = co.cur
  BY <1>0, <1>1, GroupFacts
<1>3. co.batch \in Seq(Callers) /\ co.batch # <<>>
  BY <1>0, <1>2, CoFacts
<1>4. c = co.batch[1] /\ 1 \in 1 .. Len(co.batch)
  BY <1>1, <1>3, TailFacts
<1>5. caller[c].req.col = co.cur
  <2>1. j = 1 \/ 1 < j
    OBVIOUS
  <2>2. FrontFor(caller, co.at, co.batch, co.cur)
    BY <1>0 DEF LineInv
  <2> QED
    BY <1>1, <1>2, <1>4, <2>1, <2>2 DEF FrontFor
<1>6. /\ caller[c].req \in Requests
      /\ \A k \in Live(stable[c], fresh[c]) :
             k \in Keys /\ docs[co.cur][k] \in Docs /\ Qualifies(caller[c].req, docs[co.cur][k].val)
  <2>1. co.at \in {"scan", "decode"}
    BY <1>1
  <2> QED
    BY <1>0, <1>4, <1>5, <2>1, MateFacts
<1>7. merged[c] \in Heaps /\ \A v \in Workers : acc[v][c] = {}
  BY <1>0, <1>1 DEF TypeOK, Empty
<1>8. s \in Seq(Items)
  BY <1>6, <1>7, WinnersFacts
<1>9. AnswerFor(caller[c].req, docs[co.cur], Live(stable[c], fresh[c]), full, s, <<>>)
  <2> DEFINE r == caller[c].req
             m == docs[co.cur]
             L == Live(stable[c], fresh[c])
             M == merged[c]
  <2>1. PassFor(r, m, L, {}, acc, M, c)
    BY <1>0, <1>1, <1>4, <1>5 DEF PassInv
  <2>2. r \in Requests /\ M \in Heaps /\ L \subseteq Keys /\ \A k \in L : m[k] \in Docs
    BY <1>6, <1>7
  <2> HIDE DEF r, m, L, M
  <2>3. AnswerFor(r, m, L, Cardinality(M) >= r.need, Winners(r, M), <<>>)
    BY <1>7, <2>1, <2>2, AnswerStarts
  <2> QED
    BY <2>3 DEF r, m, L, M
<1>10. full \in BOOLEAN
  OBVIOUS
<1> HIDE DEF s, full
<1>11. caller[c] \in CallerStates
  BY <1>0 DEF TypeOK
<1>12. /\ caller'[c] \in CallerStates /\ caller'[c].at = caller[c].at /\ caller'[c].req = caller[c].req
       /\ caller'[c].full = full
       /\ \A x \in Callers \ {c} : caller'[x] = caller[x]
  BY <1>0, <1>1, <1>10, <1>11 DEF TypeOK, CallerStates
<1>13. \A x \in Callers : caller'[x].at = caller[x].at /\ caller'[x].req = caller[x].req
  BY <1>12
<1>14. /\ co'.at = "decode" /\ co'.batch = co.batch /\ co'.groups = co.groups /\ co'.cur = co.cur
       /\ co'.todo = {} /\ co'.left = s /\ co'.out = <<>> /\ co' \in CoordinatorStates
  BY <1>0, <1>1, <1>8, EmptySeq DEF TypeOK, CoordinatorStates
<1>15. TypeOK'
  <2>1. caller' \in [Callers -> CallerStates]
    BY <1>0, <1>1, <1>12 DEF TypeOK
  <2> QED
    BY <1>0, <1>1, <1>14, <2>1 DEF TypeOK
<1>16. /\ \A i \in 1 .. Len(queue) : queue[i] \in Callers
       /\ \A i \in 1 .. Len(co.batch) : co.batch[i] \in Callers
  BY <1>0, CoFacts
<1>17. LineInv'
  <2>1. QueueFor(caller', queue', co'.batch)
    BY <1>0, <1>1, <1>13, <1>14, <1>16 DEF LineInv, QueueFor
  <2>2. BatchFor(caller', co'.at, co'.batch, co'.groups, co'.cur)
    BY <1>0, <1>1, <1>13, <1>14, <1>16 DEF LineInv, BatchFor
  <2>3. FrontFor(caller', co'.at, co'.batch, co'.cur)
    <3> SUFFICES ASSUME NEW i \in 1 .. Len(co.batch), NEW h \in 1 .. Len(co.batch), i < h,
                        caller'[co.batch[h]].req.col = co.cur
                 PROVE  caller'[co.batch[i]].req.col = co.cur
      BY <1>14 DEF FrontFor
    <3>1. caller[co.batch[h]].req.col = co.cur
      BY <1>13, <1>16
    <3>2. caller[co.batch[i]].req.col = co.cur
      BY <1>0, <1>1, <3>1 DEF LineInv, FrontFor
    <3> QED
      BY <1>13, <1>16, <3>2
  <2>4. CursorFor(docs', co'.at, co'.groups, co'.cur)
    BY <1>0, <1>1, <1>14 DEF LineInv, CursorFor
  <2>5. HeadFor(caller', co'.at, co'.batch, co'.cur, co'.todo)
    BY <1>1, <1>3, <1>5, <1>12, <1>14 DEF HeadFor
  <2> QED
    BY <1>14, <2>1, <2>2, <2>3, <2>4, <2>5 DEF LineInv
<1>18. LiveInv'
  <2> SUFFICES ASSUME NEW x \in Callers
               PROVE  LiveFor(docs', caller'[x], Live(stable'[x], fresh'[x]), fresh'[x])
    BY DEF LiveInv
  <2>1. LiveFor(docs, caller[x], Live(stable[x], fresh[x]), fresh[x])
    BY <1>0 DEF LiveInv
  <2> QED
    BY <1>1, <1>13, <2>1 DEF LiveFor
<1>19. PassInv'
  <2> SUFFICES ASSUME NEW i \in 1 .. Len(co.batch), caller'[co.batch[i]].req.col = co.cur
               PROVE  PassFor(caller'[co.batch[i]].req, docs[co.cur],
                              Live(stable[co.batch[i]], fresh[co.batch[i]]),
                              {}, acc, merged[co.batch[i]], co.batch[i])
    BY <1>1, <1>14 DEF PassInv
  <2>1. caller'[co.batch[i]].req = caller[co.batch[i]].req
    BY <1>13, <1>16
  <2> QED
    BY <1>0, <1>1, <2>1 DEF PassInv
<1>20. AnswerInv'
  BY <1>1, <1>9, <1>12, <1>14 DEF AnswerInv
<1> QED
  BY <1>15, <1>17, <1>18, <1>19, <1>20 DEF Inv

(* The request being answered. *)
LEMMA HeadFacts ==
    ASSUME TypeOK, LineInv, LiveInv, co.at = "decode"
    PROVE  LET c == Head(co.batch)
           IN  /\ co.batch # <<>> /\ c = co.batch[1] /\ 1 \in 1 .. Len(co.batch) /\ c \in Callers
               /\ caller[c].req \in Requests /\ caller[c].req.col = co.cur /\ caller[c].at = "waiting"
               /\ co.cur \in Collections /\ docs[co.cur] \in Maps
               /\ \A k \in Live(stable[c], fresh[c]) : k \in Keys /\ docs[co.cur][k] \in Docs
<1>1. co.batch # <<>> /\ caller[Head(co.batch)].req.col = co.cur
  BY DEF LineInv, HeadFor
<1>2. Head(co.batch) = co.batch[1] /\ 1 \in 1 .. Len(co.batch)
  BY <1>1, CoFacts, TailFacts
<1>3. co.at \in {"scan", "decode"}
  OBVIOUS
<1> QED
  BY <1>1, <1>2, <1>3, MateFacts

LEMMA DecodeOneInv == ASSUME Inv, DecodeOne PROVE Inv'
<1>0. TypeOK /\ LineInv /\ LiveInv /\ PassInv /\ AnswerInv
  BY DEF Inv
<1> DEFINE k == Head(co.left).key
           o == IF k \in Present(co.cur) THEN Append(co.out, [key |-> k, doc |-> docs[co.cur][k]]) ELSE co.out
<1>1. /\ co.at = "decode" /\ co.left # <<>>
      /\ co' = [co EXCEPT !.left = Tail(co.left), !.out = o]
      /\ UNCHANGED <<docs, queue, acc, merged, caller, stable, fresh, spent>>
  BY DEF DecodeOne, ghosts
<1>2. co.left \in Seq(Items) /\ co.out \in Seq(Found)
  BY <1>0, CoFacts
<1>3. Tail(co.left) \in Seq(Items) /\ Head(co.left) \in Items
  BY <1>1, <1>2, TailFacts
<1>4. k \in Keys
  BY <1>3 DEF Items
<1> DEFINE c == Head(co.batch)
           r == caller[c].req
           m == docs[co.cur]
           L == Live(stable[c], fresh[c])
           e == [key |-> k, doc |-> m[k]]
<1>5. /\ c \in Callers /\ r \in Requests /\ co.cur \in Collections /\ m \in Maps
      /\ \A j \in L : j \in Keys /\ m[j] \in Docs
  BY <1>0, <1>1, HeadFacts
<1>6. \A j \in L : Item(r, j, m[j]).key = j
  BY DEF Item
<1>7. AnswerFor(r, m, L, caller[c].full, co.left, co.out)
  BY <1>0, <1>1 DEF AnswerInv
<1>8. m # NoCol
  BY <1>5, ShapeAssumption
<1>9. k \in Present(co.cur) <=> m[k] # NoDoc
  BY <1>4, <1>8 DEF Present
<1>10. o \in Seq(Found) /\ AnswerFor(r, m, L, caller[c].full, Tail(co.left), o)
  <2>1. CASE k \in Present(co.cur)
    <3>1. m[k] \in Docs
      BY <1>4, <1>5, <1>9, <2>1 DEF Maps
    <3>2. e \in Found /\ e.key = k /\ e.doc = m[e.key]
      BY <1>4, <3>1 DEF Found
    <3>3. o = Append(co.out, e)
      BY <2>1
    <3>4. e.key = Head(co.left).key
      BY <3>2
    <3> DEFINE full == caller[c].full
    <3> HIDE DEF e, m, L, r, o, k, full
    <3>5. AnswerFor(r, m, L, full, Tail(co.left), Append(co.out, e))
      BY <1>1, <1>2, <1>6, <1>7, <3>2, <3>4, AnswerAdvances DEF full
    <3> QED
      BY <1>2, <3>2, <3>3, <3>5, AppendFacts DEF full
  <2>2. CASE k \notin Present(co.cur)
    <3>1. k \notin L
      BY <1>5, <1>9, <2>2, ShapeAssumption
    <3>2. o = co.out
      BY <2>2
    <3> DEFINE full == caller[c].full
    <3>3. Head(co.left).key \notin L
      BY <3>1
    <3> HIDE DEF m, L, r, o, k, full
    <3>4. AnswerFor(r, m, L, full, Tail(co.left), co.out)
      BY <1>1, <1>2, <1>6, <1>7, <3>3, AnswerSkips DEF full
    <3> QED
      BY <1>2, <3>2, <3>4 DEF full
  <2> QED
    BY <2>1, <2>2
<1> HIDE DEF o, k
<1>11. /\ co'.at = "decode" /\ co'.batch = co.batch /\ co'.groups = co.groups /\ co'.cur = co.cur
       /\ co'.todo = co.todo /\ co'.left = Tail(co.left) /\ co'.out = o /\ co' \in CoordinatorStates
  BY <1>0, <1>1, <1>3, <1>10 DEF TypeOK, CoordinatorStates
<1>12. TypeOK'
  BY <1>0, <1>1, <1>11 DEF TypeOK
<1>13. LineInv'
  BY <1>0, <1>1, <1>11 DEF LineInv
<1>14. PassInv'
  BY <1>0, <1>1, <1>11 DEF PassInv
<1>15. AnswerInv'
  BY <1>1, <1>10, <1>11 DEF AnswerInv
<1> QED
  BY <1>0, <1>1, <1>12, <1>13, <1>14, <1>15, LiveKept DEF Inv

LEMMA SendInv == ASSUME Inv, Send PROVE Inv'
<1>0. TypeOK /\ LineInv /\ LiveInv /\ PassInv
  BY DEF Inv
<1> DEFINE c == Head(co.batch)
           b == Tail(co.batch)
<1>1. /\ co.at = "decode"
      /\ caller' = [caller EXCEPT ![c] = [caller[c] EXCEPT !.at = "done", !.got = co.out]]
      /\ co' = [co EXCEPT !.at = "scan", !.batch = b]
      /\ UNCHANGED <<docs, queue, acc, merged, stable, fresh, spent>>
  BY DEF Send, ghosts
<1>2. co.batch # <<>> /\ c \in Callers /\ co.batch \in Seq(Callers) /\ queue \in Seq(Callers) /\ co.out \in Seq(Found)
  BY <1>0, <1>1, HeadFacts, CoFacts DEF TypeOK
<1>3. /\ b \in Seq(Callers) /\ Len(co.batch) \in Nat
      /\ \A i \in 1 .. Len(b) : b[i] = co.batch[i + 1] /\ i + 1 \in 1 .. Len(co.batch)
  BY <1>2, TailFacts
<1>4. \A i, j \in 1 .. Len(b) : i < j => i + 1 < j + 1
  OBVIOUS
<1>5. /\ QueueFor(caller, queue, b)
      /\ \A i \in 1 .. Len(b) : b[i] # c
      /\ \A i \in 1 .. Len(queue) : queue[i] # c
  BY <1>0, <1>2, BatchShrinks DEF LineInv
<1> HIDE DEF c, b
<1>6. caller[c] \in CallerStates
  BY <1>0, <1>2 DEF TypeOK
<1>7. /\ caller'[c] \in CallerStates /\ caller'[c].at = "done"
      /\ \A x \in Callers \ {c} : caller'[x] = caller[x]
  BY <1>0, <1>1, <1>2, <1>6 DEF TypeOK, CallerStates
<1>8. /\ co'.at = "scan" /\ co'.batch = b /\ co'.groups = co.groups /\ co'.cur = co.cur
      /\ co'.todo = co.todo /\ co' \in CoordinatorStates
  BY <1>0, <1>1, <1>3 DEF TypeOK, CoordinatorStates
<1>9. TypeOK'
  <2>1. caller' \in [Callers -> CallerStates]
    BY <1>0, <1>1, <1>7 DEF TypeOK
  <2> QED
    BY <1>0, <1>1, <1>8, <2>1 DEF TypeOK
<1>10. /\ \A i \in 1 .. Len(queue) : caller'[queue[i]] = caller[queue[i]]
       /\ \A i \in 1 .. Len(b) : b[i] \in Callers /\ caller'[b[i]] = caller[b[i]]
  <2>1. \A i \in 1 .. Len(queue) : queue[i] \in Callers
    BY <1>0, CoFacts
  <2>2. \A i \in 1 .. Len(b) : b[i] \in Callers
    BY <1>3
  <2> QED
    BY <1>5, <1>7, <2>1, <2>2
<1>11. LineInv'
  <2>1. QueueFor(caller', queue', co'.batch)
    BY <1>1, <1>5, <1>8, <1>10 DEF QueueFor
  <2>2. BatchFor(caller', co'.at, co'.batch, co'.groups, co'.cur)
    <3>1. \A i \in 1 .. Len(b) : /\ caller[b[i]].at # "idle" /\ caller[b[i]].req \in Requests
                                 /\ caller[b[i]].req.col \in co.groups \cup {co.cur} => caller[b[i]].at = "waiting"
      BY <1>0, <1>3 DEF LineInv, BatchFor
    <3>2. \A i \in 1 .. Len(b) : /\ caller'[b[i]].at # "idle" /\ caller'[b[i]].req \in Requests
                                 /\ caller'[b[i]].req.col \in co.groups \cup {co.cur} => caller'[b[i]].at = "waiting"
      BY <1>10, <3>1
    <3>3. BatchFor(caller', "scan", b, co.groups, co.cur)
      BY <3>2 DEF BatchFor
    <3> QED
      BY <1>8, <3>3
  <2>3. FrontFor(caller, co'.at, b, co.cur)
    <3> SUFFICES ASSUME NEW i \in 1 .. Len(b), NEW j \in 1 .. Len(b), i < j, caller[b[j]].req.col = co.cur
                 PROVE  caller[b[i]].req.col = co.cur
      BY DEF FrontFor
    <3>1. /\ i + 1 \in 1 .. Len(co.batch) /\ j + 1 \in 1 .. Len(co.batch) /\ i + 1 < j + 1
          /\ caller[co.batch[j + 1]].req.col = co.cur
      BY <1>3, <1>4
    <3>2. caller[co.batch[i + 1]].req.col = co.cur
      BY <1>0, <1>1, <3>1 DEF LineInv, FrontFor
    <3> QED
      BY <1>3, <3>2
  <2>4. FrontFor(caller', co'.at, co'.batch, co'.cur)
    <3> DEFINE now == caller'
               at == co'.at
    <3>1. \A i \in 1 .. Len(b) : now[b[i]] = caller[b[i]]
      BY <1>10
    <3>2. FrontFor(caller, at, b, co.cur)
      BY <2>3
    <3> HIDE DEF now, at
    <3>3. FrontFor(now, at, b, co.cur)
      BY <3>1, <3>2, FrontKept
    <3> QED
      BY <1>8, <3>3 DEF now, at
  <2>5. CursorFor(docs', co'.at, co'.groups, co'.cur)
    BY <1>0, <1>1, <1>8 DEF LineInv, CursorFor
  <2>6. HeadFor(caller', co'.at, co'.batch, co'.cur, co'.todo)
    BY <1>8 DEF HeadFor
  <2> QED
    BY <1>8, <2>1, <2>2, <2>4, <2>5, <2>6 DEF LineInv
<1>12. LiveInv'
  <2> SUFFICES ASSUME NEW x \in Callers
               PROVE  LiveFor(docs', caller'[x], Live(stable'[x], fresh'[x]), fresh'[x])
    BY DEF LiveInv
  <2>1. LiveFor(docs, caller[x], Live(stable[x], fresh[x]), fresh[x])
    BY <1>0 DEF LiveInv
  <2>2. CASE x = c
    BY <1>7, <2>2 DEF LiveFor
  <2>3. CASE x # c
    BY <1>1, <1>7, <2>1, <2>3
  <2> QED
    BY <2>2, <2>3
<1>13. PassInv'
  <2> SUFFICES ASSUME NEW i \in 1 .. Len(b), caller'[b[i]].req.col = co.cur
               PROVE  PassFor(caller'[b[i]].req, docs[co.cur], Live(stable[b[i]], fresh[b[i]]),
                              co.todo, acc, merged[b[i]], b[i])
    BY <1>1, <1>8 DEF PassInv
  <2>1. caller'[b[i]] = caller[b[i]] /\ b[i] = co.batch[i + 1] /\ i + 1 \in 1 .. Len(co.batch)
    BY <1>3, <1>10
  <2> QED
    BY <1>0, <1>1, <2>1 DEF PassInv
<1>14. AnswerInv'
  BY <1>8 DEF AnswerInv
<1> QED
  BY <1>9, <1>11, <1>12, <1>13, <1>14 DEF Inv

(***************************************************************************)
(* A write of some keys of collection c takes them from what the waiting   *)
(* callers of c must find; what it adds, it adds while no pass runs.       *)
(***************************************************************************)
LEMMA WriteInv ==
    ASSUME Inv, NEW c \in Collections, NEW keys, NEW new, Touch(c, keys, new), Write,
           docs' \in [Collections -> Maps \cup {NoCol}],
           \A g \in Collections \ {c} : docs'[g] = docs[g],
           DOMAIN new \subseteq Keys,
           \A k \in Keys \ keys : docs[c] # NoCol /\ docs[c][k] # NoDoc
                                  => docs'[c] # NoCol /\ docs'[c][k] = docs[c][k],
           \A k \in DOMAIN new : docs'[c] # NoCol /\ docs'[c][k] # NoDoc /\ docs'[c][k].val = new[k],
           co.cur = c => DOMAIN new = {} /\ docs'[c] # NoCol
    PROVE  Inv'
<1>0. TypeOK /\ LineInv /\ LiveInv /\ PassInv /\ AnswerInv
  BY DEF Inv
<1> DEFINE Add(x) == {k \in DOMAIN new : Qualifies(caller[x].req, new[k])}
<1>1. /\ stable' = [x \in Callers |-> IF Asks(x, c) THEN stable[x] \ keys ELSE stable[x]]
      /\ fresh' = [x \in Callers |-> IF ~Asks(x, c) THEN fresh[x]
                                     ELSE {b \ keys : b \in fresh[x]} \cup {Add(x)}]
      /\ spent' = [spent EXCEPT !.writes = spent.writes + 1]
      /\ UNCHANGED <<queue, co, acc, merged, caller>>
  BY DEF Touch, Write
<1>2. \A x \in Callers : stable[x] \subseteq Keys /\ fresh[x] \subseteq SUBSET Keys
  BY <1>0 DEF TypeOK
<1>3. \A x : Add(x) \subseteq DOMAIN new /\ \A k \in Add(x) : Qualifies(caller[x].req, new[k])
  OBVIOUS
<1> HIDE DEF Add
<1>4. TypeOK'
  <2>1. stable' \in [Callers -> SUBSET Keys]
    BY <1>1, <1>2
  <2>2. fresh' \in [Callers -> SUBSET SUBSET Keys]
    BY <1>1, <1>2, <1>3
  <2>3. spent' \in [writes : Nat, failures : Nat]
    BY <1>0, <1>1 DEF TypeOK
  <2> QED
    BY <1>0, <1>1, <2>1, <2>2, <2>3 DEF TypeOK
<1>5. \A x \in Callers : Asks(x, c) <=> caller[x].at = "waiting" /\ caller[x].req.col = c
  BY DEF Asks, Waiting
<1>6. \A x \in Callers :
         /\ ~Asks(x, c) => fresh'[x] = fresh[x] /\ Live(stable'[x], fresh'[x]) = Live(stable[x], fresh[x])
         /\ Asks(x, c) => Live(stable'[x], fresh'[x]) = (Live(stable[x], fresh[x]) \ keys) \cup Add(x)
  <2> SUFFICES ASSUME NEW x \in Callers
               PROVE  /\ ~Asks(x, c) => /\ fresh'[x] = fresh[x]
                                        /\ Live(stable'[x], fresh'[x]) = Live(stable[x], fresh[x])
                      /\ Asks(x, c) => Live(stable'[x], fresh'[x]) = (Live(stable[x], fresh[x]) \ keys) \cup Add(x)
    OBVIOUS
  <2>1. CASE ~Asks(x, c)
    <3>1. fresh'[x] = fresh[x] /\ stable'[x] = stable[x]
      BY <1>1, <2>1
    <3> QED
      BY <2>1, <3>1
  <2>2. CASE Asks(x, c)
    <3>1. stable'[x] = stable[x] \ keys /\ fresh'[x] = {b \ keys : b \in fresh[x]} \cup {Add(x)}
      BY <1>1, <2>2
    <3>2. UNION fresh'[x] = ((UNION fresh[x]) \ keys) \cup Add(x)
      <4>1. ASSUME NEW k \in UNION fresh'[x] PROVE k \in ((UNION fresh[x]) \ keys) \cup Add(x)
        <5>1. PICK b \in fresh'[x] : k \in b
          OBVIOUS
        <5> QED
          BY <3>1, <5>1
      <4>2. ASSUME NEW k \in (UNION fresh[x]) \ keys PROVE k \in UNION fresh'[x]
        <5>1. PICK b \in fresh[x] : k \in b
          OBVIOUS
        <5>2. b \ keys \in fresh'[x] /\ k \in b \ keys
          BY <3>1, <4>2, <5>1
        <5> QED
          BY <5>2
      <4>3. Add(x) \subseteq UNION fresh'[x]
        <5>1. Add(x) \in fresh'[x]
          BY <3>1
        <5> QED
          BY <5>1
      <4> QED
        BY <4>1, <4>2, <4>3
    <3> QED
      BY <2>2, <3>1, <3>2 DEF Live
  <2> QED
    BY <2>1, <2>2
<1>7. LineInv'
  <2>1. CursorFor(docs', co'.at, co'.groups, co'.cur)
    BY <1>0, <1>1 DEF LineInv, CursorFor
  <2> QED
    BY <1>0, <1>1, <2>1 DEF LineInv
<1>8. LiveInv'
  <2> SUFFICES ASSUME NEW x \in Callers
               PROVE  LiveFor(docs', caller[x], Live(stable'[x], fresh'[x]), fresh'[x])
    BY <1>1 DEF LiveInv
  <2>1. LiveFor(docs, caller[x], Live(stable[x], fresh[x]), fresh[x]) /\ Live(stable[x], fresh[x]) \subseteq Keys
    BY <1>0, LiveType DEF LiveInv
  <2>2. CASE caller[x].at # "waiting"
    BY <1>5, <1>6, <2>1, <2>2 DEF LiveFor
  <2>3. CASE caller[x].at = "waiting" /\ caller[x].req.col # c
    <3>1. caller[x].req.col \in Collections \ {c}
      BY <2>1, <2>3, RequestShape DEF LiveFor
    <3> QED
      BY <1>5, <1>6, <2>1, <2>3, <3>1 DEF LiveFor
  <2>4. CASE caller[x].at = "waiting" /\ caller[x].req.col = c
    <3>1. Live(stable'[x], fresh'[x]) = (Live(stable[x], fresh[x]) \ keys) \cup Add(x)
      BY <1>5, <1>6, <2>4
    <3>2. ASSUME NEW k \in Live(stable[x], fresh[x]) \ keys
          PROVE  docs'[c] # NoCol /\ docs'[c][k] # NoDoc /\ Qualifies(caller[x].req, docs'[c][k].val)
      BY <2>1, <2>4 DEF LiveFor
    <3>3. ASSUME NEW k \in Add(x)
          PROVE  docs'[c] # NoCol /\ docs'[c][k] # NoDoc /\ Qualifies(caller[x].req, docs'[c][k].val)
      <4>1. k \in DOMAIN new /\ Qualifies(caller[x].req, new[k])
        BY <1>3
      <4> QED
        BY <4>1
    <3> QED
      BY <2>1, <2>4, <3>1, <3>2, <3>3 DEF LiveFor
  <2> QED
    BY <2>2, <2>3, <2>4
<1>9. ASSUME co.at \in {"scan", "decode"}, NEW i \in 1 .. Len(co.batch),
             caller[co.batch[i]].req.col = co.cur
      PROVE  LET x == co.batch[i]
             IN  /\ Live(stable'[x], fresh'[x]) \subseteq Live(stable[x], fresh[x])
                 /\ \A k \in Live(stable'[x], fresh'[x]) : docs'[co.cur][k] = docs[co.cur][k]
  <2> DEFINE x == co.batch[i]
  <2>1. /\ x \in Callers /\ caller[x].at = "waiting" /\ co.cur \in Collections /\ docs[co.cur] \in Maps
        /\ \A k \in Live(stable[x], fresh[x]) : k \in Keys /\ docs[co.cur][k] \in Docs
    BY <1>0, <1>9, MateFacts
  <2>2. caller[x].req.col = co.cur
    BY <1>9
  <2> HIDE DEF x
  <2>3. CASE co.cur # c
    BY <1>5, <1>6, <2>1, <2>2, <2>3 DEF x
  <2>4. CASE co.cur = c
    <3>1. Add(x) = {}
      BY <1>3, <2>4
    <3>2. Live(stable'[x], fresh'[x]) = Live(stable[x], fresh[x]) \ keys
      BY <1>5, <1>6, <2>1, <2>2, <2>4, <3>1
    <3>3. docs[c] # NoCol /\ \A k \in Live(stable[x], fresh[x]) : docs[c][k] # NoDoc
      BY <2>1, <2>4, ShapeAssumption
    <3> QED
      BY <2>1, <2>4, <3>2, <3>3 DEF x
  <2> QED
    BY <2>3, <2>4 DEF x
<1>10. PassInv'
  <2> SUFFICES ASSUME co.at \in {"scan", "decode"}, NEW i \in 1 .. Len(co.batch),
                      caller[co.batch[i]].req.col = co.cur
               PROVE  PassFor(caller[co.batch[i]].req, docs'[co.cur],
                              Live(stable'[co.batch[i]], fresh'[co.batch[i]]),
                              co.todo, acc, merged[co.batch[i]], co.batch[i])
    BY <1>1 DEF PassInv
  <2> DEFINE x == co.batch[i]
             r == caller[x].req
             L == Live(stable[x], fresh[x])
             L2 == Live(stable'[x], fresh'[x])
             m == docs[co.cur]
             m2 == docs'[co.cur]
             M == merged[x]
  <2>1. PassFor(r, m, L, co.todo, acc, M, x)
    BY <1>0 DEF PassInv
  <2>2. L2 \subseteq L /\ \A k \in L2 : m2[k] = m[k]
    BY <1>9
  <2> HIDE DEF x, r, L, L2, m, m2, M
  <2>3. PassFor(r, m2, L2, co.todo, acc, M, x)
    BY <2>1, <2>2, PassShrinks
  <2> QED
    BY <2>3 DEF x, r, L, L2, m, m2, M
<1>11. AnswerInv'
  <2> SUFFICES ASSUME co.at = "decode"
               PROVE  AnswerFor(caller[Head(co.batch)].req, docs'[co.cur],
                                Live(stable'[Head(co.batch)], fresh'[Head(co.batch)]),
                                caller[Head(co.batch)].full, co.left, co.out)
    BY <1>1 DEF AnswerInv
  <2> DEFINE x == Head(co.batch)
             r == caller[x].req
             full == caller[x].full
             L == Live(stable[x], fresh[x])
             L2 == Live(stable'[x], fresh'[x])
             m == docs[co.cur]
             m2 == docs'[co.cur]
  <2>0. x = co.batch[1] /\ 1 \in 1 .. Len(co.batch) /\ caller[x].req.col = co.cur
    BY <1>0, HeadFacts
  <2>1. AnswerFor(r, m, L, full, co.left, co.out)
    BY <1>0 DEF AnswerInv
  <2>2. L2 \subseteq L /\ \A k \in L2 : m2[k] = m[k]
    BY <1>9, <2>0
  <2> HIDE DEF x, r, L, L2, m, m2, full
  <2>3. AnswerFor(r, m2, L2, full, co.left, co.out)
    BY <2>1, <2>2, AnswerShrinks
  <2> QED
    BY <2>3 DEF x, r, L, L2, m, m2, full
<1> QED
  BY <1>4, <1>7, <1>8, <1>10, <1>11 DEF Inv

LEMMA UpdateInv ==
    ASSUME Inv, NEW c \in Collections, NEW k \in Keys, NEW v \in Vals, Update(c, k, v)
    PROVE  Inv'
<1>0. TypeOK
  BY DEF Inv
<1>1. docs[c] # NoCol /\ docs[c][k] # NoDoc /\ Touch(c, {k}, <<>>) /\ Write
  BY DEF Update, Present
<1>2. docs[c] \in Maps /\ docs[c][k] \in Docs
  BY <1>0, <1>1, DocType
<1> DEFINE d == [docs[c][k] EXCEPT !.val = v]
           m == [docs[c] EXCEPT ![k] = d]
<1>3. d \in Docs
  BY <1>2 DEF Docs
<1>4. docs' = [docs EXCEPT ![c] = m]
  BY DEF Update
<1> HIDE DEF d
<1>5. docs' = [docs EXCEPT ![c] = m] /\ m \in Maps /\ \A j \in Keys \ {k} : m[j] = docs[c][j]
  BY <1>2, <1>3, <1>4 DEF Maps
<1> HIDE DEF m
<1>6. /\ docs' \in [Collections -> Maps \cup {NoCol}] /\ docs'[c] = m
      /\ \A g \in Collections \ {c} : docs'[g] = docs[g]
  BY <1>0, <1>5 DEF TypeOK
<1>7. m # NoCol
  BY <1>5, ShapeAssumption
<1>8. DOMAIN <<>> = {}
  OBVIOUS
<1> QED
  BY <1>1, <1>5, <1>6, <1>7, <1>8, WriteInv

LEMMA DeleteInv ==
    ASSUME Inv, NEW c \in Collections, NEW k \in Keys, Delete(c, k)
    PROVE  Inv'
<1>0. TypeOK
  BY DEF Inv
<1>1. /\ docs' = [docs EXCEPT ![c] = [docs[c] EXCEPT ![k] = NoDoc]]
      /\ docs[c] # NoCol /\ docs[c][k] # NoDoc
      /\ Touch(c, {k}, <<>>) /\ Write
  BY DEF Delete, Present
<1>2. docs[c] \in Maps
  BY <1>0, <1>1, DocType
<1> DEFINE m == [docs[c] EXCEPT ![k] = NoDoc]
<1>5. docs' = [docs EXCEPT ![c] = m] /\ m \in Maps /\ \A j \in Keys \ {k} : m[j] = docs[c][j]
  BY <1>1, <1>2 DEF Maps
<1> HIDE DEF m
<1>6. /\ docs' \in [Collections -> Maps \cup {NoCol}] /\ docs'[c] = m
      /\ \A g \in Collections \ {c} : docs'[g] = docs[g]
  BY <1>0, <1>5 DEF TypeOK
<1>7. m # NoCol
  BY <1>5, ShapeAssumption
<1>8. DOMAIN <<>> = {}
  OBVIOUS
<1> QED
  BY <1>1, <1>5, <1>6, <1>7, <1>8, WriteInv

LEMMA InsertInv ==
    ASSUME Inv, NEW c \in Collections, NEW items \in Batches, Insert(c, items)
    PROVE  Inv'
<1>0. TypeOK
  BY DEF Inv
<1> DEFINE m == Stored(c, items)
           new == Added(c, items)
<1>1. co.cur # c /\ docs' = [docs EXCEPT ![c] = m] /\ Touch(c, DOMAIN items, new) /\ Write
  BY DEF Insert
<1>2. DOMAIN items \subseteq Keys /\ \A k \in DOMAIN items : items[k] \in Vals
  BY ShapeAssumption
<1>3. \A k \in Keys : k \in Present(c) <=> docs[c] # NoCol /\ docs[c][k] # NoDoc
  BY DEF Present
<1>4. \A k \in Keys : k \in Present(c) => docs[c][k] \in Docs
  BY <1>0, <1>3, DocType
<1>5. ASSUME NEW k \in Keys
      PROVE  /\ m[k] \in Docs \cup {NoDoc}
             /\ k \in DOMAIN items => m[k] \in Docs /\ m[k].val = items[k]
             /\ k \notin DOMAIN items /\ k \in Present(c) => m[k] = docs[c][k]
  <2>1. CASE k \notin DOMAIN items
    <3>1. m[k] = IF k \in Present(c) THEN docs[c][k] ELSE NoDoc
      BY <2>1 DEF Stored
    <3> QED
      BY <1>4, <2>1, <3>1
  <2>2. CASE k \in DOMAIN items
    <3> DEFINE n == IF k \in Present(c) THEN docs[c][k].seq
                    ELSE (1 + spent.writes) * Cardinality(Keys) + k
    <3>1. m[k] = [val |-> items[k], seq |-> n]
      BY <2>2 DEF Stored
    <3>2. spent.writes \in Nat /\ Cardinality(Keys) \in Nat /\ k \in Nat
      BY <1>0, KeysAreNat, FS_CardinalityType DEF TypeOK
    <3>3. (1 + spent.writes) * Cardinality(Keys) + k \in Nat
      BY <3>2
    <3>4. k \in Present(c) => docs[c][k].seq \in Nat
      BY <1>4 DEF Docs
    <3>5. n \in Nat
      BY <3>3, <3>4
    <3> HIDE DEF n
    <3>6. m[k] \in Docs /\ m[k].val = items[k]
      BY <1>2, <2>2, <3>1, <3>5 DEF Docs
    <3> QED
      BY <2>2, <3>6
  <2> QED
    BY <2>1, <2>2
<1>6. m = [k \in Keys |-> m[k]]
  BY DEF Stored
<1>7. DOMAIN new = DOMAIN items \ Present(c) /\ \A k \in DOMAIN new : new[k] = items[k]
  BY DEF Added
<1> HIDE DEF m, new
<1>8. m \in Maps
  BY <1>5, <1>6 DEF Maps
<1>9. m # NoCol
  BY <1>8, ShapeAssumption
<1>10. /\ docs' \in [Collections -> Maps \cup {NoCol}] /\ docs'[c] = m
       /\ \A g \in Collections \ {c} : docs'[g] = docs[g]
  BY <1>0, <1>1, <1>8 DEF TypeOK
<1>11. \A k \in Keys \ DOMAIN items : docs[c] # NoCol /\ docs[c][k] # NoDoc
                                       => docs'[c] # NoCol /\ docs'[c][k] = docs[c][k]
  BY <1>3, <1>5, <1>9, <1>10
<1>12. \A k \in DOMAIN new : docs'[c] # NoCol /\ docs'[c][k] # NoDoc /\ docs'[c][k].val = new[k]
  BY <1>2, <1>5, <1>7, <1>9, <1>10, ShapeAssumption
<1>13. DOMAIN new \subseteq Keys
  BY <1>2, <1>7
<1> DEFINE keys == DOMAIN items
<1>14. /\ Touch(c, keys, new)
       /\ \A k \in Keys \ keys : docs[c] # NoCol /\ docs[c][k] # NoDoc
                                  => docs'[c] # NoCol /\ docs'[c][k] = docs[c][k]
  BY <1>1, <1>11
<1> HIDE DEF keys
<1> QED
  BY <1>1, <1>10, <1>12, <1>13, <1>14, WriteInv

LEMMA DropCollectionInv ==
    ASSUME Inv, NEW c \in Collections, DropCollection(c)
    PROVE  Inv'
<1>0. TypeOK
  BY DEF Inv
<1>1. co.cur # c /\ docs' = [docs EXCEPT ![c] = NoCol] /\ Touch(c, Keys, <<>>) /\ Write
  BY DEF DropCollection
<1>2. /\ docs' \in [Collections -> Maps \cup {NoCol}]
      /\ \A g \in Collections \ {c} : docs'[g] = docs[g]
  BY <1>0, <1>1 DEF TypeOK
<1>3. DOMAIN <<>> = {}
  OBVIOUS
<1> QED
  BY <1>1, <1>2, <1>3, WriteInv

LEMMA StepInv == Inv /\ [Next]_vars => Inv'
<1> SUFFICES ASSUME Inv, [Next]_vars PROVE Inv'
  OBVIOUS
<1>1. CASE UNCHANGED vars
  <2>1. UNCHANGED <<docs, queue, co, acc, merged, caller, stable, fresh, spent>>
    BY <1>1 DEF vars, ghosts
  <2> QED
    BY <2>1 DEF Inv, TypeOK, LineInv, LiveInv, PassInv, AnswerInv
<1>2. CASE Coordinator
  <2>1. CASE Recv \/ WindowCloses \/ NextBatch \/ DecodeOne \/ Send \/ EndPass
    BY <2>1, RecvInv, WindowClosesInv, NextBatchInv, DecodeOneInv, SendInv, EndPassInv
  <2>2. CASE \E g \in Collections : UnknownCollection(g) \/ StartPass(g)
    BY <2>2, UnknownCollectionInv, StartPassInv
  <2>3. CASE \E w \in Workers : Reduce(w) \/ \E k \in Keys : Visit(w, k)
    BY <2>3, ReduceInv, VisitInv
  <2>4. CASE \E c \in Callers : StartAnswer(c)
    BY <2>4, StartAnswerInv
  <2> QED
    BY <1>2, <2>1, <2>2, <2>3, <2>4 DEF Coordinator
<1>3. CASE Collect \/ Die
  BY <1>3, CollectInv, DieInv
<1>4. CASE \E c \in Callers : Disconnected(c) \/ \E r \in Requests : Submit(c, r)
  BY <1>4, DisconnectedInv, SubmitInv, SubmitDeadInv
<1>5. CASE \E c \in Collections : \/ DropCollection(c)
                                  \/ \E items \in Batches : Insert(c, items)
                                  \/ \E k \in Keys : Delete(c, k) \/ \E v \in Vals : Update(c, k, v)
  BY <1>5, DropCollectionInv, InsertInv, DeleteInv, UpdateInv
<1>6. Next \/ UNCHANGED vars
  OBVIOUS
<1> QED
  BY <1>1, <1>2, <1>3, <1>4, <1>5, <1>6, Zenon DEF Next

LEMMA Invariance == Spec => []Inv
BY InitInv, StepInv, PTL DEF Spec
-----------------------------------------------------------------------------
LEMMA AnswerComplete ==
    ASSUME Inv, co.at = "decode", co.left = <<>>
    PROVE  LET c == Head(co.batch)
               place(k) == Item(caller[c].req, k, docs[caller[c].req.col][k])
               L == Live(stable[c], fresh[c])
           IN  /\ \A i \in DOMAIN co.out : co.out[i].key \in L =>
                     co.out[i].doc = docs[caller[c].req.col][co.out[i].key]
               /\ \A i, j \in DOMAIN co.out : i < j /\ co.out[i].key \in L /\ co.out[j].key \in L
                     => Less(place(co.out[i].key), place(co.out[j].key))
               /\ \A k \in L : \/ \E i \in DOMAIN co.out : co.out[i].key = k
                              \/ /\ caller[c].full
                                 /\ \A i \in DOMAIN co.out : co.out[i].key \in L
                                       => Less(place(co.out[i].key), place(k))
<1>0. TypeOK /\ LineInv /\ LiveInv /\ AnswerInv
  BY DEF Inv
<1>1. caller[Head(co.batch)].req.col = co.cur
  BY <1>0, HeadFacts
<1>2. DOMAIN co.out = 1 .. Len(co.out)
  BY <1>0, CoFacts
<1>3. Len(co.left) = 0
  OBVIOUS
<1>4. AnswerFor(caller[Head(co.batch)].req, docs[co.cur],
                 Live(stable[Head(co.batch)], fresh[Head(co.batch)]),
                 caller[Head(co.batch)].full, co.left, co.out)
  BY <1>0 DEF AnswerInv
<1> DEFINE c == Head(co.batch)
           r == caller[c].req
           m == docs[co.cur]
           L == Live(stable[c], fresh[c])
<1>5. AnswerFor(r, m, L, caller[c].full, co.left, co.out)
  BY <1>4
<1> HIDE DEF r, m, L
<1>6. /\ \A i \in DOMAIN co.out : co.out[i].key \in L => co.out[i].doc = m[co.out[i].key]
      /\ \A i, j \in DOMAIN co.out : i < j /\ co.out[i].key \in L /\ co.out[j].key \in L
            => Less(Item(r, co.out[i].key, m[co.out[i].key]), Item(r, co.out[j].key, m[co.out[j].key]))
  BY <1>2, <1>5 DEF AnswerFor
<1>7. \A k \in L : \/ \E i \in DOMAIN co.out : co.out[i].key = k
                   \/ /\ caller[c].full
                      /\ \A i \in DOMAIN co.out : co.out[i].key \in L
                            => Less(Item(r, co.out[i].key, m[co.out[i].key]), Item(r, k, m[k]))
  BY <1>2, <1>3, <1>5 DEF AnswerFor
<1> QED
  BY <1>1, <1>6, <1>7 DEF r, m, L

(* For any callers, workers, documents, requests, batches and writes: a scan of the shared *)
(* pass answers as if it had run alone (push_bounded, run_batch_for_collection).          *)
THEOREM ScanStableAnswer == Spec => []StableAnswerExact
<1>1. Inv => StableAnswerExact
  <2> SUFFICES ASSUME Inv, co.at = "decode", co.left = <<>>
               PROVE  LET c == Head(co.batch)
                          r == caller[c].req
                          place(k) == Item(r, k, docs[r.col][k])
                          got == {i \in DOMAIN co.out : co.out[i].key \in stable[c]}
                          keys == {co.out[i].key : i \in got}
                      IN  /\ \A i \in got : co.out[i].doc = docs[r.col][co.out[i].key]
                          /\ \A i, j \in got : i < j => Less(place(co.out[i].key), place(co.out[j].key))
                          /\ \A k \in stable[c] \ keys :
                                caller[c].full /\ \A j \in keys : Less(place(j), place(k))
    BY DEF StableAnswerExact
  <2>1. stable[Head(co.batch)] \subseteq Live(stable[Head(co.batch)], fresh[Head(co.batch)])
    BY DEF Live
  <2> DEFINE c == Head(co.batch)
             place(k) == Item(caller[c].req, k, docs[caller[c].req.col][k])
             L == Live(stable[c], fresh[c])
  <2>2. /\ \A i \in DOMAIN co.out : co.out[i].key \in L =>
                     co.out[i].doc = docs[caller[c].req.col][co.out[i].key]
        /\ \A i, j \in DOMAIN co.out : i < j /\ co.out[i].key \in L /\ co.out[j].key \in L
                     => Less(place(co.out[i].key), place(co.out[j].key))
        /\ \A k \in L : \/ \E i \in DOMAIN co.out : co.out[i].key = k
                       \/ /\ caller[c].full
                          /\ \A i \in DOMAIN co.out : co.out[i].key \in L
                                       => Less(place(co.out[i].key), place(k))
    BY AnswerComplete
  <2> HIDE DEF place, L
  <2>3. stable[c] \subseteq L
    BY <2>1 DEF L
  <2> QED
    BY <2>2, <2>3 DEF place
<1> QED
  BY <1>1, Invariance, PTL

(* In the same generality: an answer that is not cut off holds each batch of inserts whole *)
(* (the entry guard of insert against the guard of run_batch_for_collection).             *)
THEOREM ScanBatchWhole == Spec => []BatchSeenWhole
<1>1. Inv => BatchSeenWhole
  <2> SUFFICES ASSUME Inv, co.at = "decode", co.left = <<>>, ~caller[Head(co.batch)].full,
                      NEW b \in fresh[Head(co.batch)]
               PROVE  b \subseteq {co.out[i].key : i \in DOMAIN co.out}
    BY DEF BatchSeenWhole
  <2>1. b \subseteq Live(stable[Head(co.batch)], fresh[Head(co.batch)])
    BY DEF Live
  <2>2. \A k \in Live(stable[Head(co.batch)], fresh[Head(co.batch)]) :
           \E i \in DOMAIN co.out : co.out[i].key = k
    BY AnswerComplete
  <2> QED
    BY <2>1, <2>2
<1> QED
  BY <1>1, Invariance, PTL
=============================================================================
