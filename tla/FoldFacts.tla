----------------------------- MODULE FoldFacts -----------------------------
(***************************************************************************)
(* What FoldLeft computes, for every operator and every sequence.  The     *)
(* replay of the log is a fold over its entries, so every theorem about    *)
(* logs of any length rests on these facts.  They are stated for a         *)
(* constant operator Op: a module takes them by INSTANCE ... WITH its own  *)
(* operator for Op, whose first argument carries the operator's parameters.*)
(***************************************************************************)
EXTENDS Integers, SequencesExt, SequenceTheorems, WellFoundedInduction, TLAPS

CONSTANT Op(_, _, _)

Fold(p, base, s) == FoldLeft(LAMBDA acc, x : Op(p, acc, x), base, s)
-----------------------------------------------------------------------------
(* Induction, for a set of naturals. *)
LEMMA NatSetInduction ==
    ASSUME NEW T, 0 \in T, \A n \in Nat : n \in T => n + 1 \in T
    PROVE  \A n \in Nat : n \in T
<1> DEFINE R == {ss \in Nat \X Nat : ss[1] < ss[2]}
           U == {n \in Nat : n \notin T}
<1>1. R = OpToRel(<, Nat)
  BY Zenon DEF OpToRel
<1>2. IsWellFoundedOn(R, Nat)
  BY <1>1, NatLessThanWellFounded, Zenon
<1>3. SUFFICES ASSUME U # {} PROVE FALSE
  BY <1>3
<1>4. PICK b \in U : \A y \in U : ~ (<<y, b>> \in R)
  <2> HIDE DEF R
  <2>1. U \subseteq Nat
    OBVIOUS
  <2> HIDE DEF U
  <2> QED
    BY <1>2, <1>3, <2>1, WFMin
<1>5. b # 0 /\ b \in Nat /\ b - 1 \in Nat
  BY <1>4
<1>6. b - 1 \notin U
  <2>1. <<b - 1, b>> \in R
    BY <1>5
  <2> QED
    BY <1>4, <2>1
<1> QED
  BY <1>4, <1>5, <1>6

(* Induction, for a set of sequences. *)
LEMMA SeqSetInduction ==
    ASSUME NEW S, NEW T, <<>> \in T,
           \A s \in Seq(S), x \in S : s \in T => Append(s, x) \in T
    PROVE  \A s \in Seq(S) : s \in T
<1> DEFINE N == {n \in Nat : \A s \in Seq(S) : Len(s) = n => s \in T}
<1>1. 0 \in N
  <2>1. \A s \in Seq(S) : Len(s) = 0 => s = <<>>
    BY EmptySeq
  <2> QED
    BY <2>1
<1>2. ASSUME NEW n \in Nat, n \in N PROVE n + 1 \in N
  <2> SUFFICES ASSUME NEW s \in Seq(S), Len(s) = n + 1 PROVE s \in T
    OBVIOUS
  <2>1. s # <<>>
    OBVIOUS
  <2>2. PICK u \in Seq(S), x \in S : s = Append(u, x)
    BY <2>1, SequenceEmptyOrAppend
  <2>3. Len(u) = n
    BY <2>2
  <2> QED
    BY <1>2, <2>2, <2>3
<1>3. \A n \in Nat : n \in N
  <2> HIDE DEF N
  <2> QED
    BY <1>1, <1>2, NatSetInduction
<1> QED
  BY <1>3

(* A nonempty set of indices has a largest element. *)
LEMMA MaxIndex ==
    \A n \in Nat : \A T \in SUBSET (1 .. n) :
        T # {} => Max(T) \in T /\ \A y \in T : y <= Max(T)
<1> DEFINE Largest(n) == \A T \in SUBSET (1 .. n) : T # {} => \E m \in T : \A y \in T : m >= y
           N == {n \in Nat : Largest(n)}
<1>1. 0 \in N
  <2>1. \A T \in SUBSET (1 .. 0) : T = {}
    OBVIOUS
  <2> QED
    BY <2>1
<1>2. ASSUME NEW n \in Nat, n \in N PROVE n + 1 \in N
  <2> SUFFICES ASSUME NEW T \in SUBSET (1 .. n + 1), T # {}
               PROVE  \E m \in T : \A y \in T : m >= y
    OBVIOUS
  <2>1. CASE n + 1 \in T
    BY <2>1
  <2>2. CASE n + 1 \notin T
    <3>1. T \in SUBSET (1 .. n)
      BY <2>2
    <3> QED
      BY <3>1, <1>2
  <2> QED
    BY <2>1, <2>2
<1>3. \A n \in Nat : n \in N
  <2> HIDE DEF N
  <2> QED
    BY <1>1, <1>2, NatSetInduction
<1> SUFFICES ASSUME NEW n \in Nat, NEW T \in SUBSET (1 .. n), T # {}
             PROVE  Max(T) \in T /\ \A y \in T : y <= Max(T)
  OBVIOUS
<1>4. \E m \in T : \A y \in T : m >= y
  BY <1>3
<1>5. Max(T) \in T /\ \A y \in T : Max(T) >= y
  BY <1>4, Zenon DEF Max
<1> QED
  BY <1>5

LEMMA MaxIsTop ==
    ASSUME NEW n \in Nat, NEW T \in SUBSET (1 .. n + 1), n + 1 \in T
    PROVE  Max(T) = n + 1
<1>1. n + 1 \in Nat /\ T # {}
  OBVIOUS
<1>2. Max(T) \in T /\ \A y \in T : y <= Max(T)
  BY <1>1, MaxIndex
<1>3. Max(T) \in 1 .. n + 1 /\ n + 1 <= Max(T)
  BY <1>2
<1> QED
  BY <1>3
-----------------------------------------------------------------------------
(***************************************************************************)
(* The recursive function behind FoldLeft: its equation has exactly one    *)
(* solution, and the solution for a longer sequence extends it.            *)
(***************************************************************************)
Solves(f, p, base, s, n) ==
    f = [T \in SUBSET (1 .. n) |->
           IF T = {} THEN base ELSE Op(p, f[T \ {Max(T)}], s[Max(T)])]

LEMMA SolutionExists ==
    ASSUME NEW p, NEW base, NEW s
    PROVE  \A n \in Nat : \E f : Solves(f, p, base, s, n)
<1> DEFINE N == {n \in Nat : \E f : Solves(f, p, base, s, n)}
<1>1. 0 \in N
  <2> DEFINE f == [T \in SUBSET (1 .. 0) |-> base]
  <2>1. \A T \in SUBSET (1 .. 0) : T = {}
    OBVIOUS
  <2>2. Solves(f, p, base, s, 0)
    BY <2>1 DEF Solves
  <2> QED
    BY <2>2
<1>2. ASSUME NEW n \in Nat, n \in N PROVE n + 1 \in N
  <2>1. PICK f : Solves(f, p, base, s, n)
    BY <1>2
  <2> DEFINE g == [T \in SUBSET (1 .. n + 1) |->
                     IF n + 1 \in T THEN Op(p, f[T \ {n + 1}], s[n + 1]) ELSE f[T]]
             h == [T \in SUBSET (1 .. n + 1) |->
                     IF T = {} THEN base ELSE Op(p, g[T \ {Max(T)}], s[Max(T)])]
  <2>2. ASSUME NEW T \in SUBSET (1 .. n + 1) PROVE g[T] = h[T]
    <3>1. CASE n + 1 \in T
      <4>1. Max(T) = n + 1
        BY <3>1, MaxIsTop
      <4>2. T \ {n + 1} \in SUBSET (1 .. n + 1) /\ n + 1 \notin T \ {n + 1}
        OBVIOUS
      <4>3. g[T \ {n + 1}] = f[T \ {n + 1}]
        BY <4>2
      <4> QED
        BY <3>1, <4>1, <4>3
    <3>2. CASE T = {}
      <4>1. f[T] = base
        BY <3>2, <2>1 DEF Solves
      <4> QED
        BY <3>2, <4>1
    <3>3. CASE n + 1 \notin T /\ T # {}
      <4>1. T \in SUBSET (1 .. n)
        BY <3>3
      <4>2. Max(T) \in T
        BY <4>1, <3>3, MaxIndex
      <4>3. f[T] = Op(p, f[T \ {Max(T)}], s[Max(T)])
        BY <4>1, <3>3, <2>1 DEF Solves
      <4>4. T \ {Max(T)} \in SUBSET (1 .. n + 1) /\ n + 1 \notin T \ {Max(T)}
        BY <3>3
      <4>5. g[T \ {Max(T)}] = f[T \ {Max(T)}]
        BY <4>4
      <4> QED
        BY <3>3, <4>3, <4>5
    <3> QED
      BY <3>1, <3>2, <3>3
  <2>3. g = h
    BY <2>2
  <2>4. Solves(g, p, base, s, n + 1)
    <3> HIDE DEF g
    <3> QED
      BY <2>3 DEF Solves
  <2> HIDE DEF g
  <2> QED
    BY <2>4
<1> QED
  <2>1. \A n \in Nat : n \in N
    <3> HIDE DEF N
    <3> QED
      BY <1>1, <1>2, NatSetInduction
  <2> QED
    BY <2>1

(* s and t begin with the same m elements. *)
SameTo(s, t, m) == \A i \in 1 .. m : s[i] = t[i]

LEMMA SolutionsAgree ==
    ASSUME NEW p, NEW base, NEW s, NEW t, NEW f, NEW g,
           NEW m \in Nat, NEW n \in Nat, m <= n, SameTo(s, t, m),
           Solves(f, p, base, s, m), Solves(g, p, base, t, n)
    PROVE  f[1 .. m] = g[1 .. m]
<1> DEFINE Agree(j) == j <= m => \A T \in SUBSET (1 .. j) : f[T] = g[T]
           N == {j \in Nat : Agree(j)}
<1>1. 0 \in N
  <2>1. \A T \in SUBSET (1 .. 0) : T = {}
    OBVIOUS
  <2>2. f[{}] = base /\ g[{}] = base
    BY DEF Solves
  <2> QED
    BY <2>1, <2>2
<1>2. ASSUME NEW j \in Nat, j \in N PROVE j + 1 \in N
  <2> SUFFICES ASSUME j + 1 <= m, NEW T \in SUBSET (1 .. j + 1)
               PROVE  f[T] = g[T]
    OBVIOUS
  <2>1. CASE j + 1 \notin T
    <3>1. T \in SUBSET (1 .. j) /\ j <= m
      BY <2>1
    <3> QED
      BY <3>1, <1>2
  <2>2. CASE j + 1 \in T
    <3>1. Max(T) = j + 1
      BY <2>2, MaxIsTop
    <3>2. T \in SUBSET (1 .. m) /\ T \in SUBSET (1 .. n) /\ T # {}
      BY <2>2
    <3>3. f[T] = Op(p, f[T \ {j + 1}], s[j + 1]) /\ g[T] = Op(p, g[T \ {j + 1}], t[j + 1])
      BY <3>1, <3>2 DEF Solves
    <3>4. T \ {j + 1} \in SUBSET (1 .. j) /\ j <= m
      OBVIOUS
    <3>5. f[T \ {j + 1}] = g[T \ {j + 1}]
      BY <3>4, <1>2
    <3>6. s[j + 1] = t[j + 1]
      BY DEF SameTo
    <3> QED
      BY <3>3, <3>5, <3>6
  <2> QED
    BY <2>1, <2>2
<1>3. \A j \in Nat : j \in N
  <2> HIDE DEF N
  <2> QED
    BY <1>1, <1>2, NatSetInduction
<1> QED
  BY <1>3

LEMMA FoldIsSolution ==
    ASSUME NEW p, NEW base, NEW S, NEW s \in Seq(S)
    PROVE  \E f : Solves(f, p, base, s, Len(s)) /\ Fold(p, base, s) = f[1 .. Len(s)]
<1> DEFINE it == CHOOSE f : f = [T \in SUBSET (1 .. Len(s)) |->
                    IF T = {} THEN base ELSE Op(p, f[T \ {Max(T)}], s[Max(T)])]
<1>1. DOMAIN s = 1 .. Len(s) /\ Len(s) \in Nat
  OBVIOUS
<1>2. Fold(p, base, s) = it[1 .. Len(s)]
  BY <1>1 DEF Fold, FoldLeft, MapThenFoldSet
<1>3. \E f : f = [T \in SUBSET (1 .. Len(s)) |->
                    IF T = {} THEN base ELSE Op(p, f[T \ {Max(T)}], s[Max(T)])]
  <2>1. \E f : Solves(f, p, base, s, Len(s))
    BY <1>1, SolutionExists
  <2> QED
    BY <2>1, Zenon DEF Solves
<1>4. it = [T \in SUBSET (1 .. Len(s)) |->
                    IF T = {} THEN base ELSE Op(p, it[T \ {Max(T)}], s[Max(T)])]
  BY <1>3, Zenon
<1> HIDE DEF it
<1> QED
  BY <1>2, <1>4 DEF Solves
-----------------------------------------------------------------------------
(* The two equations that determine a fold ... *)
LEMMA FoldEmpty ==
    ASSUME NEW p, NEW base
    PROVE  Fold(p, base, <<>>) = base
<1>1. <<>> \in Seq({}) /\ Len(<<>>) = 0
  OBVIOUS
<1>2. PICK f : Solves(f, p, base, <<>>, 0) /\ Fold(p, base, <<>>) = f[1 .. 0]
  BY <1>1, FoldIsSolution
<1>3. 1 .. 0 = {}
  OBVIOUS
<1> QED
  BY <1>2, <1>3 DEF Solves

LEMMA FoldAppend ==
    ASSUME NEW p, NEW base, NEW S, NEW s \in Seq(S), NEW x \in S
    PROVE  Fold(p, base, Append(s, x)) = Op(p, Fold(p, base, s), x)
<1> DEFINE t == Append(s, x)
           n == Len(s)
<1>1. t \in Seq(S) /\ Len(t) = n + 1 /\ n \in Nat
  OBVIOUS
<1>2. t[n + 1] = x /\ \A i \in 1 .. n : s[i] = t[i]
  OBVIOUS
<1> HIDE DEF t
<1>3. PICK f : Solves(f, p, base, s, n) /\ Fold(p, base, s) = f[1 .. n]
  BY FoldIsSolution
<1>4. PICK g : Solves(g, p, base, t, n + 1) /\ Fold(p, base, t) = g[1 .. n + 1]
  BY <1>1, FoldIsSolution
<1>5. f[1 .. n] = g[1 .. n]
  <2> DEFINE m == n + 1
  <2>1. m \in Nat /\ n <= m /\ n \in Nat /\ SameTo(s, t, n)
    BY <1>1, <1>2 DEF SameTo
  <2>2. Solves(f, p, base, s, n) /\ Solves(g, p, base, t, m)
    BY <1>3, <1>4
  <2> HIDE DEF n, m
  <2> QED
    BY <2>1, <2>2, SolutionsAgree
<1>6. Max(1 .. n + 1) = n + 1
  <2>1. 1 .. n + 1 \in SUBSET (1 .. n + 1) /\ n + 1 \in 1 .. n + 1
    BY <1>1
  <2> QED
    BY <1>1, <2>1, MaxIsTop
<1>7. 1 .. n + 1 # {} /\ (1 .. n + 1) \ {n + 1} = 1 .. n
  <2>1. n + 1 \in 1 .. n + 1
    BY <1>1
  <2>2. \A i : i \in (1 .. n + 1) \ {n + 1} <=> i \in 1 .. n
    BY <1>1
  <2> QED
    BY <2>1, <2>2
<1>8. g[1 .. n + 1] = Op(p, g[1 .. n], t[n + 1])
  BY <1>4, <1>6, <1>7 DEF Solves
<1> QED
  BY <1>2, <1>3, <1>4, <1>5, <1>8 DEF t

(* ... and how the fold of a longer sequence continues that of its beginning. *)
LEMMA FoldConcat ==
    ASSUME NEW p, NEW base, NEW S, NEW s \in Seq(S), NEW t \in Seq(S)
    PROVE  Fold(p, base, s \o t) = Fold(p, Fold(p, base, s), t)
<1> DEFINE T == {u \in Seq(S) : Fold(p, base, s \o u) = Fold(p, Fold(p, base, s), u)}
<1>1. <<>> \in T
  <2>1. s \o <<>> = s /\ <<>> \in Seq(S)
    BY ConcatEmptySeq, EmptySeq
  <2> QED
    BY <2>1, FoldEmpty
<1>2. ASSUME NEW u \in Seq(S), NEW x \in S, u \in T
      PROVE  Append(u, x) \in T
  <2>1. s \o Append(u, x) = Append(s \o u, x) /\ s \o u \in Seq(S)
    OBVIOUS
  <2>2. Fold(p, base, Append(s \o u, x)) = Op(p, Fold(p, base, s \o u), x)
    <3> DEFINE v == s \o u
    <3>1. v \in Seq(S)
      BY <2>1
    <3> HIDE DEF v
    <3>2. Fold(p, base, Append(v, x)) = Op(p, Fold(p, base, v), x)
      BY <3>1, FoldAppend
    <3> QED
      BY <3>2 DEF v
  <2>3. Fold(p, Fold(p, base, s), Append(u, x)) = Op(p, Fold(p, Fold(p, base, s), u), x)
    BY FoldAppend
  <2>4. Append(u, x) \in Seq(S)
    OBVIOUS
  <2> QED
    BY <1>2, <2>1, <2>2, <2>3, <2>4
<1>3. \A u \in Seq(S) : u \in T
  <2> HIDE DEF T
  <2> QED
    BY <1>1, <1>2, SeqSetInduction
<1> QED
  BY <1>3
=============================================================================
