------------------------------ MODULE FoldLaws ------------------------------
(***************************************************************************)
(* The fold of a sequence runs from left to right: FoldLeft over s is what *)
(* a recursion along s computes (FoldRuns).                                *)
(*                                                                         *)
(* The community modules define FoldLeft by a recursive function over      *)
(* subsets of the domain.  Its operator is a parameter, which the provers  *)
(* do not instantiate in a lemma; they do in an instance, so a module that *)
(* folds a named operator says INSTANCE FoldLaws WITH Op <- that operator. *)
(***************************************************************************)
EXTENDS DataLemmas
CONSTANT Op(_, _, _)   \* the context of the fold, what was folded, an element

(* g is what a fold of s recurses to: it takes the last member of s first. *)
Folding(g, c, base, s, n) ==
    g = [x \in SUBSET (1..n) |-> IF x = {} THEN base ELSE Op(c, g[x \ {Max(x)}], s[Max(x)])]

LEMMA MaxIn ==
    ASSUME NEW n \in Nat, NEW x \in SUBSET (1..n), x # {} PROVE Max(x) \in x
<1> DEFINE S == {m \in Nat : \A y \in SUBSET (1..m) : y # {} => \E z \in y : \A v \in y : v <= z}
<1>1. 0 \in S
  <2>1. 1..0 = {}
    OBVIOUS
  <2> QED
    BY <2>1
<1>2. ASSUME NEW m \in Nat, m \in S PROVE m + 1 \in S
  <2> SUFFICES ASSUME NEW y \in SUBSET (1..(m + 1)), y # {}
               PROVE  \E z \in y : \A v \in y : v <= z
    OBVIOUS
  <2>1. CASE m + 1 \in y
    BY <2>1
  <2>2. CASE m + 1 \notin y
    <3>1. y \in SUBSET (1..m)
      BY <2>2
    <3> QED
      BY <1>2, <3>1
  <2> QED
    BY <2>1, <2>2
<1>3. n \in S
  <2> HIDE DEF S
  <2> QED
    BY <1>1, <1>2, SetInduction
<1>4. \E z \in x : \A v \in x : v <= z
  BY <1>3
<1> QED
  BY <1>4 DEF Max

LEMMA MaxTop ==
    ASSUME NEW n \in Nat PROVE Max(1..(n + 1)) = n + 1 /\ 1..(n + 1) \ {n + 1} = 1..n
<1>1. Max(1..(n + 1)) \in 1..(n + 1) /\ \A v \in 1..(n + 1) : v <= Max(1..(n + 1))
  <2>1. n + 1 \in 1..(n + 1) /\ \A v \in 1..(n + 1) : v <= n + 1
    OBVIOUS
  <2> QED
    BY <2>1 DEF Max
<1>2. n + 1 \in 1..(n + 1)
  OBVIOUS
<1>3. n + 1 <= Max(1..(n + 1))
  BY <1>1, <1>2
<1>4. Max(1..(n + 1)) = n + 1
  BY <1>1, <1>3
<1> QED
  BY <1>4

LEMMA FoldingExists ==
    ASSUME NEW c, NEW base, NEW s, NEW n \in Nat
    PROVE  \E g : Folding(g, c, base, s, n)
<1> DEFINE I == 1..n
           Upto(m) == {x \in SUBSET I : Cardinality(x) <= m}
           Rest(x) == x \ {Max(x)}
           Partly(g, m) ==
               g = [x \in Upto(m) |-> IF x = {} THEN base ELSE Op(c, g[Rest(x)], s[Max(x)])]
           N == {m \in Nat : \E g : Partly(g, m)}
<1>0. IsFiniteSet(I) /\ Cardinality(I) \in Nat
  BY FS_Interval, FS_CardinalityType
<1>a. ASSUME NEW m \in Nat, NEW x \in Upto(m + 1), x # {}
      PROVE  Rest(x) \in Upto(m) /\ Rest(x) \in Upto(m + 1)
  <2>1. Max(x) \in x
    BY <1>a, MaxIn
  <2>2. Rest(x) \in SUBSET I /\ Cardinality(Rest(x)) <= m
    BY <1>0, <2>1, OneLess
  <2>3. Cardinality(Rest(x)) \in Nat
    BY <1>0, <2>2, FS_Subset, FS_CardinalityType
  <2> QED
    BY <2>2, <2>3
<1>1. 0 \in N
  <2> DEFINE g == [x \in Upto(0) |-> base]
  <2>1. \A x \in Upto(0) : x = {}
    BY <1>0, NoneLess
  <2>2. Partly(g, 0)
    BY <2>1
  <2> HIDE DEF Partly
  <2> QED
    BY <2>2
<1>2. ASSUME NEW m \in Nat, m \in N PROVE m + 1 \in N
  <2>1. PICK g : Partly(g, m)
    BY <1>2
  <2> DEFINE h == [x \in Upto(m + 1) |-> IF x = {} THEN base ELSE Op(c, g[Rest(x)], s[Max(x)])]
  <2>2. ASSUME NEW x \in Upto(m + 1), x # {} PROVE h[Rest(x)] = g[Rest(x)]
    <3> DEFINE t == Rest(x)
    <3>1. t \in Upto(m) /\ t \in Upto(m + 1)
      BY <1>a, <2>2
    <3> HIDE DEF t
    <3>2. g[t] = IF t = {} THEN base ELSE Op(c, g[Rest(t)], s[Max(t)])
      BY <2>1, <3>1
    <3>3. h[t] = IF t = {} THEN base ELSE Op(c, g[Rest(t)], s[Max(t)])
      BY <3>1
    <3> QED
      BY <3>2, <3>3 DEF t
  <2>3. Partly(h, m + 1)
    <3> HIDE DEF Rest
    <3> QED
      BY <2>2
  <2> HIDE DEF Partly
  <2>4. m + 1 \in Nat
    OBVIOUS
  <2> QED
    BY <2>3, <2>4
<1>3. Nat \subseteq N
  <2> HIDE DEF N
  <2> QED
    BY <1>1, <1>2, SetInduction
<1>4. Upto(Cardinality(I)) = SUBSET I
  <2>1. \A x \in SUBSET I : Cardinality(x) <= Cardinality(I)
    BY <1>0, FS_Subset
  <2> QED
    BY <2>1
<1>5. PICK g : Partly(g, Cardinality(I))
  BY <1>0, <1>3
<1>6. Folding(g, c, base, s, n)
  BY <1>4, <1>5 DEF Folding
<1> QED
  BY <1>6

(* A fold goes from one prefix to the next. *)
LEMMA FoldingRuns ==
    ASSUME NEW c, NEW base, NEW s, NEW n \in Nat, NEW g, Folding(g, c, base, s, n)
    PROVE  /\ g[{}] = base
           /\ \A k \in Nat : k < n => g[1..(k + 1)] = Op(c, g[1..k], s[k + 1])
<1>1. \A x \in SUBSET (1..n) : g[x] = IF x = {} THEN base ELSE Op(c, g[x \ {Max(x)}], s[Max(x)])
  BY DEF Folding
<1>2. ASSUME NEW k \in Nat, k < n PROVE g[1..(k + 1)] = Op(c, g[1..k], s[k + 1])
  <2>1. 1..(k + 1) \in SUBSET (1..n) /\ 1..(k + 1) # {}
    BY <1>2
  <2> QED
    BY <1>1, <2>1, MaxTop
<1> QED
  BY <1>1, <1>2

Fold(c, base, s) == FoldLeft(LAMBDA r, y : Op(c, r, y), base, s)

(* FoldLeft as the community modules define it.                             *)
LEMMA FoldIsFolding ==
    ASSUME NEW c, NEW base, NEW s, NEW n, DOMAIN s = 1..n
    PROVE  Fold(c, base, s) = (CHOOSE g : Folding(g, c, base, s, n))[1..n]
BY DEF Fold, FoldLeft, MapThenFoldSet, Folding

(* The values a fold takes on, from the base to its result.                 *)
LEMMA FoldRuns ==
    ASSUME NEW c, NEW base, NEW X, NEW s \in Seq(X)
    PROVE  \E h : /\ h[0] = base
                  /\ \A k \in Nat : k < Len(s) => h[k + 1] = Op(c, h[k], s[k + 1])
                  /\ h[Len(s)] = Fold(c, base, s)
<1>0. PICK n \in Nat : n = Len(s) /\ DOMAIN s = 1..n
  OBVIOUS
<1>1. PICK g : Folding(g, c, base, s, n) /\ g[1..n] = Fold(c, base, s)
  <2>1. \E g : Folding(g, c, base, s, n)
    BY FoldingExists
  <2> DEFINE g == CHOOSE f : Folding(f, c, base, s, n)
  <2>2. Folding(g, c, base, s, n)
    BY <2>1
  <2>3. g[1..n] = Fold(c, base, s)
    BY <1>0, FoldIsFolding
  <2> HIDE DEF g
  <2> QED
    BY <2>2, <2>3
<1>2. /\ g[{}] = base
      /\ \A k \in Nat : k < n => g[1..(k + 1)] = Op(c, g[1..k], s[k + 1])
  BY <1>1, FoldingRuns
<1> DEFINE h == [k \in 0..n |-> g[1..k]]
<1>3. h[0] = base /\ h[n] = Fold(c, base, s)
  <2> 1..0 = {}
    OBVIOUS
  <2> QED
    BY <1>1, <1>2
<1>4. ASSUME NEW k \in Nat, k < n PROVE h[k + 1] = Op(c, h[k], s[k + 1])
  BY <1>2, <1>4
<1> HIDE DEF h
<1> QED
  BY <1>0, <1>3, <1>4
=============================================================================
