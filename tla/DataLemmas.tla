----------------------------- MODULE DataLemmas -----------------------------
(***************************************************************************)
(* Laws of the operators on data that the models use: sets of the members  *)
(* of sequences, flattened sequences, prefixes, sums over finite sets,     *)
(* division, and sequences that enumerate a set.                           *)
(*                                                                         *)
(* Induction is over a set of numbers here: the library's principles are   *)
(* about operators, which the provers do not instantiate, but they know    *)
(* that every nonempty set of natural numbers has a least element (WFMin). *)
(* A definition by recursion is a CHOOSE of a function; that there is such *)
(* a function is proved by building it up one argument at a time.          *)
(***************************************************************************)
EXTENDS Integers, Sequences, SequencesExt, SequenceTheorems, FiniteSetTheorems,
        WellFoundedInduction, TLAPS

Less == {p \in Nat \X Nat : p[1] < p[2]}
LEMMA LessWellFounded == IsWellFoundedOn(Less, Nat)
BY NatLessThanWellFounded DEF OpToRel, Less

(* What holds of 0 and goes on from n to n + 1 holds of every number. *)
LEMMA SetInduction ==
    ASSUME NEW S, 0 \in S, \A n \in Nat : n \in S => n + 1 \in S
    PROVE  Nat \subseteq S
<1> DEFINE T == {m \in Nat : m \notin S}
<1> SUFFICES ASSUME T # {} PROVE FALSE
  OBVIOUS
<1>1. \E x \in T : \A y \in T : ~(<<y, x>> \in Less)
  <2>1. T \subseteq Nat
    OBVIOUS
  <2> HIDE DEF T
  <2> QED
    BY <2>1, LessWellFounded, WFMin
<1>2. PICK x \in T : \A y \in T : ~(<<y, x>> \in Less)
  BY <1>1
<1>3. x \in Nat /\ x # 0 /\ x - 1 \in Nat /\ x = (x - 1) + 1
  BY <1>2
<1>4. x - 1 \in T
  BY <1>2, <1>3
<1>5. <<x - 1, x>> \in Less
  BY <1>3 DEF Less
<1> QED
  BY <1>2, <1>4, <1>5

-----------------------------------------------------------------------------
(* ToSet *)

LEMMA ToSetEmpty == ToSet(<<>>) = {}
BY DEF ToSet

LEMMA ToSetConcat ==
    ASSUME NEW X, NEW s \in Seq(X), NEW t \in Seq(X)
    PROVE  ToSet(s \o t) = ToSet(s) \cup ToSet(t)
<1>1. /\ Len(s) \in Nat /\ Len(t) \in Nat /\ DOMAIN s = 1..Len(s) /\ DOMAIN t = 1..Len(t)
      /\ DOMAIN (s \o t) = 1..(Len(s) + Len(t))
      /\ \A i \in 1..(Len(s) + Len(t)) : (s \o t)[i] = IF i <= Len(s) THEN s[i] ELSE t[i - Len(s)]
  BY ConcatProperties
<1>2. ASSUME NEW i \in 1..(Len(s) + Len(t)) PROVE (s \o t)[i] \in ToSet(s) \cup ToSet(t)
  <2>1. CASE i <= Len(s)
    BY <1>1, <2>1 DEF ToSet
  <2>2. CASE ~(i <= Len(s))
    <3>1. i - Len(s) \in 1..Len(t)
      BY <1>1, <2>2
    <3> QED
      BY <1>1, <2>2, <3>1 DEF ToSet
  <2> QED
    BY <2>1, <2>2
<1>3. ASSUME NEW i \in 1..Len(s) PROVE s[i] \in ToSet(s \o t)
  <2>1. i \in 1..(Len(s) + Len(t)) /\ i <= Len(s)
    BY <1>1
  <2> QED
    BY <1>1, <2>1 DEF ToSet
<1>4. ASSUME NEW i \in 1..Len(t) PROVE t[i] \in ToSet(s \o t)
  <2>1. /\ i + Len(s) \in 1..(Len(s) + Len(t)) /\ ~(i + Len(s) <= Len(s))
        /\ (i + Len(s)) - Len(s) = i
    BY <1>1
  <2>2. (s \o t)[i + Len(s)] = t[i]
    BY <1>1, <2>1
  <2> QED
    BY <1>1, <2>1, <2>2 DEF ToSet
<1>5. ToSet(s \o t) \subseteq ToSet(s) \cup ToSet(t)
  BY <1>1, <1>2 DEF ToSet
<1>6. ToSet(s) \subseteq ToSet(s \o t)
  BY <1>1, <1>3 DEF ToSet
<1>7. ToSet(t) \subseteq ToSet(s \o t)
  BY <1>1, <1>4 DEF ToSet
<1> QED
  BY <1>5, <1>6, <1>7

LEMMA ToSetAppend ==
    ASSUME NEW X, NEW s \in Seq(X), NEW x \in X
    PROVE  ToSet(Append(s, x)) = ToSet(s) \cup {x}
<1>1. /\ Len(s) \in Nat /\ DOMAIN s = 1..Len(s) /\ DOMAIN Append(s, x) = 1..(Len(s) + 1)
      /\ \A i \in 1..Len(s) : Append(s, x)[i] = s[i]
      /\ Append(s, x)[Len(s) + 1] = x
  BY AppendProperties
<1>2. 1..(Len(s) + 1) = 1..Len(s) \cup {Len(s) + 1}
  BY <1>1
<1> QED
  BY <1>1, <1>2 DEF ToSet

-----------------------------------------------------------------------------
(* Concatenations of several parts *)

(* Under a name of its own: the provers do more about \o than is needed.    *)
Cat(a, b) == a \o b
LEMMA CatLaws ==
    ASSUME NEW X
    PROVE  /\ \A a, b \in Seq(X) : Cat(a, b) \in Seq(X)
           /\ \A a, b, c \in Seq(X) : Cat(Cat(a, b), c) = Cat(a, Cat(b, c))
           /\ \A a \in Seq(X) : Cat(a, <<>>) = a /\ Cat(<<>>, a) = a
<1>1. \A a, b \in Seq(X) : Cat(a, b) \in Seq(X)
  BY ConcatProperties DEF Cat
<1>2. \A a, b, c \in Seq(X) : Cat(Cat(a, b), c) = Cat(a, Cat(b, c))
  BY ConcatAssociative DEF Cat
<1>3. \A a \in Seq(X) : Cat(a, <<>>) = a /\ Cat(<<>>, a) = a
  BY ConcatEmptySeq DEF Cat
<1> QED
  BY <1>1, <1>2, <1>3

LEMMA FourParts ==
    ASSUME NEW X, NEW a \in Seq(X), NEW b \in Seq(X), NEW c \in Seq(X), NEW d \in Seq(X)
    PROVE  /\ a \o b \o c \o d \in Seq(X)
           /\ ToSet(a \o b \o c \o d) = ToSet(a) \cup ToSet(b) \cup ToSet(c) \cup ToSet(d)
           /\ Len(a \o b \o c \o d) = Len(a) + Len(b) + Len(c) + Len(d)
<1>1. a \o b \in Seq(X) /\ ToSet(a \o b) = ToSet(a) \cup ToSet(b) /\ Len(a \o b) = Len(a) + Len(b)
  BY ToSetConcat, ConcatProperties
<1>2. PICK e \in Seq(X) : e = a \o b
  BY <1>1
<1>3. e \o c \in Seq(X) /\ ToSet(e \o c) = ToSet(e) \cup ToSet(c) /\ Len(e \o c) = Len(e) + Len(c)
  BY ToSetConcat, ConcatProperties
<1>4. PICK f \in Seq(X) : f = e \o c
  BY <1>3
<1>5. f \o d \in Seq(X) /\ ToSet(f \o d) = ToSet(f) \cup ToSet(d) /\ Len(f \o d) = Len(f) + Len(d)
  BY ToSetConcat, ConcatProperties
<1> QED
  BY <1>1, <1>2, <1>3, <1>4, <1>5

(* What leaves the front of one part for the end of the part before, or for *)
(* the end of all, changes nothing.                                         *)
FourCat(a, b, c, d) == Cat(Cat(Cat(a, b), c), d)

LEMMA Moves ==
    ASSUME NEW X
    PROVE  \A a, b, c, d, e \in Seq(X) :
              /\ FourCat(a, b, c, Cat(d, e)) = Cat(FourCat(a, b, c, d), e)
              /\ FourCat(a, b, Cat(c, e), d) = FourCat(a, b, c, Cat(e, d))
              /\ FourCat(a, Cat(b, c), <<>>, d) = FourCat(a, b, c, d)
              /\ FourCat(Cat(a, e), b, c, d) = FourCat(a, Cat(e, b), c, d)
<1>1. SUFFICES ASSUME NEW Y, Y = Seq(X), NEW a \in Y, NEW b \in Y, NEW c \in Y, NEW d \in Y, NEW e \in Y
      PROVE  /\ FourCat(a, b, c, Cat(d, e)) = Cat(FourCat(a, b, c, d), e)
             /\ FourCat(a, b, Cat(c, e), d) = FourCat(a, b, c, Cat(e, d))
             /\ FourCat(a, Cat(b, c), <<>>, d) = FourCat(a, b, c, d)
             /\ FourCat(Cat(a, e), b, c, d) = FourCat(a, Cat(e, b), c, d)
  OBVIOUS
<1>2. /\ \A x, y \in Y : Cat(x, y) \in Y
      /\ \A x, y, z \in Y : Cat(Cat(x, y), z) = Cat(x, Cat(y, z))
      /\ \A x \in Y : Cat(x, <<>>) = x
  <2>1. /\ \A x, y \in Seq(X) : Cat(x, y) \in Seq(X)
        /\ \A x, y, z \in Seq(X) : Cat(Cat(x, y), z) = Cat(x, Cat(y, z))
        /\ \A x \in Seq(X) : Cat(x, <<>>) = x
    BY CatLaws
  <2> QED
    BY <1>1, <2>1
<1>3. Cat(a, b) \in Y /\ Cat(Cat(a, b), c) \in Y /\ Cat(a, Cat(b, c)) \in Y
  BY <1>2
<1>4. FourCat(a, b, c, Cat(d, e)) = Cat(FourCat(a, b, c, d), e)
  BY <1>2, <1>3 DEF FourCat
<1>5. FourCat(a, b, Cat(c, e), d) = FourCat(a, b, c, Cat(e, d))
  <2>1. Cat(Cat(a, b), Cat(c, e)) = Cat(Cat(Cat(a, b), c), e)
    BY <1>2, <1>3
  <2>2. Cat(Cat(Cat(Cat(a, b), c), e), d) = Cat(Cat(Cat(a, b), c), Cat(e, d))
    BY <1>2, <1>3
  <2> QED
    BY <2>1, <2>2, Zenon DEF FourCat
<1>6. FourCat(a, Cat(b, c), <<>>, d) = FourCat(a, b, c, d)
  BY <1>2, <1>3 DEF FourCat
<1>7. Cat(Cat(a, e), b) = Cat(a, Cat(e, b))
  BY <1>2
<1> QED
  BY <1>4, <1>5, <1>6, <1>7, Zenon DEF FourCat

-----------------------------------------------------------------------------
(* FlattenSeq *)

(* f is what FlattenSeq recurses to on the first n members of s. *)
Flattens(f, s, n) == f = [i \in 1..n |-> IF i = 1 THEN s[i] ELSE f[i - 1] \o s[i]]

LEMMA FlattensExists ==
    ASSUME NEW X, NEW s \in Seq(X), NEW n \in Nat PROVE \E f : Flattens(f, s, n)
<1> DEFINE S == {m \in Nat : \E f : Flattens(f, s, m)}
<1>1. 0 \in S
  <2>1. Flattens([i \in {} |-> 0], s, 0)
    BY DEF Flattens
  <2> QED
    BY <2>1
<1>2. ASSUME NEW m \in Nat, m \in S PROVE m + 1 \in S
  <2>1. PICK f : Flattens(f, s, m)
    BY <1>2
  <2> DEFINE g == [i \in 1..(m + 1) |-> IF i = 1 THEN s[i] ELSE f[i - 1] \o s[i]]
  <2>2. \A i \in 1..m : g[i] = f[i]
    <3>1. \A i \in 1..m : f[i] = IF i = 1 THEN s[i] ELSE f[i - 1] \o s[i]
      BY <2>1 DEF Flattens
    <3> QED
      BY <3>1
  <2>3. ASSUME NEW i \in 1..(m + 1) PROVE g[i] = IF i = 1 THEN s[i] ELSE g[i - 1] \o s[i]
    <3>1. CASE i = 1
      BY <3>1
    <3>2. CASE i # 1
      <4>1. i - 1 \in 1..m
        BY <3>2
      <4> QED
        BY <2>2, <3>2, <4>1
    <3> QED
      BY <3>1, <3>2
  <2>4. Flattens(g, s, m + 1)
    BY <2>3 DEF Flattens
  <2> QED
    BY <2>4
<1>3. n \in S
  <2> HIDE DEF S
  <2> QED
    BY <1>1, <1>2, SetInduction
<1> QED
  BY <1>3

LEMMA FlattensAt ==
    ASSUME NEW s, NEW n \in Nat, NEW f, Flattens(f, s, n), NEW k \in Nat, k + 1 \in 1..n
    PROVE  f[k + 1] = IF k = 0 THEN s[k + 1] ELSE f[k] \o s[k + 1]
<1>1. \A i \in 1..n : f[i] = IF i = 1 THEN s[i] ELSE f[i - 1] \o s[i]
  BY DEF Flattens
<1>2. (k + 1) - 1 = k /\ (k + 1 = 1 <=> k = 0)
  OBVIOUS
<1>3. f[k + 1] = IF k + 1 = 1 THEN s[k + 1] ELSE f[(k + 1) - 1] \o s[k + 1]
  BY <1>1
<1> QED
  BY <1>2, <1>3

(* Two that begin with the same members agree as far as they go. *)
LEMMA FlattensSame ==
    ASSUME NEW s, NEW t, NEW n \in Nat, NEW m \in Nat, n <= m, NEW f, NEW g,
           Flattens(f, s, n), Flattens(g, t, m), \A i \in 1..n : s[i] = t[i]
    PROVE  \A i \in 1..n : f[i] = g[i]
<1> DEFINE S == {k \in Nat : k \in 1..n => f[k] = g[k]}
<1>1. 0 \in S
  OBVIOUS
<1>2. ASSUME NEW k \in Nat, k \in S PROVE k + 1 \in S
  <2> SUFFICES ASSUME k + 1 \in 1..n PROVE f[k + 1] = g[k + 1]
    OBVIOUS
  <2>1. f[k + 1] = IF k = 0 THEN s[k + 1] ELSE f[k] \o s[k + 1]
    BY FlattensAt
  <2>2. g[k + 1] = IF k = 0 THEN t[k + 1] ELSE g[k] \o t[k + 1]
    <3>1. k + 1 \in 1..m
      OBVIOUS
    <3> QED
      BY <3>1, FlattensAt
  <2>3. k = 0 \/ f[k] = g[k]
    <3>1. k = 0 \/ k \in 1..n
      OBVIOUS
    <3> QED
      BY <1>2, <3>1
  <2> QED
    BY <2>1, <2>2, <2>3
<1>3. Nat \subseteq S
  <2> HIDE DEF S
  <2> QED
    BY <1>1, <1>2, SetInduction
<1> QED
  BY <1>3

LEMMA FlattenIs ==
    ASSUME NEW X, NEW s \in Seq(X), s # <<>>
    PROVE  \E f : Flattens(f, s, Len(s)) /\ FlattenSeq(s) = f[Len(s)]
<1>1. Len(s) \in Nat /\ Len(s) # 0
  OBVIOUS
<1> DEFINE f == CHOOSE g : Flattens(g, s, Len(s))
<1>2. Flattens(f, s, Len(s))
  BY <1>1, FlattensExists
<1>3. FlattenSeq(s) = f[Len(s)]
  BY <1>1 DEF FlattenSeq, Flattens
<1> QED
  BY <1>2, <1>3

LEMMA FlattenEmpty == FlattenSeq(<<>>) = <<>>
BY DEF FlattenSeq

(* Its value is in Seq(X). *)
LEMMA FlattensType ==
    ASSUME NEW X, NEW s \in Seq(Seq(X)), NEW n \in 0..Len(s), NEW f, Flattens(f, s, n)
    PROVE  \A i \in 1..n : f[i] \in Seq(X)
<1> DEFINE S == {k \in Nat : k \in 1..n => f[k] \in Seq(X)}
<1>1. 0 \in S
  OBVIOUS
<1>2. ASSUME NEW k \in Nat, k \in S PROVE k + 1 \in S
  <2> SUFFICES ASSUME k + 1 \in 1..n PROVE f[k + 1] \in Seq(X)
    OBVIOUS
  <2>1. f[k + 1] = IF k = 0 THEN s[k + 1] ELSE f[k] \o s[k + 1]
    <3>1. n \in Nat
      OBVIOUS
    <3> QED
      BY <3>1, FlattensAt
  <2>2. s[k + 1] \in Seq(X)
    <3>1. k + 1 \in 1..Len(s)
      OBVIOUS
    <3> QED
      BY <3>1, ElementOfSeq
  <2>3. k = 0 \/ f[k] \in Seq(X)
    <3>1. k = 0 \/ k \in 1..n
      OBVIOUS
    <3> QED
      BY <1>2, <3>1
  <2> QED
    BY <2>1, <2>2, <2>3, ConcatProperties
<1>3. Nat \subseteq S
  <2> HIDE DEF S
  <2> QED
    BY <1>1, <1>2, SetInduction
<1> QED
  BY <1>3

LEMMA FlattenType ==
    ASSUME NEW X, NEW s \in Seq(Seq(X)) PROVE FlattenSeq(s) \in Seq(X)
<1>1. CASE s = <<>>
  <2>1. <<>> \in Seq(X)
    OBVIOUS
  <2> QED
    BY <1>1, <2>1, FlattenEmpty
<1>2. CASE s # <<>>
  <2>1. PICK f : Flattens(f, s, Len(s)) /\ FlattenSeq(s) = f[Len(s)]
    BY <1>2, FlattenIs
  <2>2. Len(s) \in 0..Len(s) /\ Len(s) \in 1..Len(s)
    BY <1>2
  <2> QED
    BY <2>1, <2>2, FlattensType
<1> QED
  BY <1>1, <1>2

LEMMA FlattensLonger ==
    ASSUME NEW s, NEW t, Len(s) \in Nat, Len(s) # 0, Len(t) = Len(s) + 1, NEW f, NEW g,
           Flattens(f, s, Len(s)), Flattens(g, t, Len(t)), \A i \in 1..Len(s) : t[i] = s[i]
    PROVE  g[Len(t)] = f[Len(s)] \o t[Len(t)]
<1>1. Len(t) \in Nat /\ Len(s) <= Len(t) /\ Len(s) + 1 \in 1..Len(t)
  OBVIOUS
<1>2. g[Len(s) + 1] = g[Len(s)] \o t[Len(s) + 1]
  BY <1>1, FlattensAt
<1>3. \A i \in 1..Len(s) : s[i] = t[i]
  OBVIOUS
<1>4. \A i \in 1..Len(s) : f[i] = g[i]
  BY <1>1, <1>3, FlattensSame
<1>5. g[Len(s)] = f[Len(s)]
  <2>1. Len(s) \in 1..Len(s)
    OBVIOUS
  <2> QED
    BY <1>4, <2>1
<1> QED
  BY <1>2, <1>5

(* A new last member comes last. *)
LEMMA FlattenLonger ==
    ASSUME NEW X, NEW s \in Seq(Seq(X)), NEW b \in Seq(X), NEW more \in Seq(Seq(X)),
           Len(more) = Len(s) + 1, more[Len(more)] = b, \A i \in 1..Len(s) : more[i] = s[i]
    PROVE  FlattenSeq(more) = FlattenSeq(s) \o b
<1>1. more # <<>>
  OBVIOUS
<1>2. Len(s) \in Nat /\ Len(more) \in Nat /\ Len(s) <= Len(more)
  BY <1>1
<1>3. PICK g : Flattens(g, more, Len(more)) /\ FlattenSeq(more) = g[Len(more)]
  BY <1>1, FlattenIs
<1>4. g[Len(more)] = IF Len(s) = 0 THEN b ELSE g[Len(s)] \o b
  <2>1. Len(s) + 1 \in 1..Len(more)
    BY <1>1, <1>2
  <2> QED
    BY <1>1, <1>2, <1>3, <2>1, FlattensAt
<1>5. CASE s = <<>>
  <2>1. FlattenSeq(more) = b
    BY <1>1, <1>3, <1>4, <1>5
  <2>2. FlattenSeq(s) = <<>> /\ <<>> \o b = b
    BY <1>5, FlattenEmpty, ConcatEmptySeq
  <2> QED
    BY <2>1, <2>2
<1>6. CASE s # <<>>
  <2>1. PICK f : Flattens(f, s, Len(s)) /\ FlattenSeq(s) = f[Len(s)]
    BY <1>6, FlattenIs
  <2>2. Len(s) \in Nat /\ Len(s) # 0
    BY <1>6
  <2>3. Flattens(g, more, Len(more))
    BY <1>3
  <2>4. g[Len(more)] = f[Len(s)] \o more[Len(more)]
    BY <2>1, <2>2, <2>3, FlattensLonger
  <2> QED
    BY <1>3, <2>1, <2>4
<1> QED
  BY <1>5, <1>6

(* The sequence more is s and one b after it. *)
OneLonger(s, b, more) ==
    Len(more) = Len(s) + 1 /\ more[Len(more)] = b /\ \A i \in 1..Len(s) : more[i] = s[i]

LEMMA FlattenOneLonger ==
    ASSUME NEW X, NEW s, NEW b, NEW more,
           s \in Seq(Seq(X)) /\ b \in Seq(X) /\ more \in Seq(Seq(X)) /\ OneLonger(s, b, more)
    PROVE  FlattenSeq(more) = FlattenSeq(s) \o b
<1>1. s \in Seq(Seq(X)) /\ b \in Seq(X) /\ more \in Seq(Seq(X))
  OBVIOUS
<1>2. Len(more) = Len(s) + 1 /\ more[Len(more)] = b /\ \A i \in 1..Len(s) : more[i] = s[i]
  BY DEF OneLonger
<1> QED
  BY <1>1, <1>2, FlattenLonger

LEMMA FlattenAppend ==
    ASSUME NEW X, NEW s \in Seq(Seq(X)), NEW b \in Seq(X)
    PROVE  FlattenSeq(Append(s, b)) = FlattenSeq(s) \o b
<1>1. Append(s, b) \in Seq(Seq(X)) /\ OneLonger(s, b, Append(s, b))
  BY AppendProperties DEF OneLonger
<1> QED
  BY ONLY s \in Seq(Seq(X)), b \in Seq(X), <1>1, FlattenOneLonger

(* The first member comes first. *)
LEMMA FlattenTail ==
    ASSUME NEW X, NEW s \in Seq(Seq(X)), s # <<>>
    PROVE  FlattenSeq(s) = Head(s) \o FlattenSeq(Tail(s))
<1> DEFINE rest == Tail(s)
<1>1. /\ rest \in Seq(Seq(X)) /\ Len(rest) = Len(s) - 1 /\ Head(s) = s[1] /\ Head(s) \in Seq(X)
      /\ \A i \in 1..Len(rest) : rest[i] = s[i + 1]
  BY HeadTailProperties, ElementOfSeq
<1>2. Len(s) \in Nat /\ Len(s) # 0 /\ Len(rest) \in Nat
  BY <1>1
<1> HIDE DEF rest
<1>3. PICK f : Flattens(f, s, Len(s)) /\ FlattenSeq(s) = f[Len(s)]
  BY FlattenIs
<1>4. f[1] = s[1]
  <2>1. 0 + 1 \in 1..Len(s) /\ 0 + 1 = 1
    BY <1>2
  <2> QED
    BY <1>2, <1>3, <2>1, FlattensAt
<1>5. CASE rest = <<>>
  <2>1. FlattenSeq(s) = Head(s)
    <3>1. Len(s) = 1
      BY <1>1, <1>2, <1>5
    <3> QED
      BY <1>1, <1>3, <1>4, <3>1
  <2>2. Head(s) \o <<>> = Head(s)
    BY <1>1, ConcatEmptySeq
  <2> QED
    BY <1>5, <2>1, <2>2, FlattenEmpty DEF rest
<1>6. CASE rest # <<>>
  <2>1. PICK g : Flattens(g, rest, Len(rest)) /\ FlattenSeq(rest) = g[Len(rest)]
    BY <1>1, <1>6, FlattenIs
  <2>2. \A i \in 1..Len(rest) : g[i] \in Seq(X) /\ rest[i] \in Seq(X)
    <3>1. Len(rest) \in 0..Len(rest)
      BY <1>2
    <3> QED
      BY <1>1, <2>1, <3>1, FlattensType, ElementOfSeq
  <2> DEFINE Nums == {k \in Nat : k \in 1..Len(rest) => f[k + 1] = Head(s) \o g[k]}
  <2>3. 0 \in Nums
    OBVIOUS
  <2>4. ASSUME NEW k \in Nat, k \in Nums PROVE k + 1 \in Nums
    <3>0. SUFFICES ASSUME k + 1 \in 1..Len(rest) PROVE f[(k + 1) + 1] = Head(s) \o g[k + 1]
      <4>1. k + 1 \in Nat
        OBVIOUS
      <4> QED
        BY <4>1, Zenon
    <3>1. f[(k + 1) + 1] = f[k + 1] \o s[(k + 1) + 1]
      <4>1. (k + 1) + 1 \in 1..Len(s) /\ k + 1 # 0 /\ k + 1 \in Nat
        BY <1>1, <1>2, <3>0
      <4> QED
        BY <1>2, <1>3, <4>1, FlattensAt
    <3>2. s[(k + 1) + 1] = rest[k + 1]
      BY <1>1, <3>0
    <3>3. g[k + 1] = IF k = 0 THEN rest[k + 1] ELSE g[k] \o rest[k + 1]
      BY <1>2, <2>1, <3>0, FlattensAt
    <3>4. CASE k = 0
      <4>1. k + 1 = 1 /\ g[k + 1] = rest[k + 1]
        BY <3>3, <3>4
      <4>2. f[(k + 1) + 1] = f[k + 1] \o rest[k + 1]
        BY <3>1, <3>2
      <4>3. f[k + 1] = Head(s)
        BY <1>1, <1>4, <4>1
      <4> QED
        BY <4>1, <4>2, <4>3
    <3>5. CASE k # 0
      <4>1. k \in 1..Len(rest) /\ f[k + 1] = Head(s) \o g[k]
        <5>1. k \in 1..Len(rest)
          BY <1>2, <3>0, <3>5
        <5> QED
          BY <2>4, <5>1
      <4>2. (Head(s) \o g[k]) \o rest[k + 1] = Head(s) \o (g[k] \o rest[k + 1])
        <5>1. g[k] \in Seq(X) /\ rest[k + 1] \in Seq(X) /\ Head(s) \in Seq(X)
          BY <1>1, <2>2, <3>0, <4>1
        <5>2. \A a, b, c \in Seq(X) : (a \o b) \o c = a \o (b \o c)
          BY ConcatAssociative
        <5> QED
          BY <5>1, <5>2, Zenon
      <4> QED
        BY <3>1, <3>2, <3>3, <3>5, <4>1, <4>2
    <3> QED
      BY <3>4, <3>5
  <2>5. Len(rest) \in Nums
    <3> HIDE DEF Nums
    <3> QED
      BY <1>2, <2>3, <2>4, SetInduction
  <2>6. f[Len(rest) + 1] = Head(s) \o g[Len(rest)] /\ Len(rest) + 1 = Len(s)
    <3>1. Len(rest) \in 1..Len(rest)
      BY <1>1, <1>2, <1>6
    <3>2. f[Len(rest) + 1] = Head(s) \o g[Len(rest)]
      BY <2>5, <3>1
    <3> QED
      BY <1>1, <1>2, <3>2
  <2> QED
    BY <1>3, <2>1, <2>6 DEF rest
<1> QED
  BY <1>5, <1>6
(* What it holds is what the members hold. *)
Holds(s, k) == UNION {ToSet(s[i]) : i \in 1..k}
LEMMA FlattensToSet ==
    ASSUME NEW X, NEW s \in Seq(Seq(X)), NEW n \in 0..Len(s), NEW f, Flattens(f, s, n)
    PROVE  \A k \in 1..n : ToSet(f[k]) = Holds(s, k)
<1> DEFINE Nums == {k \in Nat : k \in 1..n => ToSet(f[k]) = Holds(s, k)}
<1>1. 0 \in Nums
  OBVIOUS
<1>2. ASSUME NEW k \in Nat, k \in Nums PROVE k + 1 \in Nums
  <2>0. SUFFICES ASSUME k + 1 \in 1..n
                 PROVE  ToSet(f[k + 1]) = Holds(s, k + 1)
    <3>1. k + 1 \in Nat
      OBVIOUS
    <3> QED
      BY <3>1, Zenon
  <2>1. f[k + 1] = IF k = 0 THEN s[k + 1] ELSE f[k] \o s[k + 1]
    <3>1. n \in Nat
      OBVIOUS
    <3> QED
      BY <2>0, <3>1, FlattensAt
  <2>2. CASE k = 0
    <3>1. 1..(k + 1) = {k + 1}
      BY <2>2
    <3>2. {ToSet(s[i]) : i \in 1..(k + 1)} = {ToSet(s[k + 1])}
      BY <3>1
    <3> QED
      BY <2>1, <2>2, <3>2 DEF Holds
  <2>3. CASE k # 0
    <3>1. k \in 1..n /\ k \in 1..Len(s) /\ k + 1 \in 1..Len(s)
      BY <2>0, <2>3
    <3>2. f[k] \in Seq(X) /\ s[k + 1] \in Seq(X)
      BY <3>1, FlattensType, ElementOfSeq
    <3>3. ToSet(f[k + 1]) = ToSet(f[k]) \cup ToSet(s[k + 1])
      BY <2>1, <2>3, <3>2, ToSetConcat
    <3>4. ToSet(f[k]) = Holds(s, k)
      BY <1>2, <3>1
    <3>5. 1..(k + 1) = 1..k \cup {k + 1}
      OBVIOUS
    <3>6. {ToSet(s[i]) : i \in 1..(k + 1)} = {ToSet(s[i]) : i \in 1..k} \cup {ToSet(s[k + 1])}
      BY <3>5
    <3> QED
      BY <3>3, <3>4, <3>6 DEF Holds
  <2> QED
    BY <2>2, <2>3
<1>3. Nat \subseteq Nums
  <2> HIDE DEF Nums
  <2> QED
    BY <1>1, <1>2, SetInduction
<1>4. ASSUME NEW k \in 1..n PROVE ToSet(f[k]) = Holds(s, k)
  <2>1. k \in Nat
    OBVIOUS
  <2>2. k \in Nums
    BY <1>3, <2>1, Zenon
  <2> QED
    BY <2>2, Zenon
<1> QED
  BY <1>4

LEMMA FlattenToSet ==
    ASSUME NEW X, NEW s \in Seq(Seq(X))
    PROVE  ToSet(FlattenSeq(s)) = UNION {ToSet(s[i]) : i \in DOMAIN s}
<1>1. CASE s = <<>>
  BY <1>1, FlattenEmpty DEF ToSet
<1>2. CASE s # <<>>
  <2>1. PICK f : Flattens(f, s, Len(s)) /\ FlattenSeq(s) = f[Len(s)]
    BY <1>2, FlattenIs
  <2>2. Len(s) \in 0..Len(s) /\ Len(s) \in 1..Len(s) /\ DOMAIN s = 1..Len(s)
    BY <1>2
  <2>3. ToSet(f[Len(s)]) = Holds(s, Len(s))
    <3>1. Flattens(f, s, Len(s))
      BY <2>1
    <3>2. \A k \in 1..Len(s) : ToSet(f[k]) = Holds(s, k)
      BY <2>2, <3>1, FlattensToSet, Zenon
    <3> QED
      BY <2>2, <3>2
  <2> QED
    BY <2>1, <2>2, <2>3 DEF Holds
<1> QED
  BY <1>1, <1>2

-----------------------------------------------------------------------------
(* Sums over a finite set: MapThenSumSet takes its elements one by one, as  *)
(* CHOOSE would have it, and the sum does not depend on the order.          *)

SumOf(w, S) == MapThenSumSet(LAMBDA n : w[n], S)
Pick(s) == CHOOSE x \in s : TRUE
Summing(g, w, S) ==
    g = [s \in SUBSET S |-> IF s = {} THEN 0 ELSE w[Pick(s)] + g[s \ {Pick(s)}]]

LEMMA SumOfSumming ==
    ASSUME NEW w, NEW S PROVE SumOf(w, S) = (CHOOSE g : Summing(g, w, S))[S]
BY DEF SumOf, MapThenSumSet, MapThenFoldSet, Summing, Pick

LEMMA PickIn == ASSUME NEW s, s # {} PROVE Pick(s) \in s
BY DEF Pick

(* A set loses one element with its pick. *)
LEMMA OneLess ==
    ASSUME NEW S, IsFiniteSet(S), NEW n \in Nat, NEW s \in SUBSET S, NEW x \in s,
           Cardinality(s) <= n + 1
    PROVE  s \ {x} \in SUBSET S /\ Cardinality(s \ {x}) <= n
<1>1. IsFiniteSet(s) /\ Cardinality(s) \in Nat
  BY FS_Subset, FS_CardinalityType
<1>2. Cardinality(s \ {x}) = Cardinality(s) - 1
  BY <1>1, FS_RemoveElement
<1> QED
  BY <1>1, <1>2

(* There is no element in a set of none. *)
LEMMA NoneLess ==
    ASSUME NEW S, IsFiniteSet(S), NEW s \in SUBSET S, Cardinality(s) <= 0
    PROVE  s = {}
<1>1. IsFiniteSet(s) /\ Cardinality(s) \in Nat
  BY FS_Subset, FS_CardinalityType
<1> QED
  BY <1>1, FS_EmptySet

(* The function that the recursion defines is there. *)
LEMMA SummingExists ==
    ASSUME NEW w, NEW S, IsFiniteSet(S)
    PROVE  \E g : Summing(g, w, S)
<1> DEFINE Upto(n) == {s \in SUBSET S : Cardinality(s) <= n}
           Partly(g, n) ==
               g = [s \in Upto(n) |-> IF s = {} THEN 0 ELSE w[Pick(s)] + g[s \ {Pick(s)}]]
           N == {n \in Nat : \E g : Partly(g, n)}
<1>1. 0 \in N
  <2> DEFINE g == [s \in Upto(0) |-> 0]
  <2>1. \A s \in Upto(0) : s = {}
    BY NoneLess
  <2>2. Partly(g, 0)
    BY <2>1
  <2> HIDE DEF Partly
  <2> QED
    BY <2>2
<1>2. ASSUME NEW n \in Nat, n \in N PROVE n + 1 \in N
  <2>1. PICK g : Partly(g, n)
    BY <1>2
  <2> DEFINE h == [s \in Upto(n + 1) |-> IF s = {} THEN 0 ELSE w[Pick(s)] + g[s \ {Pick(s)}]]
  <2>2. ASSUME NEW s \in Upto(n + 1), s # {} PROVE h[s \ {Pick(s)}] = g[s \ {Pick(s)}]
    <3> DEFINE t == s \ {Pick(s)}
    <3>1. t \in Upto(n)
      BY <2>2, PickIn, OneLess
    <3>2. t \in Upto(n + 1)
      <4>1. IsFiniteSet(t) /\ Cardinality(t) \in Nat
        BY <3>1, FS_Subset, FS_CardinalityType
      <4> QED
        BY <3>1, <4>1
    <3>3. g[t] = IF t = {} THEN 0 ELSE w[Pick(t)] + g[t \ {Pick(t)}]
      <4> HIDE DEF t
      <4> QED
        BY <2>1, <3>1
    <3>4. h[t] = IF t = {} THEN 0 ELSE w[Pick(t)] + g[t \ {Pick(t)}]
      <4> HIDE DEF t
      <4> QED
        BY <3>2
    <3> QED
      BY <3>3, <3>4
  <2>3. Partly(h, n + 1)
    BY <2>2
  <2> HIDE DEF Partly
  <2>4. n + 1 \in Nat
    OBVIOUS
  <2> QED
    BY <2>3, <2>4
<1>3. Nat \subseteq N
  <2> HIDE DEF N
  <2> QED
    BY <1>1, <1>2, SetInduction
<1>4. Cardinality(S) \in Nat /\ Upto(Cardinality(S)) = SUBSET S
  <2>1. Cardinality(S) \in Nat
    BY FS_CardinalityType
  <2>2. \A s \in SUBSET S : Cardinality(s) <= Cardinality(S)
    BY FS_Subset
  <2> QED
    BY <2>1, <2>2
<1>5. PICK g : Partly(g, Cardinality(S))
  BY <1>3, <1>4
<1>6. Summing(g, w, S)
  BY <1>4, <1>5 DEF Summing
<1> QED
  BY <1>6

(* On the subsets of a smaller set it is the one of the smaller set. *)
LEMMA SummingAgrees ==
    ASSUME NEW w, NEW v, NEW S, NEW T, T \subseteq S, IsFiniteSet(S), \A x \in T : w[x] = v[x],
           NEW g, Summing(g, w, S), NEW h, Summing(h, v, T)
    PROVE  \A s \in SUBSET T : g[s] = h[s]
<1> DEFINE N == {n \in Nat : \A s \in SUBSET T : Cardinality(s) <= n => g[s] = h[s]}
<1> IsFiniteSet(T)
  BY FS_Subset
<1>0. /\ \A s \in SUBSET S : g[s] = IF s = {} THEN 0 ELSE w[Pick(s)] + g[s \ {Pick(s)}]
      /\ \A s \in SUBSET T : h[s] = IF s = {} THEN 0 ELSE v[Pick(s)] + h[s \ {Pick(s)}]
  BY DEF Summing
<1>1. 0 \in N
  <2> SUFFICES ASSUME NEW s \in SUBSET T, Cardinality(s) <= 0 PROVE g[s] = h[s]
    OBVIOUS
  <2>1. s = {} /\ s \in SUBSET S
    BY NoneLess
  <2> QED
    BY <2>1, <1>0
<1>2. ASSUME NEW n \in Nat, n \in N PROVE n + 1 \in N
  <2> SUFFICES ASSUME NEW s \in SUBSET T, Cardinality(s) <= n + 1 PROVE g[s] = h[s]
    OBVIOUS
  <2>1. CASE s = {}
    BY <2>1, <1>0
  <2>2. CASE s # {}
    <3>1. Pick(s) \in s /\ w[Pick(s)] = v[Pick(s)] /\ s \in SUBSET S
      BY <2>2, PickIn
    <3>2. s \ {Pick(s)} \in SUBSET T /\ Cardinality(s \ {Pick(s)}) <= n
      BY <3>1, OneLess
    <3>3. g[s \ {Pick(s)}] = h[s \ {Pick(s)}]
      BY <1>2, <3>2
    <3> QED
      BY <1>0, <2>2, <3>1, <3>3
  <2> QED
    BY <2>1, <2>2
<1>3. Nat \subseteq N
  <2> HIDE DEF N
  <2> QED
    BY <1>1, <1>2, SetInduction
<1> SUFFICES ASSUME NEW s \in SUBSET T PROVE g[s] = h[s]
  OBVIOUS
<1>4. IsFiniteSet(s) /\ Cardinality(s) \in Nat
  BY FS_Subset, FS_CardinalityType
<1> QED
  BY <1>3, <1>4

(* The sums of a set's subsets are values of the one function. *)
LEMMA SumIsSumming ==
    ASSUME NEW w, NEW S, IsFiniteSet(S)
    PROVE  \E g : Summing(g, w, S) /\ \A T \in SUBSET S : SumOf(w, T) = g[T]
<1>1. PICK g : Summing(g, w, S)
  BY SummingExists
<1>2. ASSUME NEW T \in SUBSET S PROVE SumOf(w, T) = g[T]
  <2> DEFINE h == CHOOSE f : Summing(f, w, T)
  <2>1. Summing(h, w, T)
    <3>1. \E f : Summing(f, w, T)
      BY SummingExists, FS_Subset
    <3> QED
      BY <3>1
  <2>2. SumOf(w, T) = h[T]
    BY SumOfSumming
  <2> HIDE DEF h
  <2> QED
    BY <1>1, <2>1, <2>2, SummingAgrees
<1> QED
  BY <1>1, <1>2

LEMMA SumStep ==
    ASSUME NEW w, NEW S, IsFiniteSet(S)
    PROVE  SumOf(w, S) = IF S = {} THEN 0 ELSE w[Pick(S)] + SumOf(w, S \ {Pick(S)})
<1>1. PICK g : Summing(g, w, S) /\ \A T \in SUBSET S : SumOf(w, T) = g[T]
  BY SumIsSumming
<1>2. g[S] = IF S = {} THEN 0 ELSE w[Pick(S)] + g[S \ {Pick(S)}]
  BY <1>1 DEF Summing
<1> QED
  BY <1>1, <1>2

(* Only what is summed counts. *)
LEMMA SumSame ==
    ASSUME NEW w, NEW v, NEW S, IsFiniteSet(S), \A x \in S : w[x] = v[x]
    PROVE  SumOf(w, S) = SumOf(v, S)
<1>1. PICK g : Summing(g, w, S) /\ \A T \in SUBSET S : SumOf(w, T) = g[T]
  BY SumIsSumming
<1>2. PICK h : Summing(h, v, S) /\ \A T \in SUBSET S : SumOf(v, T) = h[T]
  BY SumIsSumming
<1>3. S \subseteq S /\ S \in SUBSET S
  OBVIOUS
<1>4. \A s \in SUBSET S : g[s] = h[s]
  <2>1. Summing(g, w, S) /\ Summing(h, v, S) /\ S \subseteq S
    BY <1>1, <1>2
  <2>2. \A x \in S : w[x] = v[x]
    OBVIOUS
  <2> QED
    BY <2>1, <2>2, SummingAgrees, SMTT(60)
<1> QED
  BY <1>1, <1>2, <1>3, <1>4

(* A sum of natural numbers is one. *)
LEMMA SumType ==
    ASSUME NEW w, NEW S, IsFiniteSet(S), \A x \in S : w[x] \in Nat
    PROVE  SumOf(w, S) \in Nat
<1> DEFINE N == {n \in Nat : \A s \in SUBSET S : Cardinality(s) <= n => SumOf(w, s) \in Nat}
<1>1. 0 \in N
  <2> SUFFICES ASSUME NEW s \in SUBSET S, Cardinality(s) <= 0 PROVE SumOf(w, s) \in Nat
    OBVIOUS
  <2>1. s = {}
    BY NoneLess
  <2>2. SumOf(w, s) = IF s = {} THEN 0 ELSE w[Pick(s)] + SumOf(w, s \ {Pick(s)})
    BY SumStep, FS_Subset
  <2> QED
    BY <2>1, <2>2
<1>2. ASSUME NEW n \in Nat, n \in N PROVE n + 1 \in N
  <2> SUFFICES ASSUME NEW s \in SUBSET S, Cardinality(s) <= n + 1 PROVE SumOf(w, s) \in Nat
    OBVIOUS
  <2>0. SumOf(w, s) = IF s = {} THEN 0 ELSE w[Pick(s)] + SumOf(w, s \ {Pick(s)})
    BY SumStep, FS_Subset
  <2>1. CASE s = {}
    BY <2>0, <2>1
  <2>2. CASE s # {}
    <3>1. Pick(s) \in s /\ w[Pick(s)] \in Nat
      BY <2>2, PickIn
    <3>2. s \ {Pick(s)} \in SUBSET S /\ Cardinality(s \ {Pick(s)}) <= n
      BY <3>1, OneLess
    <3>3. SumOf(w, s \ {Pick(s)}) \in Nat
      BY <1>2, <3>2
    <3> QED
      BY <2>0, <2>2, <3>1, <3>3
  <2> QED
    BY <2>1, <2>2
<1>3. Nat \subseteq N
  <2> HIDE DEF N
  <2> QED
    BY <1>1, <1>2, SetInduction
<1>4. Cardinality(S) \in Nat
  BY FS_CardinalityType
<1> QED
  BY <1>3, <1>4

(* Any element may be taken first. *)
LEMMA SumRemove ==
    ASSUME NEW w, NEW S, IsFiniteSet(S), \A x \in S : w[x] \in Nat, NEW x \in S
    PROVE  SumOf(w, S) = w[x] + SumOf(w, S \ {x})
<1> DEFINE Taken(s) == \A y \in s : SumOf(w, s) = w[y] + SumOf(w, s \ {y})
           N == {n \in Nat : \A s \in SUBSET S : Cardinality(s) <= n => Taken(s)}
<1>1. 0 \in N
  <2> SUFFICES ASSUME NEW s \in SUBSET S, Cardinality(s) <= 0 PROVE Taken(s)
    OBVIOUS
  <2> QED
    BY NoneLess
<1>2. ASSUME NEW n \in Nat, n \in N PROVE n + 1 \in N
  <2> SUFFICES ASSUME NEW s \in SUBSET S, Cardinality(s) <= n + 1, NEW y \in s
               PROVE  SumOf(w, s) = w[y] + SumOf(w, s \ {y})
    OBVIOUS
  <2> DEFINE p == Pick(s)
  <2>1. p \in s
    BY PickIn
  <2>2. SumOf(w, s) = w[p] + SumOf(w, s \ {p})
    BY SumStep, FS_Subset
  <2> HIDE DEF p
  <2>3. CASE y = p
    BY <2>2, <2>3
  <2>4. CASE y # p
    <3> DEFINE A == s \ {p}
               B == s \ {y}
               C == s \ {p, y}
    <3>1. /\ A \in SUBSET S /\ Cardinality(A) <= n /\ y \in A /\ A \ {y} = C
          /\ B \in SUBSET S /\ Cardinality(B) <= n /\ p \in B /\ B \ {p} = C
      BY <2>1, <2>4, OneLess
    <3>2. IsFiniteSet(C) /\ (\A z \in C : w[z] \in Nat)
      BY FS_Subset
    <3>3. SumOf(w, C) \in Nat /\ w[p] \in Nat /\ w[y] \in Nat
      <4> HIDE DEF C
      <4> QED
        BY <2>1, <3>2, SumType
    <3> HIDE DEF A, B, C
    <3>4. SumOf(w, A) = w[y] + SumOf(w, C)
      BY <1>2, <3>1
    <3>5. SumOf(w, B) = w[p] + SumOf(w, C)
      BY <1>2, <3>1
    <3>6. SumOf(w, s) = w[p] + SumOf(w, A)
      BY <2>2 DEF A
    <3>7. SumOf(w, s) = w[y] + SumOf(w, B)
      BY <3>3, <3>4, <3>5, <3>6
    <3> QED
      BY <3>7 DEF B
  <2> QED
    BY <2>3, <2>4
<1>3. Nat \subseteq N
  <2> HIDE DEF N
  <2> QED
    BY <1>1, <1>2, SetInduction
<1>4. Cardinality(S) \in Nat
  BY FS_CardinalityType
<1> QED
  BY <1>3, <1>4

(* What one more element adds. *)
LEMMA SumAdd ==
    ASSUME NEW w, NEW S, IsFiniteSet(S), \A x \in S : w[x] \in Nat,
           NEW v, NEW y, v[y] \in Nat, \A x \in S \ {y} : v[x] = w[x]
    PROVE  SumOf(v, S \cup {y}) = SumOf(w, S \ {y}) + v[y]
<1> DEFINE U == S \cup {y}
<1>1. IsFiniteSet(U) /\ y \in U /\ (\A x \in U : v[x] \in Nat) /\ U \ {y} = S \ {y}
  BY FS_AddElement
<1>2. SumOf(v, U) = v[y] + SumOf(v, U \ {y})
  <2> HIDE DEF U
  <2> QED
    BY <1>1, SumRemove
<1>3. IsFiniteSet(S \ {y}) /\ \A x \in S \ {y} : w[x] \in Nat
  BY FS_Subset
<1>4. SumOf(v, S \ {y}) = SumOf(w, S \ {y}) /\ SumOf(w, S \ {y}) \in Nat
  BY <1>3, SumSame, SumType
<1> QED
  BY <1>1, <1>2, <1>4

(* Sums over two parts, and over nothing.                                   *)
LEMMA SumSplit ==
    ASSUME NEW w, NEW S, IsFiniteSet(S), \A x \in S : w[x] \in Nat, NEW T \in SUBSET S
    PROVE  SumOf(w, S) = SumOf(w, T) + SumOf(w, S \ T)
<1> DEFINE Splits(t) == SumOf(w, S) = SumOf(w, t) + SumOf(w, S \ t)
           N == {n \in Nat : \A t \in SUBSET S : Cardinality(t) <= n => Splits(t)}
<1>0. \A t \in SUBSET S : IsFiniteSet(t) /\ Cardinality(t) \in Nat
  BY FS_Subset, FS_CardinalityType
<1>1. Splits({})
  <2>1. SumOf(w, {}) = 0
    BY SumStep, FS_EmptySet
  <2>2. S \ {} = S /\ SumOf(w, S) \in Nat
    BY SumType
  <2> QED
    BY <2>1, <2>2
<1>2. ASSUME NEW t \in SUBSET S, NEW y \in t, Splits(t \ {y}) PROVE Splits(t)
  <2>1. SumOf(w, t) = w[y] + SumOf(w, t \ {y})
    BY <1>0, SumRemove
  <2>2. SumOf(w, S \ (t \ {y})) = w[y] + SumOf(w, (S \ (t \ {y})) \ {y})
    BY <1>0, SumRemove
  <2>3. (S \ (t \ {y})) \ {y} = S \ t
    OBVIOUS
  <2>4. /\ w[y] \in Nat /\ SumOf(w, t \ {y}) \in Nat /\ SumOf(w, S \ t) \in Nat
        /\ SumOf(w, S) \in Nat
    BY <1>0, SumType
  <2> QED
    BY <1>2, <2>1, <2>2, <2>3, <2>4
<1>3. 0 \in N
  <2> SUFFICES ASSUME NEW t \in SUBSET S, Cardinality(t) <= 0 PROVE Splits(t)
    OBVIOUS
  <2>1. t = {}
    BY <1>0, FS_EmptySet
  <2> QED
    BY <1>1, <2>1
<1>4. ASSUME NEW n \in Nat, n \in N PROVE n + 1 \in N
  <2> SUFFICES ASSUME NEW t \in SUBSET S, Cardinality(t) <= n + 1 PROVE Splits(t)
    OBVIOUS
  <2>1. CASE t = {}
    BY <1>1, <2>1
  <2>2. CASE t # {}
    <3>1. PICK y : y \in t
      BY <2>2
    <3>2. Cardinality(t \ {y}) = Cardinality(t) - 1
      BY <1>0, <3>1, FS_RemoveElement
    <3>3. Cardinality(t \ {y}) <= n
      BY <1>0, <3>2
    <3>4. Splits(t \ {y})
      BY <1>4, <3>3
    <3> QED
      BY <1>2, <3>1, <3>4
  <2> QED
    BY <2>1, <2>2
<1>5. Nat \subseteq N
  <2> HIDE DEF N
  <2> QED
    BY <1>3, <1>4, SetInduction
<1> QED
  <2>1. Cardinality(T) \in N /\ Cardinality(T) <= Cardinality(T)
    BY <1>0, <1>5
  <2> QED
    BY <2>1

LEMMA SumNone ==
    ASSUME NEW w, NEW S, IsFiniteSet(S), \A x \in S : w[x] = 0
    PROVE  SumOf(w, S) = 0
<1> DEFINE N == {n \in Nat : \A t \in SUBSET S : Cardinality(t) <= n => SumOf(w, t) = 0}
<1>0. \A t \in SUBSET S : IsFiniteSet(t) /\ Cardinality(t) \in Nat
  BY FS_Subset, FS_CardinalityType
<1>1. 0 \in N
  <2> SUFFICES ASSUME NEW t \in SUBSET S, Cardinality(t) <= 0 PROVE SumOf(w, t) = 0
    OBVIOUS
  <2>1. t = {}
    BY <1>0, FS_EmptySet
  <2> QED
    BY <2>1, SumStep, FS_EmptySet
<1>2. ASSUME NEW n \in Nat, n \in N PROVE n + 1 \in N
  <2> SUFFICES ASSUME NEW t \in SUBSET S, Cardinality(t) <= n + 1 PROVE SumOf(w, t) = 0
    OBVIOUS
  <2>1. CASE t = {}
    BY <2>1, SumStep, FS_EmptySet
  <2>2. CASE t # {}
    <3>1. PICK y : y \in t
      BY <2>2
    <3>2. Cardinality(t \ {y}) = Cardinality(t) - 1
      BY <1>0, <3>1, FS_RemoveElement
    <3>3. SumOf(w, t \ {y}) = 0
      BY <1>0, <1>2, <3>2
    <3>4. SumOf(w, t) = w[y] + SumOf(w, t \ {y})
      BY <1>0, <3>1, SumRemove
    <3> QED
      BY <3>1, <3>3, <3>4
  <2> QED
    BY <2>1, <2>2
<1>3. Nat \subseteq N
  <2> HIDE DEF N
  <2> QED
    BY <1>1, <1>2, SetInduction
<1> QED
  <2>1. Cardinality(S) \in N /\ Cardinality(S) <= Cardinality(S)
    BY <1>0, <1>3
  <2> QED
    BY <2>1

(* What is zero does not count. *)
LEMMA SumWithin ==
    ASSUME NEW w, NEW S, IsFiniteSet(S), \A x \in S : w[x] \in Nat, NEW T \in SUBSET S,
           \A x \in S \ T : w[x] = 0
    PROVE  SumOf(w, S) = SumOf(w, T)
<1>1. IsFiniteSet(T) /\ IsFiniteSet(S \ T)
  BY FS_Subset
<1>2. SumOf(w, S \ T) = 0
  BY <1>1, SumNone
<1>3. SumOf(w, S) = SumOf(w, T) + SumOf(w, S \ T)
  BY SumSplit
<1>4. SumOf(w, T) \in Nat
  BY <1>1, SumType
<1> QED
  BY <1>2, <1>3, <1>4

(* One more of what is counted. *)
LEMMA SumBump ==
    ASSUME NEW w, NEW S, IsFiniteSet(S), \A y \in S : w[y] \in Nat, NEW v, NEW x \in S,
           v[x] = w[x] + 1, \A y \in S \ {x} : v[y] = w[y]
    PROVE  SumOf(v, S) = SumOf(w, S) + 1
<1>1. \A y \in S : v[y] \in Nat
  <2>1. \A n \in Nat : n + 1 \in Nat
    OBVIOUS
  <2> QED
    BY <2>1
<1>2. SumOf(v, S) = v[x] + SumOf(v, S \ {x})
  BY <1>1, SumRemove
<1>3. SumOf(w, S) = w[x] + SumOf(w, S \ {x})
  BY SumRemove
<1>4. IsFiniteSet(S \ {x})
  BY FS_Subset
<1>5. SumOf(v, S \ {x}) = SumOf(w, S \ {x}) /\ SumOf(w, S \ {x}) \in Nat
  BY <1>4, SumSame, SumType
<1> QED
  BY <1>2, <1>3, <1>5

-----------------------------------------------------------------------------
(* Division, which rounds down, and the rest that % leaves.                *)
LEMMA DivBounds ==
    ASSUME NEW x \in Int, NEW d \in Nat, d > 0
    PROVE  x \div d \in Int /\ d * (x \div d) <= x /\ x < d * (x \div d) + d
OBVIOUS

LEMMA DivMod ==
    ASSUME NEW x \in Int, NEW d \in Nat, d > 0
    PROVE  x % d \in 0..(d - 1) /\ x % d = x - d * (x \div d)
OBVIOUS

LEMMA DivWhole ==
    ASSUME NEW x \in Int, NEW d \in Nat, d > 0
    PROVE  x = d * (x \div d) + (x % d)
<1> DEFINE q == x \div d
           r == x % d
<1>1. q \in Int /\ r \in Int /\ r = x - d * q
  BY DivBounds, DivMod
<1> HIDE DEF q, r
<1>2. x = d * q + r
  BY <1>1
<1> QED
  BY <1>2 DEF q, r

LEMMA DivIs ==
    ASSUME NEW x \in Int, NEW d \in Nat, d > 0, NEW q \in Int, NEW r \in 0..(d - 1), x = d * q + r
    PROVE  x \div d = q /\ x % d = r
OBVIOUS

LEMMA DivMonotone ==
    ASSUME NEW x \in Int, NEW y \in Int, x <= y, NEW d \in Nat, d > 0
    PROVE  x \div d <= y \div d
OBVIOUS

LEMMA DivDiv ==
    ASSUME NEW x \in Int, NEW a \in Nat, NEW b \in Nat, a > 0, b > 0
    PROVE  (x \div a) \div b = x \div (a * b)
OBVIOUS

(* Places in groups of d are as far apart as their groups at least. *)
LEMMA DivCloser ==
    ASSUME NEW x \in Int, NEW y \in Int, NEW d \in Nat, d > 0, NEW k \in Nat, k > 0, x - y < k
    PROVE  x \div d - y \div d < k
OBVIOUS

(* Places k above the first bin s, in groups. *)
LEMMA Groups ==
    ASSUME NEW s \in Int, NEW steps \in Nat, steps > 0, NEW k \in Nat
    PROVE  /\ (s + k) \div steps = s \div steps + (k + (s % steps)) \div steps
           /\ (k + (s % steps)) \div steps \in 0..k
<1>1. s % steps \in 0..(steps - 1) /\ s = steps * (s \div steps) + (s % steps)
  BY DivMod, DivWhole
<1> DEFINE o == s % steps
           base == s \div steps
           q == (k + o) \div steps
           r == (k + o) % steps
<1>2. base \in Int /\ q \in Int /\ o \in 0..(steps - 1)
  BY <1>1, DivBounds
<1>3. k + o = steps * q + r /\ r \in 0..(steps - 1)
  BY <1>2, DivMod, DivWhole
<1>4. s = steps * base + o
  BY <1>1
<1> HIDE DEF o, base, q, r
<1>5. s + k = steps * (base + q) + r
  <2>1. steps * (base + q) = steps * base + steps * q
    BY <1>2
  <2> QED
    BY <1>2, <1>3, <1>4, <2>1
<1>6. (s + k) \div steps = base + q
  BY <1>2, <1>3, <1>5, DivIs
<1>7. q >= 0
  BY <1>2, <1>3
<1>8. q <= k
  <2> SUFFICES ASSUME q >= k + 1 PROVE FALSE
    BY <1>2
  <2>1. steps * q >= steps * (k + 1)
    BY <1>2
  <2>2. steps * (k + 1) >= k + steps
    OBVIOUS
  <2> QED
    BY <1>2, <1>3, <2>1, <2>2
<1>9. q \in 0..k
  BY <1>2, <1>7, <1>8
<1> QED
  BY <1>6, <1>9, Zenon DEF o, base, q

(* From one place to the next a group goes on or the next one begins. *)
LEMMA NextGroup ==
    ASSUME NEW a \in Nat, NEW steps \in Nat, steps > 0
    PROVE  (a + 1) \div steps =
               IF (a + 1) % steps = 0 THEN a \div steps + 1 ELSE a \div steps
<1> DEFINE q == a \div steps
           r == a % steps
<1>1. q \in Int /\ r \in 0..(steps - 1) /\ a = steps * q + r
  BY DivMod, DivBounds, DivWhole
<1> HIDE DEF q, r
<1>2. CASE r = steps - 1
  <2>1. a + 1 = steps * (q + 1) + 0
    BY <1>1, <1>2
  <2>2. (a + 1) \div steps = q + 1 /\ (a + 1) % steps = 0
    BY <1>1, <2>1, DivIs
  <2> QED
    BY <2>2 DEF q
<1>3. CASE r # steps - 1
  <2>1. a + 1 = steps * q + (r + 1) /\ r + 1 \in 0..(steps - 1)
    BY <1>1, <1>3
  <2>2. (a + 1) \div steps = q /\ (a + 1) % steps = r + 1
    BY <1>1, <2>1, DivIs
  <2> QED
    BY <1>1, <2>2 DEF q
<1> QED
  BY <1>2, <1>3

-----------------------------------------------------------------------------
(* No two places of s hold members with the same key. *)
Apart(key, s) == \A i, j \in DOMAIN s : key[s[i]] = key[s[j]] => i = j

LEMMA ApartConcat ==
    ASSUME NEW X, NEW key, NEW s \in Seq(X), NEW t \in Seq(X), Apart(key, s), Apart(key, t),
           \A x \in ToSet(s), y \in ToSet(t) : key[x] # key[y]
    PROVE  Apart(key, s \o t)
<1> DEFINE st == s \o t
<1>1. /\ Len(s) \in Nat /\ Len(t) \in Nat /\ DOMAIN s = 1..Len(s) /\ DOMAIN t = 1..Len(t)
      /\ DOMAIN st = 1..(Len(s) + Len(t))
      /\ \A i \in 1..(Len(s) + Len(t)) : st[i] = IF i <= Len(s) THEN s[i] ELSE t[i - Len(s)]
  BY ConcatProperties
<1> HIDE DEF st
<1>2. ASSUME NEW i \in DOMAIN st, i <= Len(s) PROVE i \in DOMAIN s /\ st[i] = s[i] /\ st[i] \in ToSet(s)
  <2>1. i \in DOMAIN s /\ st[i] = s[i]
    BY <1>1, <1>2
  <2> QED
    BY <2>1 DEF ToSet
<1>3. ASSUME NEW i \in DOMAIN st, ~(i <= Len(s))
      PROVE  i - Len(s) \in DOMAIN t /\ st[i] = t[i - Len(s)] /\ st[i] \in ToSet(t)
  <2>1. i - Len(s) \in DOMAIN t /\ st[i] = t[i - Len(s)]
    BY <1>1, <1>3
  <2> QED
    BY <2>1 DEF ToSet
<1> SUFFICES ASSUME NEW i \in DOMAIN st, NEW j \in DOMAIN st, key[st[i]] = key[st[j]]
             PROVE  i = j
  BY DEF Apart, st
<1>4. CASE i <= Len(s) /\ j <= Len(s)
  BY <1>2, <1>4 DEF Apart
<1>5. CASE ~(i <= Len(s)) /\ ~(j <= Len(s))
  <2>1. i - Len(s) = j - Len(s)
    BY <1>3, <1>5 DEF Apart
  <2> QED
    BY <1>1, <2>1
<1>6. CASE i <= Len(s) /\ ~(j <= Len(s))
  BY <1>2, <1>3, <1>6
<1>7. CASE ~(i <= Len(s)) /\ j <= Len(s)
  BY <1>2, <1>3, <1>7
<1> QED
  BY <1>4, <1>5, <1>6, <1>7

(* Members that are apart, each in itself, stay so in one sequence. *)
LEMMA FlattenApart ==
    ASSUME NEW X, NEW key, NEW s \in Seq(Seq(X)), \A i \in DOMAIN s : Apart(key, s[i]),
           \A i, j \in DOMAIN s : i # j =>
               \A x \in ToSet(s[i]), y \in ToSet(s[j]) : key[x] # key[y]
    PROVE  Apart(key, FlattenSeq(s))
<1>1. CASE s = <<>>
  BY <1>1, FlattenEmpty DEF Apart
<1>2. CASE s # <<>>
  <2>1. PICK f : Flattens(f, s, Len(s)) /\ FlattenSeq(s) = f[Len(s)]
    BY <1>2, FlattenIs
  <2>2. Len(s) \in Nat /\ Len(s) \in 0..Len(s) /\ Len(s) \in 1..Len(s) /\ DOMAIN s = 1..Len(s)
    BY <1>2
  <2> DEFINE N == {k \in Nat : k \in 1..Len(s) => Apart(key, f[k])}
  <2>3. 0 \in N
    OBVIOUS
  <2>4. ASSUME NEW k \in Nat, k \in N PROVE k + 1 \in N
    <3> SUFFICES ASSUME k + 1 \in 1..Len(s) PROVE Apart(key, f[k + 1])
      <4>1. k + 1 \in Nat
        OBVIOUS
      <4> QED
        BY <4>1, Zenon
    <3>1. f[k + 1] = IF k = 0 THEN s[k + 1] ELSE f[k] \o s[k + 1]
      <4>1. \A n \in Nat : \A g : Flattens(g, s, n) /\ k + 1 \in 1..n
                 => g[k + 1] = IF k = 0 THEN s[k + 1] ELSE g[k] \o s[k + 1]
        BY FlattensAt
      <4>2. Len(s) \in Nat /\ Flattens(f, s, Len(s)) /\ k + 1 \in 1..Len(s)
        BY <2>1, <2>2
      <4> QED
        BY ONLY <4>1, <4>2
    <3>2. k + 1 \in DOMAIN s /\ s[k + 1] \in Seq(X)
      BY <2>2, ElementOfSeq
    <3>3. CASE k = 0
      BY <3>1, <3>2, <3>3
    <3>4. CASE k # 0
      <4>1. k \in 1..Len(s)
        BY <2>2, <3>4
      <4>2. f[k] \in Seq(X) /\ ToSet(f[k]) = Holds(s, k)
        BY <2>1, <2>2, <4>1, FlattensType, FlattensToSet
      <4>3. \A x \in ToSet(f[k]), y \in ToSet(s[k + 1]) : key[x] # key[y]
        <5>1. \A x \in ToSet(f[k]) : \E i \in 1..k : x \in ToSet(s[i])
          BY <4>2 DEF Holds
        <5>2. \A i \in 1..k : i \in DOMAIN s /\ i # k + 1
          BY <2>2, <4>1
        <5> QED
          BY <3>2, <5>1, <5>2
      <4>4. Apart(key, f[k])
        BY <2>4, <4>1
      <4> QED
        BY <3>1, <3>2, <3>4, <4>2, <4>3, <4>4, ApartConcat
    <3> QED
      BY <3>3, <3>4
  <2>5. Len(s) \in N
    <3> HIDE DEF N
    <3> QED
      BY <2>2, <2>3, <2>4, SetInduction
  <2> QED
    BY <2>1, <2>2, <2>5
<1> QED
  BY <1>1, <1>2

-----------------------------------------------------------------------------
(* SetToSeqs: the orders of a finite set. *)
LEMMA OrderOfSet ==
    ASSUME NEW S, IsFiniteSet(S), NEW f \in SetToSeqs(S)
    PROVE  f \in Seq(S) /\ ToSet(f) = S /\ \A i, j \in DOMAIN f : f[i] = f[j] => i = j
<1> DEFINE n == Cardinality(S)
<1>1. n \in Nat
  BY FS_CardinalityType
<1>2. f \in [1..n -> S] /\ \A i, j \in 1..n : i # j => f[i] # f[j]
  BY DEF SetToSeqs
<1> HIDE DEF n
<1>3. f \in Injection(1..n, S)
  BY <1>2 DEF Injection, IsInjective
<1>4. \A m \in Nat : IsFiniteSet(1..m) /\ Cardinality(1..m) = m
  BY FS_Interval
<1>5. f \in Surjection(1..n, S)
  BY <1>1, <1>3, <1>4, FS_Injection DEF n
<1>6. f \in Seq(S) /\ DOMAIN f = 1..n
  BY <1>1, <1>2
<1>7. ToSet(f) = S
  BY <1>2, <1>5, <1>6 DEF ToSet, Surjection
<1> QED
  BY <1>2, <1>6, <1>7

(* There are finitely many members. *)
LEMMA ToSetFinite ==
    ASSUME NEW X, NEW s \in Seq(X) PROVE IsFiniteSet(ToSet(s))
<1>1. Len(s) \in Nat /\ DOMAIN s = 1..Len(s)
  OBVIOUS
<1>2. IsFiniteSet(1..Len(s))
  BY <1>1, FS_Interval
<1>3. s \in [1..Len(s) -> ToSet(s)] /\ \A x \in ToSet(s) : \E i \in 1..Len(s) : s[i] = x
  BY <1>1 DEF ToSet
<1>4. s \in Surjection(1..Len(s), ToSet(s))
  BY <1>3 DEF Surjection
<1> QED
  BY <1>2, <1>4, FS_Surjection

-----------------------------------------------------------------------------
(* A flattened sequence grows by a member at a time. *)
LEMMA FlattenGrows ==
    ASSUME NEW X, NEW s \in Seq(Seq(X))
    PROVE  \E g : /\ g[0] = <<>> /\ g[Len(s)] = FlattenSeq(s)
                  /\ \A k \in Nat : k <= Len(s) => g[k] \in Seq(X)
                  /\ \A k \in Nat : k < Len(s) => g[k + 1] = g[k] \o s[k + 1]
<1>1. CASE s = <<>>
  <2> DEFINE g == [k \in {0} |-> <<>>]
  <2>1. g[0] = <<>> /\ Len(s) = 0 /\ FlattenSeq(s) = <<>> /\ <<>> \in Seq(X)
    BY <1>1, FlattenEmpty
  <2>2. \A k \in Nat : k <= 0 => k = 0
    OBVIOUS
  <2>3. Len(s) = 0 /\ \A k \in Nat : k <= Len(s) => k = 0
    BY <1>1
  <2>4. \A k \in Nat : ~(k < Len(s))
    BY <2>3
  <2> HIDE DEF g
  <2> QED
    BY <2>1, <2>3, <2>4
<1>2. CASE s # <<>>
  <2>1. PICK n, f : n = Len(s) /\ Flattens(f, s, n) /\ FlattenSeq(s) = f[n]
    BY <1>2, FlattenIs
  <2>2. n \in Nat /\ n \in 0..Len(s) /\ n \in 1..n /\ DOMAIN s = 1..n
    BY <1>2, <2>1
  <2>3. \A k \in 1..n : f[k] \in Seq(X)
    BY <2>1, <2>2, FlattensType
  <2> DEFINE g == [k \in 0..n |-> IF k = 0 THEN <<>> ELSE f[k]]
  <2>4. g[0] = <<>> /\ g[n] = FlattenSeq(s)
    BY <2>1, <2>2
  <2>5. \A k \in Nat : k <= n => g[k] \in Seq(X)
    <3>1. <<>> \in Seq(X)
      OBVIOUS
    <3> QED
      BY <2>3, <3>1
  <2>6. ASSUME NEW k \in Nat, k < n PROVE g[k + 1] = g[k] \o s[k + 1]
    <3>1. k + 1 \in 1..n /\ g[k + 1] = f[k + 1] /\ s[k + 1] \in Seq(X)
      BY <2>2, <2>6, ElementOfSeq
    <3>2. f[k + 1] = IF k = 0 THEN s[k + 1] ELSE f[k] \o s[k + 1]
      BY <2>1, <2>2, <3>1, FlattensAt
    <3>3. CASE k = 0
      <4>1. g[k] = <<>> /\ \A t \in Seq(X) : <<>> \o t = t
        BY <2>2, <3>3, ConcatEmptySeq
      <4> QED
        BY <3>1, <3>2, <3>3, <4>1
    <3>4. CASE k # 0
      <4>1. g[k] = f[k]
        BY <2>2, <2>6, <3>4
      <4> QED
        BY <3>1, <3>2, <3>4, <4>1
    <3> QED
      BY <3>3, <3>4
  <2> HIDE DEF g
  <2> QED
    BY <2>1, <2>4, <2>5, <2>6
<1> QED
  BY <1>1, <1>2

-----------------------------------------------------------------------------
(* Writing over the members of a kept sequence: s begins with g. *)
Put(s, n, x) == IF n <= Len(s) THEN [s EXCEPT ![n] = x] ELSE Append(s, x)
Begins(s, g) == Len(g) <= Len(s) /\ \A m \in 1..Len(g) : s[m] = g[m]

(* The next member is overwritten, or appended when there is none. *)
LEMMA PutNext ==
    ASSUME NEW X, NEW s \in Seq(X), NEW g \in Seq(X), Begins(s, g), NEW x \in X, NEW t,
           t = Put(s, Len(g) + 1, x)
    PROVE  /\ t \in Seq(X) /\ Begins(t, g)
           /\ g \o <<x>> \in Seq(X) /\ Begins(t, g \o <<x>>) /\ Len(g \o <<x>>) = Len(g) + 1
<1>1. /\ Len(s) \in Nat /\ Len(g) \in Nat /\ DOMAIN s = 1..Len(s)
      /\ Len(g) <= Len(s) /\ \A m \in 1..Len(g) : s[m] = g[m]
  BY DEF Begins
<1> DEFINE gx == g \o <<x>>
<1>2. /\ gx \in Seq(X) /\ Len(gx) = Len(g) + 1
      /\ gx[Len(g) + 1] = x /\ \A m \in 1..Len(g) : gx[m] = g[m]
  <2>1. <<x>> \in Seq(X) /\ Len(<<x>>) = 1 /\ <<x>>[1] = x
    OBVIOUS
  <2>2. /\ gx \in Seq(X) /\ Len(gx) = Len(g) + Len(<<x>>)
        /\ \A m \in 1..(Len(g) + Len(<<x>>)) :
              gx[m] = IF m <= Len(g) THEN g[m] ELSE <<x>>[m - Len(g)]
    BY <2>1, ConcatProperties
  <2> HIDE DEF gx
  <2>3. Len(g) + 1 \in 1..(Len(g) + 1) /\ ~(Len(g) + 1 <= Len(g)) /\ (Len(g) + 1) - Len(g) = 1
    BY <1>1
  <2> QED
    BY <1>1, <2>1, <2>2, <2>3
<1> HIDE DEF gx
<1>3. t \in Seq(X) /\ Len(g) + 1 <= Len(t) /\ t[Len(g) + 1] = x /\ \A m \in 1..Len(g) : t[m] = s[m]
  <2>1. CASE Len(g) + 1 <= Len(s)
    <3>1. t = [s EXCEPT ![Len(g) + 1] = x] /\ Len(g) + 1 \in 1..Len(s)
      BY <1>1, <2>1 DEF Put
    <3>2. t \in Seq(X) /\ Len(t) = Len(s) /\ t[Len(g) + 1] = x
          /\ \A m \in 1..Len(s) : m # Len(g) + 1 => t[m] = s[m]
      BY <1>1, <3>1
    <3> QED
      BY <1>1, <2>1, <3>2
  <2>2. CASE ~(Len(g) + 1 <= Len(s))
    <3>1. t = Append(s, x) /\ Len(s) = Len(g)
      BY <1>1, <2>2 DEF Put
    <3>2. /\ t \in Seq(X) /\ Len(t) = Len(s) + 1 /\ t[Len(t)] = x
          /\ \A i \in 1..Len(s) : t[i] = s[i]
      BY <3>1, AppendProperties
    <3> Len(g) \in Nat
      BY <1>1
    <3>3. Len(t) = Len(g) + 1 /\ t[Len(g) + 1] = x
      BY <3>1, <3>2
    <3>4. \A m \in 1..Len(g) : t[m] = s[m]
      BY <3>1, <3>2
    <3>5. Len(g) + 1 <= Len(t)
      BY ONLY Len(g) \in Nat, <3>3
    <3> QED
      BY ONLY <3>5, <3>2, <3>3, <3>4
  <2> QED
    BY <2>1, <2>2
<1>4. Len(t) \in Nat
  BY <1>3
<1>5. Begins(t, g)
  BY <1>1, <1>3, <1>4 DEF Begins
<1>6. Begins(t, gx)
  BY <1>1, <1>2, <1>3, <1>4 DEF Begins
<1> QED
  BY <1>2, <1>3, <1>5, <1>6 DEF gx

LEMMA BeginsWith ==
    ASSUME NEW X, NEW s \in Seq(X), NEW g \in Seq(X), Begins(s, g)
    PROVE  SubSeq(s, 1, Len(g)) = g
<1>1. /\ Len(s) \in Nat /\ Len(g) \in Nat /\ Len(g) <= Len(s)
      /\ \A m \in 1..Len(g) : s[m] = g[m]
  BY DEF Begins
<1>2. /\ SubSeq(s, 1, Len(g)) = [m \in 1..Len(g) |-> s[m]]
  BY <1>1
<1>3. g = [m \in 1..Len(g) |-> g[m]]
  OBVIOUS
<1> QED
  BY <1>1, <1>2, <1>3
=============================================================================
