----------------------------- MODULE DataInduction -----------------------------
(***************************************************************************)
(* Induction on the natural numbers stated on sets, so that it can be cited *)
(* with a set in place of a predicate, and what follows from it for         *)
(* functions defined by recursion on an index.                              *)
(***************************************************************************)
EXTENDS Integers, SequencesExt, PowersOfTwo, SequenceTheorems, WellFoundedInduction, TLAPS

(* A set of numbers that holds 0 and the successor of each of its members   *)
(* holds them all.                                                          *)
LEMMA SetInduction ==
    ASSUME NEW S \in SUBSET Nat, 0 \in S, \A n \in S : n + 1 \in S
    PROVE  S = Nat
<1> SUFFICES ASSUME Nat \ S # {} PROVE FALSE
  OBVIOUS
<1> DEFINE R == OpToRel(<, Nat)
           T == Nat \ S
<1>1. IsWellFoundedOn(R, Nat)
  BY NatLessThanWellFounded
<1>2. \A x, y \in Nat : x < y => <<x, y>> \in R
  BY DEF OpToRel
<1> HIDE DEF R
<1>3. PICK x \in T : \A y \in T : ~ (<<y, x>> \in R)
  <2>1. T \subseteq Nat /\ T # {}
    OBVIOUS
  <2> HIDE DEF T
  <2> QED
    BY <1>1, <2>1, WFMin
<1>4. x # 0 /\ x \in Nat
  BY <1>3
<1>5. x - 1 \in Nat /\ x - 1 < x /\ (x - 1) + 1 = x
  BY <1>4
<1>6. x - 1 \in T
  BY <1>3, <1>5
<1> QED
  BY <1>2, <1>3, <1>4, <1>5, <1>6

(* The same up to a bound.                                                  *)
LEMMA UpTo ==
    ASSUME NEW n \in Nat, NEW S, 0 \in S,
           \A i \in 0..(n - 1) : i \in S => i + 1 \in S
    PROVE  0..n \subseteq S
<1> DEFINE T == {i \in Nat : i <= n => i \in S}
<1>1. T \in SUBSET Nat /\ 0 \in T
  OBVIOUS
<1>2. ASSUME NEW i \in T PROVE i + 1 \in T
  OBVIOUS
<1> HIDE DEF T
<1>3. T = Nat
  BY <1>1, <1>2, SetInduction
<1> QED
  BY <1>3 DEF T

(* What a recursion on 0..n defines: a start, and a step from what is at    *)
(* i - 1 to what is at i.                                                   *)
Recursion(f, n, a, g) ==
    f = [i \in 0..n |-> IF i = 0 THEN a ELSE g[<<i, f[i - 1]>>]]

(* There is such a function, and its values stay where the step leads.      *)
LEMMA RecursionExists ==
    ASSUME NEW V, NEW a \in V, NEW n \in Nat, NEW g \in [(1..n) \X V -> V]
    PROVE  \E f \in [0..n -> V] : Recursion(f, n, a, g)
<1> DEFINE S == {m \in 0..n : \E f \in [0..m -> V] : Recursion(f, m, a, g)}
<1>1. 0 \in S
  <2> DEFINE f0 == [i \in 0..0 |-> a]
  <2>1. f0 \in [0..0 -> V] /\ \A i \in 0..0 : i = 0
    OBVIOUS
  <2>2. Recursion(f0, 0, a, g)
    BY <2>1 DEF Recursion
  <2> QED
    BY <2>1, <2>2
<1>2. ASSUME NEW m \in 0..(n - 1), m \in S PROVE m + 1 \in S
  <2>1. PICK f \in [0..m -> V] : Recursion(f, m, a, g)
    BY <1>2
  <2> DEFINE h == [i \in 0..(m + 1) |-> IF i = m + 1 THEN g[<<m + 1, f[m]>>] ELSE f[i]]
  <2>2. m + 1 \in 1..n /\ m \in 0..m /\ f[m] \in V
    OBVIOUS
  <2>3. g[<<m + 1, f[m]>>] \in V
    BY <2>2
  <2>4. h \in [0..(m + 1) -> V]
    BY <2>3
  <2>5. ASSUME NEW i \in 0..(m + 1)
        PROVE  h[i] = IF i = 0 THEN a ELSE g[<<i, h[i - 1]>>]
    <3>1. CASE i = m + 1
      <4>1. h[i] = g[<<m + 1, f[m]>>] /\ i # 0 /\ i - 1 = m
        BY <2>2, <3>1
      <4>2. h[m] = f[m]
        BY <2>2
      <4> QED
        BY <3>1, <4>1, <4>2
    <3>2. CASE i # m + 1
      <4>1. i \in 0..m /\ h[i] = f[i]
        BY <3>2
      <4>2. i # 0 => i - 1 \in 0..m /\ h[i - 1] = f[i - 1]
        BY <4>1
      <4>3. f[i] = IF i = 0 THEN a ELSE g[<<i, f[i - 1]>>]
        BY <2>1, <4>1 DEF Recursion
      <4> QED
        BY <4>1, <4>2, <4>3
    <3> QED
      BY <3>1, <3>2
  <2> HIDE DEF h
  <2>6. Recursion(h, m + 1, a, g)
    BY <2>4, <2>5 DEF Recursion
  <2> QED
    BY <2>2, <2>4, <2>6
<1> HIDE DEF S
<1>3. n \in S
  BY <1>1, <1>2, UpTo
<1> QED
  BY <1>3 DEF S

LEMMA RecursionUnfolds ==
    ASSUME NEW f, NEW n \in Nat, NEW a, NEW g, Recursion(f, n, a, g)
    PROVE  f[0] = a /\ \A i \in 1..n : f[i] = g[<<i, f[i - 1]>>]
<1> DEFINE e(i) == IF i = 0 THEN a ELSE g[<<i, f[i - 1]>>]
<1>1. f = [i \in 0..n |-> e(i)]
  BY DEF Recursion
<1> HIDE DEF e
<1>2. \A i \in 0..n : f[i] = e(i)
  BY <1>1
<1>3. 0 \in 0..n /\ \A i \in 1..n : i \in 0..n /\ i # 0
  OBVIOUS
<1> QED
  BY <1>2, <1>3 DEF e

LEMMA RecursionType ==
    ASSUME NEW V, NEW a \in V, NEW n \in Nat, NEW g \in [(1..n) \X V -> V],
           NEW f, Recursion(f, n, a, g)
    PROVE  f \in [0..n -> V]
<1> DEFINE S == {i \in 0..n : f[i] \in V}
<1>1. f[0] = a /\ \A i \in 1..n : f[i] = g[<<i, f[i - 1]>>]
  BY RecursionUnfolds
<1>2. 0 \in S
  BY <1>1
<1>3. ASSUME NEW i \in 0..(n - 1), i \in S PROVE i + 1 \in S
  <2>1. i + 1 \in 1..n /\ (i + 1) - 1 = i /\ f[i] \in V /\ i + 1 \in 0..n
    BY <1>3
  <2>2. f[i + 1] = g[<<i + 1, f[i]>>]
    BY <1>1, <2>1
  <2> QED
    BY <2>1, <2>2
<1> HIDE DEF S
<1>4. 0..n \subseteq S
  BY <1>2, <1>3, UpTo
<1>5. \A i \in 0..n : f[i] \in V
  BY <1>4 DEF S
<1>6. DOMAIN f = 0..n /\ f = [i \in 0..n |-> f[i]]
  <2> DEFINE e(i) == IF i = 0 THEN a ELSE g[<<i, f[i - 1]>>]
  <2>1. f = [i \in 0..n |-> e(i)]
    BY DEF Recursion
  <2> HIDE DEF e
  <2> QED
    BY <2>1
<1> QED
  BY <1>5, <1>6

(* The function that CHOOSE picks is one.                                   *)
LEMMA RecursionChosen ==
    ASSUME NEW V, NEW a \in V, NEW n \in Nat, NEW g \in [(1..n) \X V -> V]
    PROVE  Recursion(CHOOSE h : Recursion(h, n, a, g), n, a, g)
<1>1. \E h : Recursion(h, n, a, g)
  BY RecursionExists
<1> QED
  BY <1>1

(* The same without a bound.                                                *)
NatRecursion(f, a, g) ==
    f[0] = a /\ \A n \in Nat : f[n + 1] = g[<<n + 1, f[n]>>]

LEMMA NatRecursionExists ==
    ASSUME NEW V, NEW a \in V, NEW g \in [Nat \X V -> V]
    PROVE  \E f \in [Nat -> V] : NatRecursion(f, a, g)
<1> DEFINE Prefix(f, n) == f[0] = a /\ \A i \in 1..n : f[i] = g[<<i, f[i - 1]>>]
           p(n) == CHOOSE f \in [0..n -> V] : Prefix(f, n)
<1>1. ASSUME NEW n \in Nat PROVE p(n) \in [0..n -> V] /\ Prefix(p(n), n)
  <2> DEFINE r == [x \in (1..n) \X V |-> g[x]]
  <2>1. r \in [(1..n) \X V -> V]
    OBVIOUS
  <2> HIDE DEF r
  <2>2. PICK f \in [0..n -> V] : Recursion(f, n, a, r)
    BY <2>1, RecursionExists
  <2>3. f[0] = a /\ \A i \in 1..n : f[i] = r[<<i, f[i - 1]>>]
    BY <2>2, RecursionUnfolds
  <2>4. ASSUME NEW i \in 1..n PROVE f[i] = g[<<i, f[i - 1]>>]
    <3>1. <<i, f[i - 1]>> \in (1..n) \X V
      OBVIOUS
    <3> QED
      BY <2>3, <3>1 DEF r
  <2>5. \E h \in [0..n -> V] : Prefix(h, n)
    BY <2>3, <2>4
  <2> HIDE DEF Prefix
  <2> QED
    BY <2>5
<1> HIDE DEF p
<1>2. ASSUME NEW n \in Nat, NEW k \in 0..n PROVE p(n)[k] = p(n + 1)[k]
  <2> DEFINE S == {i \in 0..n : p(n)[i] = p(n + 1)[i]}
  <2>1. Prefix(p(n), n) /\ Prefix(p(n + 1), n + 1)
    BY <1>1
  <2>2. 0 \in S
    BY <2>1
  <2>3. ASSUME NEW i \in 0..(n - 1), i \in S PROVE i + 1 \in S
    <3>1. i + 1 \in 1..n /\ i + 1 \in 1..(n + 1) /\ (i + 1) - 1 = i
      OBVIOUS
    <3>2. /\ p(n)[i + 1] = g[<<i + 1, p(n)[i]>>]
          /\ p(n + 1)[i + 1] = g[<<i + 1, p(n + 1)[i]>>]
      BY <2>1, <3>1
    <3>3. p(n)[i] = p(n + 1)[i]
      BY <2>3
    <3> QED
      BY <3>1, <3>2, <3>3
  <2> HIDE DEF S
  <2>4. 0..n \subseteq S
    BY <2>2, <2>3, UpTo
  <2> QED
    BY <2>4 DEF S
<1> DEFINE f == [n \in Nat |-> p(n)[n]]
<1>3. f \in [Nat -> V] /\ f[0] = a
  BY <1>1
<1>4. ASSUME NEW n \in Nat PROVE f[n + 1] = g[<<n + 1, f[n]>>]
  <2>1. n + 1 \in 1..(n + 1) /\ (n + 1) - 1 = n /\ n \in 0..n /\ n + 1 \in Nat
    OBVIOUS
  <2>2. p(n + 1)[n + 1] = g[<<n + 1, p(n + 1)[n]>>]
    BY <1>1, <2>1
  <2>3. p(n + 1)[n] = p(n)[n]
    BY <1>2, <2>1
  <2> QED
    BY <2>1, <2>2, <2>3
<1> HIDE DEF f
<1> QED
  BY <1>3, <1>4 DEF NatRecursion

(* Powers of two: the function is what its definition says, positive, and   *)
(* turns sums into products.                                                *)
LEMMA TwoUnfolds == \A n \in Nat : Two[n] = IF n = 0 THEN 1 ELSE 2 * Two[n - 1]
<1> DEFINE P == Nat \ {0}
           g == [x \in Nat \X P |-> 2 * x[2]]
<1>1. 1 \in P /\ g \in [Nat \X P -> P]
  OBVIOUS
<1>2. \A n \in Nat, v \in P : g[<<n + 1, v>>] = 2 * v
  OBVIOUS
<1> HIDE DEF g
<1>3. PICK h \in [Nat -> P] : h[0] = 1 /\ \A n \in Nat : h[n + 1] = g[<<n + 1, h[n]>>]
  <2> HIDE DEF P
  <2>1. \E f \in [Nat -> P] : NatRecursion(f, 1, g)
    BY <1>1, NatRecursionExists
  <2> QED
    BY <2>1 DEF NatRecursion
<1>4. h = [bits \in Nat |-> IF bits = 0 THEN 1 ELSE 2 * h[bits - 1]]
  <2>1. ASSUME NEW n \in Nat PROVE h[n] = IF n = 0 THEN 1 ELSE 2 * h[n - 1]
    <3>1. CASE n = 0
      BY <1>3, <3>1
    <3>2. CASE n # 0
      <4>1. n - 1 \in Nat /\ (n - 1) + 1 = n
        BY <3>2
      <4>2. h[n] = g[<<n, h[n - 1]>>] /\ h[n - 1] \in P
        BY <1>3, <4>1
      <4> QED
        BY <1>2, <3>2, <4>1, <4>2
    <3> QED
      BY <3>1, <3>2
  <2> QED
    BY <1>3, <2>1
<1>5. Two = [bits \in Nat |-> IF bits = 0 THEN 1 ELSE 2 * Two[bits - 1]]
  BY <1>4, Zenon DEF Two
<1>6. \A n \in Nat : Two[n] = IF n = 0 THEN 1 ELSE 2 * Two[n - 1]
  BY <1>5
<1> QED
  BY <1>6

LEMMA TwoPositive == \A bits \in Nat : Two[bits] \in Nat \ {0}
<1> DEFINE P == Nat \ {0}
           S == {n \in Nat : Two[n] \in P}
<1>1. 0 \in S
  BY TwoUnfolds
<1>2. ASSUME NEW n \in S PROVE n + 1 \in S
  <2>1. n + 1 \in Nat /\ n + 1 # 0 /\ (n + 1) - 1 = n /\ Two[n] \in P
    BY <1>2
  <2>2. Two[n + 1] = 2 * Two[n]
    BY TwoUnfolds, <2>1
  <2> QED
    BY <2>1, <2>2
<1> HIDE DEF S
<1>3. S = Nat
  <2>1. S \in SUBSET Nat
    BY DEF S
  <2> QED
    BY <1>1, <1>2, <2>1, SetInduction
<1> QED
  BY <1>3 DEF S

LEMMA TwoSum == \A a, b \in Nat : Two[a + b] = Two[a] * Two[b]
<1> SUFFICES ASSUME NEW b \in Nat PROVE \A a \in Nat : Two[a + b] = Two[a] * Two[b]
  OBVIOUS
<1> DEFINE S == {a \in Nat : Two[a + b] = Two[a] * Two[b]}
<1>1. 0 \in S
  <2>1. Two[0] = 1 /\ Two[b] \in Nat /\ 0 + b = b
    BY TwoUnfolds, TwoPositive
  <2>2. Two[0 + b] = Two[0] * Two[b]
    BY <2>1
  <2> QED
    BY <2>2
<1>2. ASSUME NEW a \in S PROVE a + 1 \in S
  <2>1. a \in Nat /\ Two[a + b] = Two[a] * Two[b]
    BY <1>2
  <2>2. Two[(a + 1) + b] = 2 * Two[a + b]
    <3>1. (a + 1) + b \in Nat /\ (a + 1) + b # 0 /\ ((a + 1) + b) - 1 = a + b
      BY <2>1
    <3> QED
      BY <3>1, TwoUnfolds
  <2>3. Two[a + 1] = 2 * Two[a]
    <3>1. a + 1 \in Nat /\ a + 1 # 0 /\ (a + 1) - 1 = a
      BY <2>1
    <3> QED
      BY <3>1, TwoUnfolds
  <2>4. Two[a] \in Nat /\ Two[b] \in Nat
    BY <2>1, TwoPositive
  <2>5. \A x, y \in Nat : 2 * (x * y) = (2 * x) * y
    OBVIOUS
  <2>6. Two[(a + 1) + b] = Two[a + 1] * Two[b]
    BY <2>1, <2>2, <2>3, <2>4, <2>5
  <2> QED
    BY <2>1, <2>6
<1> HIDE DEF S
<1>3. S = Nat
  <2>1. S \in SUBSET Nat
    BY DEF S
  <2> QED
    BY <1>1, <1>2, <2>1, SetInduction
<1> QED
  BY <1>3 DEF S

---------------------------------------------------------------------------
(* FlattenSeq concatenates its sequences one after another.                 *)
Flattens(f, n, s) == f[0] = <<>> /\ \A i \in 1..n : f[i] = f[i - 1] \o s[i]

LEMMA FlattenUnfolds ==
    ASSUME NEW S, NEW n \in Nat, NEW s \in [1..n -> Seq(S)]
    PROVE  \E f \in [0..n -> Seq(S)] : Flattens(f, n, s) /\ FlattenSeq(s) = f[n]
<1>1. Len(s) = n
  BY LenProperties
<1> DEFINE V == Seq(S)
           Cat(v, i) == v \o s[i]
           g == [x \in (1..n) \X V |-> Cat(x[2], x[1])]
<1>2. <<>> \in V /\ \A i \in 1..n, v \in V : Cat(v, i) \in V
  BY ConcatProperties
<1>3. n # 0 => Cat(<<>>, 1) = s[1]
  <2>1. n # 0 => s[1] \in Seq(S)
    OBVIOUS
  <2> QED
    BY <2>1, ConcatEmptySeq
<1> DEFINE Flat(h) == h = [i \in 1..n |-> IF i = 1 THEN s[i] ELSE Cat(h[i - 1], i)]
           flat == CHOOSE h : Flat(h)
<1>4. /\ n # 0 => FlattenSeq(s) = flat[n]
      /\ n = 0 => FlattenSeq(s) = s
  BY <1>1, Zenon DEF FlattenSeq
<1>5. \A v, i : Cat(v, i) = v \o s[i]
  OBVIOUS
<1> HIDE DEF V, Cat
<1>6. g \in [(1..n) \X V -> V] /\ \A i \in 1..n, v \in V : g[<<i, v>>] = Cat(v, i)
  BY <1>2
<1> HIDE DEF g
<1>7. PICK f \in [0..n -> V] : Recursion(f, n, <<>>, g)
  BY <1>2, <1>6, RecursionExists
<1>8. f[0] = <<>> /\ \A i \in 1..n : f[i] = Cat(f[i - 1], i)
  <2>1. f[0] = <<>> /\ \A i \in 1..n : f[i] = g[<<i, f[i - 1]>>]
    BY <1>7, RecursionUnfolds
  <2>2. \A i \in 1..n : i - 1 \in 0..n /\ f[i - 1] \in V
    BY <1>7
  <2> QED
    BY <1>6, <2>1, <2>2
<1> DEFINE h0 == [i \in 1..n |-> f[i]]
<1>9. Flat(h0)
  <2> SUFFICES ASSUME NEW i \in 1..n
               PROVE  f[i] = IF i = 1 THEN s[i] ELSE Cat(h0[i - 1], i)
    OBVIOUS
  <2>1. CASE i = 1
    BY <1>3, <1>8, <2>1
  <2>2. CASE i # 1
    <3>1. i - 1 \in 1..n
      BY <2>2
    <3>2. h0[i - 1] = f[i - 1]
      BY <3>1
    <3> HIDE DEF h0
    <3> QED
      BY <1>8, <2>2, <3>2
  <2> QED
    BY <2>1, <2>2
<1>10. Flat(flat)
  <2> HIDE DEF Flat, h0
  <2>1. \E h : Flat(h)
    BY <1>9
  <2> QED
    BY <2>1, Zenon
<1> HIDE DEF flat
<1>11. \A i \in 1..n : flat[i] = IF i = 1 THEN s[i] ELSE Cat(flat[i - 1], i)
  BY <1>10
<1> DEFINE T == {i \in 0..n : i = 0 \/ flat[i] = f[i]}
<1>12. 0 \in T
  OBVIOUS
<1>13. ASSUME NEW i \in 0..(n - 1), i \in T PROVE i + 1 \in T
  <2>1. i + 1 \in 1..n /\ (i + 1) - 1 = i
    OBVIOUS
  <2>2. f[i + 1] = Cat(f[i], i + 1)
    BY <1>8, <2>1
  <2>3. CASE i = 0
    <3>1. flat[i + 1] = s[i + 1] /\ n # 0
      BY <1>11, <2>1, <2>3
    <3> QED
      BY <1>3, <1>8, <2>1, <2>2, <2>3, <3>1
  <2>4. CASE i # 0
    <3>1. flat[i + 1] = Cat(flat[i], i + 1)
      BY <1>11, <2>1, <2>4
    <3>2. flat[i] = f[i]
      BY <1>13, <2>4
    <3> QED
      BY <2>1, <2>2, <3>1, <3>2
  <2> QED
    BY <2>3, <2>4
<1> HIDE DEF T
<1>14. n \in T
  <2>1. n \in Nat /\ n \in 0..n
    OBVIOUS
  <2>2. 0..n \subseteq T
    BY <1>12, <1>13, <2>1, UpTo
  <2> QED
    BY <2>1, <2>2
<1>15. FlattenSeq(s) = f[n]
  <2>1. CASE n = 0
    <3>1. s = <<>>
      <4>1. s \in Seq(S) /\ Len(s) = 0
        BY <1>1, <2>1
      <4> QED
        BY <4>1, EmptySeq
    <3> QED
      BY <1>4, <1>8, <2>1, <3>1
  <2>2. CASE n # 0
    BY <1>4, <1>14, <2>2 DEF T
  <2> QED
    BY <2>1, <2>2
<1>16. Flattens(f, n, s)
  BY <1>5, <1>8 DEF Flattens
<1> QED
  BY <1>7, <1>15, <1>16 DEF V

LEMMA FlattenType ==
    ASSUME NEW S, NEW n \in Nat, NEW s \in [1..n -> Seq(S)]
    PROVE  FlattenSeq(s) \in Seq(S)
<1>1. \E f \in [0..n -> Seq(S)] : FlattenSeq(s) = f[n]
  BY FlattenUnfolds
<1> QED
  BY <1>1

LEMMA FlattenEmpty ==
    ASSUME NEW s \in [1..0 -> Seq({})] PROVE FlattenSeq(s) = <<>>
<1>1. \E f \in [0..0 -> Seq({})] : Flattens(f, 0, s) /\ FlattenSeq(s) = f[0]
  BY FlattenUnfolds
<1> QED
  BY <1>1 DEF Flattens

(* Its last sequence comes behind what the others make.                     *)
LEMMA FlattenStep ==
    ASSUME NEW S, NEW n \in Nat, NEW s \in [1..(n + 1) -> Seq(S)],
           NEW t \in [1..n -> Seq(S)], \A i \in 1..n : t[i] = s[i]
    PROVE  FlattenSeq(s) = FlattenSeq(t) \o s[n + 1]
<1>1a. n + 1 \in Nat
  OBVIOUS
<1>1b. PICK f \in [0..(n + 1) -> Seq(S)] : Flattens(f, n + 1, s) /\ FlattenSeq(s) = f[n + 1]
  BY <1>1a, FlattenUnfolds
<1>1. /\ f[0] = <<>>
      /\ \A i \in 1..(n + 1) : f[i] = f[i - 1] \o s[i]
      /\ FlattenSeq(s) = f[n + 1]
  BY <1>1b DEF Flattens
<1>2a. PICK h \in [0..n -> Seq(S)] : Flattens(h, n, t) /\ FlattenSeq(t) = h[n]
  BY FlattenUnfolds
<1>2. h[0] = <<>> /\ (\A i \in 1..n : h[i] = h[i - 1] \o t[i]) /\ FlattenSeq(t) = h[n]
  BY <1>2a DEF Flattens
<1> DEFINE T == {i \in 0..n : h[i] = f[i]}
<1>3. 0 \in T
  BY <1>1, <1>2
<1>4. ASSUME NEW i \in 0..(n - 1), i \in T PROVE i + 1 \in T
  <2>1. i + 1 \in 1..n /\ i + 1 \in 1..(n + 1) /\ (i + 1) - 1 = i
    OBVIOUS
  <2>2. h[i + 1] = h[i] \o t[i + 1] /\ f[i + 1] = f[i] \o s[i + 1]
    BY <1>1, <1>2, <2>1
  <2>3. h[i] = f[i] /\ t[i + 1] = s[i + 1]
    BY <1>4, <2>1
  <2>4. h[i + 1] = f[i + 1]
    BY <2>2, <2>3
  <2> QED
    BY <2>1, <2>4
<1> HIDE DEF T
<1>5. 0..n \subseteq T
  BY <1>3, <1>4, UpTo
<1>6. h[n] = f[n] /\ n + 1 \in 1..(n + 1) /\ (n + 1) - 1 = n
  BY <1>5 DEF T
<1>7. f[n + 1] = f[n] \o s[n + 1]
  BY <1>1, <1>6
<1> QED
  BY <1>1, <1>2, <1>6, <1>7

(* Flattening what stands behind comes behind what the front makes.         *)
InParts(S, s, a, m, b, n) ==
    /\ m \in Nat /\ a \in [1..m -> Seq(S)]
    /\ n \in Nat /\ b \in [1..n -> Seq(S)]
    /\ s \in [1..(m + n) -> Seq(S)]
    /\ \A i \in 1..m : s[i] = a[i]
    /\ \A i \in 1..n : s[m + i] = b[i]

LEMMA FlattenConcat ==
    ASSUME NEW S, NEW s, NEW a, NEW m, NEW b, NEW n, InParts(S, s, a, m, b, n)
    PROVE  FlattenSeq(s) = FlattenSeq(a) \o FlattenSeq(b)
<1> USE DEF InParts
<1> DEFINE sj(j) == [i \in 1..(m + j) |-> s[i]]
           bj(j) == [i \in 1..j |-> b[i]]
           Cat(u, v) == u \o v
           T == {j \in 0..n : FlattenSeq(sj(j)) = Cat(FlattenSeq(a), FlattenSeq(bj(j)))}
<1>0. \A j \in 0..n : /\ m + j \in Nat /\ sj(j) \in [1..(m + j) -> Seq(S)]
                      /\ bj(j) \in [1..j -> Seq(S)]
  <2> TAKE j \in 0..n
  <2>1. \A i \in 1..(m + j) : i \in 1..(m + n)
    OBVIOUS
  <2>2. \A i \in 1..j : i \in 1..n
    OBVIOUS
  <2> QED
    BY <2>1, <2>2
<1>1. 0 \in T
  <2>1. sj(0) = a
    OBVIOUS
  <2>2. FlattenSeq(bj(0)) = <<>>
    <3>1. bj(0) \in [1..0 -> Seq({})]
      OBVIOUS
    <3> HIDE DEF bj
    <3> QED
      BY <3>1, FlattenEmpty
  <2>3. FlattenSeq(a) \in Seq(S)
    BY FlattenType
  <2>4. FlattenSeq(a) \o <<>> = FlattenSeq(a)
    BY <2>3, ConcatEmptySeq
  <2> HIDE DEF bj, sj
  <2>5. 0 \in 0..n /\ FlattenSeq(sj(0)) = Cat(FlattenSeq(a), FlattenSeq(bj(0)))
    <3>1. 0 \in 0..n
      OBVIOUS
    <3> QED
      BY <2>1, <2>2, <2>4, <3>1, Zenon
  <2> HIDE DEF Cat
  <2> QED
    BY <2>5
<1>2. ASSUME NEW j \in 0..(n - 1), j \in T PROVE j + 1 \in T
  <2>1. j \in 0..n /\ j + 1 \in 0..n /\ m + (j + 1) = (m + j) + 1 /\ j \in Nat
    OBVIOUS
  <2>2. FlattenSeq(sj(j + 1)) = FlattenSeq(sj(j)) \o b[j + 1]
    <3>1. sj(j + 1) \in [1..((m + j) + 1) -> Seq(S)]
      BY <1>0, <2>1
    <3>2. \A i \in 1..(m + j) : sj(j)[i] = sj(j + 1)[i]
      BY <2>1
    <3>3. sj(j + 1)[(m + j) + 1] = b[j + 1]
      <4>1. (m + j) + 1 \in 1..(m + (j + 1)) /\ j + 1 \in 1..n /\ (m + j) + 1 = m + (j + 1)
        BY <2>1
      <4> QED
        BY <4>1
    <3> HIDE DEF sj
    <3>4. m + j \in Nat /\ sj(j) \in [1..(m + j) -> Seq(S)]
      BY <1>0, <2>1
    <3>5. FlattenSeq(sj(j + 1)) = FlattenSeq(sj(j)) \o sj(j + 1)[(m + j) + 1]
      BY <3>1, <3>2, <3>4, FlattenStep
    <3> QED
      BY <3>3, <3>5
  <2>3. FlattenSeq(bj(j + 1)) = FlattenSeq(bj(j)) \o b[j + 1]
    <3>1. bj(j + 1) \in [1..(j + 1) -> Seq(S)] /\ bj(j) \in [1..j -> Seq(S)]
      BY <1>0, <2>1
    <3>2. (\A i \in 1..j : bj(j)[i] = bj(j + 1)[i]) /\ bj(j + 1)[j + 1] = b[j + 1]
      BY <2>1
    <3> HIDE DEF bj
    <3>3. FlattenSeq(bj(j + 1)) = FlattenSeq(bj(j)) \o bj(j + 1)[j + 1]
      BY <2>1, <3>1, <3>2, FlattenStep
    <3> QED
      BY <3>2, <3>3
  <2> HIDE DEF sj, bj
  <2>4. FlattenSeq(sj(j)) = FlattenSeq(a) \o FlattenSeq(bj(j))
    BY <1>2
  <2>5. /\ FlattenSeq(a) \in Seq(S) /\ FlattenSeq(bj(j)) \in Seq(S)
        /\ b[j + 1] \in Seq(S)
    <3>1. bj(j) \in [1..j -> Seq(S)] /\ b[j + 1] \in Seq(S)
      BY <1>0, <2>1
    <3> QED
      BY <2>1, <3>1, FlattenType
  <2>6. (FlattenSeq(a) \o FlattenSeq(bj(j))) \o b[j + 1]
            = FlattenSeq(a) \o (FlattenSeq(bj(j)) \o b[j + 1])
    <3>1. \A x, y, z \in Seq(S) : (x \o y) \o z = x \o (y \o z)
      BY ConcatAssociative
    <3> QED
      BY <2>5, <3>1, Zenon
  <2>7. FlattenSeq(sj(j + 1)) = FlattenSeq(a) \o FlattenSeq(bj(j + 1))
    BY <2>2, <2>3, <2>4, <2>6
  <2> QED
    BY <2>1, <2>7
<1>3. sj(n) = s /\ bj(n) = b
  OBVIOUS
<1> HIDE DEF T
<1>4. 0..n \subseteq T
  BY <1>1, <1>2, UpTo
<1>5. FlattenSeq(sj(n)) = FlattenSeq(a) \o FlattenSeq(bj(n))
  <2> HIDE DEF sj, bj
  <2> QED
    BY <1>4 DEF T
<1> HIDE DEF sj, bj
<1> QED
  BY <1>3, <1>5

(* Where in the whole each sequence stands.                                 *)
FlatLayout(c, n, s) ==
    /\ c[0] = 0 /\ \A i \in 1..n : c[i] = c[i - 1] + Len(s[i])
    /\ Len(FlattenSeq(s)) = c[n]
    /\ \A i \in 1..n : \A q \in 1..Len(s[i]) :
        c[i - 1] + q <= c[n] /\ FlattenSeq(s)[c[i - 1] + q] = s[i][q]

LEMMA FlattenLayout ==
    ASSUME NEW S, NEW n \in Nat, NEW s \in [1..n -> Seq(S)]
    PROVE  \E c \in [0..n -> Nat] : FlatLayout(c, n, s)
<1>1a. PICK f \in [0..n -> Seq(S)] : Flattens(f, n, s) /\ FlattenSeq(s) = f[n]
  BY FlattenUnfolds
<1>1. f[0] = <<>> /\ (\A i \in 1..n : f[i] = f[i - 1] \o s[i]) /\ FlattenSeq(s) = f[n]
  BY <1>1a DEF Flattens
<1>2. PICK c \in [0..n -> Nat] : \A i \in 0..n : c[i] = Len(f[i])
  <2> DEFINE d == [i \in 0..n |-> Len(f[i])]
  <2>1. d \in [0..n -> Nat] /\ \A i \in 0..n : d[i] = Len(f[i])
    OBVIOUS
  <2> HIDE DEF d
  <2> QED
    BY <2>1
<1>3. c[0] = 0
  BY <1>1, <1>2
<1>4. \A i \in 1..n :
        /\ i - 1 \in 0..n /\ i \in 0..n
        /\ f[i] \in Seq(S) /\ f[i - 1] \in Seq(S) /\ s[i] \in Seq(S)
        /\ c[i] = c[i - 1] + Len(s[i])
        /\ \A q \in 1..Len(f[i]) :
            f[i][q] = IF q <= Len(f[i - 1]) THEN f[i - 1][q] ELSE s[i][q - Len(f[i - 1])]
  <2> TAKE i \in 1..n
  <2>1. i - 1 \in 0..n /\ i \in 0..n
    OBVIOUS
  <2>2. f[i] \in Seq(S) /\ f[i - 1] \in Seq(S) /\ s[i] \in Seq(S)
    BY <2>1
  <2>3. f[i] = f[i - 1] \o s[i]
    BY <1>1
  <2>4. Len(f[i]) = Len(f[i - 1]) + Len(s[i])
    BY <2>2, <2>3, ConcatProperties
  <2>5. \A q \in 1..Len(f[i]) :
            f[i][q] = IF q <= Len(f[i - 1]) THEN f[i - 1][q] ELSE s[i][q - Len(f[i - 1])]
    BY <2>2, <2>3, <2>4, ConcatProperties
  <2> QED
    BY <1>2, <2>1, <2>2, <2>4, <2>5
<1> DEFINE T == {j \in 0..n : \A i \in 1..j : \A q \in 1..Len(s[i]) :
                        c[i - 1] + q <= c[j] /\ f[j][c[i - 1] + q] = s[i][q]}
<1>5. 0 \in T
  OBVIOUS
<1>6. ASSUME NEW j \in 0..(n - 1), j \in T PROVE j + 1 \in T
  <2>1. j + 1 \in 1..n /\ j + 1 \in 0..n /\ (j + 1) - 1 = j /\ j \in 0..n
    OBVIOUS
  <2>2. /\ c[j + 1] = c[j] + Len(s[j + 1]) /\ c[j] = Len(f[j]) /\ c[j + 1] = Len(f[j + 1])
        /\ Len(s[j + 1]) \in Nat /\ c[j] \in Nat /\ c[j + 1] \in Nat
    BY <1>2, <1>4, <2>1, LenProperties
  <2>2a. \A q \in 1..Len(f[j + 1]) :
            f[j + 1][q] = IF q <= Len(f[j]) THEN f[j][q] ELSE s[j + 1][q - Len(f[j])]
    BY <1>4, <2>1
  <2>3. ASSUME NEW i \in 1..(j + 1), NEW q \in 1..Len(s[i])
        PROVE  c[i - 1] + q <= c[j + 1] /\ f[j + 1][c[i - 1] + q] = s[i][q]
    <3>1. i - 1 \in 0..n /\ c[i - 1] \in Nat /\ i \in 1..n /\ Len(s[i]) \in Nat /\ q \in Nat
      BY <1>2, <2>1
    <3>2. CASE i = j + 1
      <4>1. c[i - 1] = c[j] /\ s[i] = s[j + 1] /\ q \in 1..Len(s[j + 1])
        BY <2>1, <3>2
      <4>2. c[j] + q <= c[j + 1] /\ c[j] + q \in 1..Len(f[j + 1])
            /\ ~(c[j] + q <= Len(f[j])) /\ (c[j] + q) - Len(f[j]) = q
        <5>1. q \in Nat /\ q \in 1..Len(s[j + 1])
          BY <3>1, <4>1
        <5>2. c[j] + q <= c[j + 1]
          BY <2>2, <5>1
        <5>3. ~(c[j] + q <= c[j])
          BY <2>2, <5>1
        <5>4. (c[j] + q) - c[j] = q
          BY <2>2, <5>1
        <5>5. c[j] + q >= 1
          BY <2>2, <5>1
        <5>6. c[j] + q \in Int
          BY <2>2, <5>1
        <5>7. c[j] + q \in 1..c[j + 1]
          BY <5>2, <5>5, <5>6
        <5> QED
          BY <2>2, <5>2, <5>3, <5>4, <5>7
      <4>3. f[j + 1][c[j] + q] = s[j + 1][(c[j] + q) - Len(f[j])]
        BY <2>2a, <4>2
      <4> QED
        BY <4>1, <4>2, <4>3
    <3>3. CASE i # j + 1
      <4>1. i \in 1..j
        BY <3>3
      <4>2. c[i - 1] + q <= c[j] /\ f[j][c[i - 1] + q] = s[i][q]
        BY <1>6, <4>1
      <4>3. c[i - 1] + q \in 1..Len(f[j + 1]) /\ c[i - 1] + q <= Len(f[j])
            /\ c[i - 1] + q <= c[j + 1]
        <5>1. PICK x \in Nat : x = c[i - 1] + q
          BY <3>1
        <5>2. PICK C, C1, L \in Nat : C = c[j] /\ C1 = c[j + 1] /\ L = Len(s[j + 1])
          BY <2>2
        <5>3. x >= 1
          BY <3>1, <5>1
        <5>4. x <= C /\ C1 = C + L
          BY <2>2, <4>2, <5>1, <5>2, Zenon
        <5>5. x \in 1..C1 /\ x <= C1
          BY <5>3, <5>4
        <5> QED
          BY <2>2, <4>2, <5>1, <5>2, <5>4, <5>5, Zenon
      <4> QED
        BY <2>2a, <4>2, <4>3
    <3> QED
      BY <3>2, <3>3
  <2> QED
    BY <2>1, <2>3
<1> HIDE DEF T
<1>7. n \in T
  <2>1. 0..n \subseteq T
    BY <1>5, <1>6, UpTo
  <2> QED
    BY <2>1
<1>8. Len(FlattenSeq(s)) = c[n]
  BY <1>1, <1>2
<1>9. FlatLayout(c, n, s)
  BY <1>1, <1>3, <1>4, <1>7, <1>8 DEF T, FlatLayout
<1> QED
  BY <1>9

---------------------------------------------------------------------------
(* A set of numbers that is not empty has a least member, and a greatest    *)
(* one if it is bounded.                                                    *)
LEMMA LeastExists ==
    ASSUME NEW S \in SUBSET Nat, S # {}
    PROVE  \E x \in S : \A y \in S : x <= y
<1> DEFINE R == OpToRel(<, Nat)
<1>1. IsWellFoundedOn(R, Nat)
  BY NatLessThanWellFounded
<1>2. \A x, y \in Nat : x < y => <<x, y>> \in R
  BY DEF OpToRel
<1> HIDE DEF R
<1>3. PICK x \in S : \A y \in S : ~ (<<y, x>> \in R)
  BY <1>1, WFMin
<1>4. \A y \in S : ~(y < x)
  BY <1>2, <1>3
<1> QED
  BY <1>4

LEMMA GreatestExists ==
    ASSUME NEW a \in Int, NEW b \in Int, NEW S \in SUBSET (a..b), S # {}
    PROVE  \E x \in S : \A y \in S : y <= x
<1> DEFINE T == {n \in Nat : b - n \in S}
<1>1. PICK z \in S : TRUE
  OBVIOUS
<1>2. b - z \in Nat /\ b - (b - z) = z
  BY <1>1
<1>3. T \in SUBSET Nat /\ T # {}
  BY <1>1, <1>2
<1>4. PICK n \in T : \A m \in T : n <= m
  <2> HIDE DEF T
  <2> QED
    BY <1>3, LeastExists
<1>5. ASSUME NEW y \in S PROVE y <= b - n
  <2>1. b - y \in Nat /\ b - (b - y) = y
    OBVIOUS
  <2>2. n <= b - y
    BY <1>4, <2>1
  <2> QED
    BY <1>4, <2>1, <2>2
<1> QED
  BY <1>4, <1>5
================================================================================
