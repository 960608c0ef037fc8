-------------------------- MODULE FriVerifier_proofs --------------------------
(***************************************************************************)
(* The polynomial buffers, FRI and the verifier's checks, for every layout, *)
(* rate, degree, number of extensions, list of reductions and queries, in   *)
(* every prove and whatever the memories held that nothing clears.          *)
(***************************************************************************)
EXTENDS FriVerifier, DataInduction

---------------------------------------------------------------------------
(* Reversing the bits of an index of a part.                                *)
LEMMA BitReversedUnfolds ==
    \A n \in Nat, i \in Nat :
        BitReversed[n][i] = IF n = 0 THEN 0
                            ELSE (i % 2) * Two[n - 1] + BitReversed[n - 1][i \div 2]
<1> DEFINE V == [Nat -> Nat]
           e(n, v, i) == (i % 2) * Two[n - 1] + v[i \div 2]
           g == [x \in Nat \X V |-> [i \in Nat |-> IF x[1] = 0 THEN 0 ELSE e(x[1], x[2], i)]]
           a == [i \in Nat |-> 0]
<1>1. a \in V
  OBVIOUS
<1>2. \A n \in Nat, v \in V, i \in Nat : (IF n = 0 THEN 0 ELSE e(n, v, i)) \in Nat
  <2> SUFFICES ASSUME NEW n \in Nat, n # 0, NEW v \in V, NEW i \in Nat PROVE e(n, v, i) \in Nat
    OBVIOUS
  <2>1. n - 1 \in Nat /\ i % 2 \in Nat /\ i \div 2 \in Nat
    OBVIOUS
  <2>2. Two[n - 1] \in Nat /\ v[i \div 2] \in Nat
    BY <2>1, TwoPositive
  <2> QED
    BY <2>1, <2>2
<1>3. g \in [Nat \X V -> V]
  <2> HIDE DEF e
  <2>1. ASSUME NEW x \in Nat \X V
        PROVE  [i \in Nat |-> IF x[1] = 0 THEN 0 ELSE e(x[1], x[2], i)] \in V
    BY <1>2
  <2> HIDE DEF V
  <2> QED
    BY <2>1
<1>4. \A n \in Nat, v \in V : g[<<n + 1, v>>] = [i \in Nat |-> e(n + 1, v, i)]
  <2> HIDE DEF e, V
  <2> QED
    OBVIOUS
<1> HIDE DEF g
<1>5. PICK h \in [Nat -> V] : h[0] = a /\ \A n \in Nat : h[n + 1] = g[<<n + 1, h[n]>>]
  <2> HIDE DEF V, a
  <2>1. \E f \in [Nat -> V] : NatRecursion(f, a, g)
    BY <1>1, <1>3, NatRecursionExists
  <2> QED
    BY <2>1 DEF NatRecursion
<1>6. h = [n \in Nat |-> [i \in Nat |-> IF n = 0 THEN 0 ELSE (i % 2) * Two[n - 1] + h[n - 1][i \div 2]]]
  <2>1. ASSUME NEW n \in Nat
        PROVE  h[n] = [i \in Nat |-> IF n = 0 THEN 0 ELSE (i % 2) * Two[n - 1] + h[n - 1][i \div 2]]
    <3>1. CASE n = 0
      BY <1>5, <3>1
    <3>2. CASE n # 0
      <4>1. n - 1 \in Nat /\ (n - 1) + 1 = n
        BY <3>2
      <4>2. h[n] = g[<<n, h[n - 1]>>] /\ h[n - 1] \in V
        <5> HIDE DEF V
        <5> QED
          BY <1>5, <4>1
      <4>3. h[n] = [i \in Nat |-> e(n, h[n - 1], i)]
        <5> HIDE DEF e, V
        <5> QED
          BY <1>4, <4>1, <4>2
      <4> QED
        BY <3>2, <4>3
    <3> QED
      BY <3>1, <3>2
  <2> QED
    BY <1>5, <2>1
<1>7. BitReversed = [n \in Nat |-> [i \in Nat |-> IF n = 0 THEN 0 ELSE (i % 2) * Two[n - 1] + BitReversed[n - 1][i \div 2]]]
  BY <1>6, Zenon DEF BitReversed
<1> DEFINE d(n, i) == IF n = 0 THEN 0 ELSE (i % 2) * Two[n - 1] + BitReversed[n - 1][i \div 2]
<1>8. BitReversed = [n \in Nat |-> [i \in Nat |-> d(n, i)]]
  BY <1>7, Zenon
<1> HIDE DEF d
<1>9. \A n \in Nat, i \in Nat : BitReversed[n][i] = d(n, i)
  BY <1>8
<1> QED
  BY <1>9 DEF d

(* Reversed bits are bits again.                                            *)
LEMMA BitReversedType ==
    \A n \in Nat : \A i \in 0..(Two[n] - 1) : BitReversed[n][i] \in 0..(Two[n] - 1)
<1> DEFINE S == {n \in Nat : \A i \in 0..(Two[n] - 1) : BitReversed[n][i] \in 0..(Two[n] - 1)}
<1>1. 0 \in S
  <2>1. Two[0] = 1
    BY TwoUnfolds
  <2>2. \A i \in 0..0 : BitReversed[0][i] = 0
    BY BitReversedUnfolds
  <2> QED
    BY <2>1, <2>2
<1>2. ASSUME NEW n \in S PROVE n + 1 \in S
  <2>1. n \in Nat /\ n + 1 \in Nat /\ n + 1 # 0 /\ (n + 1) - 1 = n
    BY <1>2
  <2>2. PICK t \in Nat \ {0} : t = Two[n] /\ Two[n + 1] = 2 * t
    BY <2>1, TwoUnfolds, TwoPositive
  <2>3. ASSUME NEW i \in 0..(2 * t - 1) PROVE BitReversed[n + 1][i] \in 0..(2 * t - 1)
    <3>1. PICK h, b \in Nat : h = i \div 2 /\ b = i % 2 /\ i = 2 * h + b /\ b \in {0, 1}
      <4>1. i \in Nat
        OBVIOUS
      <4> QED
        BY <4>1
    <3>2. h \in 0..(t - 1)
      BY <2>2, <3>1
    <3>3. PICK r \in 0..(t - 1) : r = BitReversed[n][h]
      BY <1>2, <2>2, <3>2
    <3>4. BitReversed[n + 1][i] = b * t + r
      <4>1. BitReversed[n + 1][i] = (i % 2) * Two[n] + BitReversed[n][i \div 2]
        BY <2>1, BitReversedUnfolds
      <4> QED
        BY <2>2, <3>1, <3>3, <4>1
    <3>5. b * t \in {0, t}
      BY <2>2, <3>1
    <3> QED
      BY <2>2, <3>3, <3>4, <3>5
  <2> QED
    BY <2>1, <2>2, <2>3
<1> HIDE DEF S
<1>3. S = Nat
  <2>1. S \in SUBSET Nat
    BY DEF S
  <2> QED
    BY <1>1, <1>2, <2>1, SetInduction
<1> QED
  BY <1>3 DEF S

(* The highest bit of an index becomes the lowest.                          *)
LEMMA BitReversedTop ==
    \A n \in Nat : \A a \in 0..(Two[n] - 1), h \in {0, 1} :
        BitReversed[n + 1][a + h * Two[n]] = 2 * BitReversed[n][a] + h
<1> DEFINE S == {n \in Nat : \A a \in 0..(Two[n] - 1), h \in {0, 1} :
                    BitReversed[n + 1][a + h * Two[n]] = 2 * BitReversed[n][a] + h}
<1>1. 0 \in S
  <2>1. Two[0] = 1
    BY TwoUnfolds
  <2>2. ASSUME NEW h \in {0, 1} PROVE BitReversed[0 + 1][0 + h * 1] = 2 * BitReversed[0][0] + h
    <3>1. BitReversed[0][0] = 0 /\ BitReversed[0][h \div 2] = 0
      BY BitReversedUnfolds
    <3>2. BitReversed[1][h] = (h % 2) * Two[1 - 1] + BitReversed[1 - 1][h \div 2]
      BY BitReversedUnfolds
    <3>3. h % 2 = h
      OBVIOUS
    <3> QED
      BY <2>1, <3>1, <3>2, <3>3
  <2> QED
    BY <2>1, <2>2
<1>2. ASSUME NEW n \in S PROVE n + 1 \in S
  <2>1. n \in Nat /\ n + 1 \in Nat /\ n + 1 # 0 /\ (n + 1) - 1 = n
        /\ (n + 1) + 1 \in Nat /\ (n + 1) + 1 # 0 /\ ((n + 1) + 1) - 1 = n + 1
    BY <1>2
  <2>2. PICK t \in Nat \ {0} : t = Two[n] /\ Two[n + 1] = 2 * t
    BY <2>1, TwoUnfolds, TwoPositive
  <2>3. ASSUME NEW a \in 0..(2 * t - 1), NEW h \in {0, 1}
        PROVE  BitReversed[(n + 1) + 1][a + h * (2 * t)] = 2 * BitReversed[n + 1][a] + h
    <3>1. PICK c, b \in Nat : c = a \div 2 /\ b = a % 2 /\ a = 2 * c + b /\ b \in {0, 1}
      <4>1. a \in Nat
        OBVIOUS
      <4> QED
        BY <4>1
    <3>2. c \in 0..(t - 1)
      BY <2>2, <3>1
    <3>3. PICK i \in Nat : i = a + h * (2 * t) /\ i % 2 = b /\ i \div 2 = c + h * t
      <4>1. PICK w \in Nat : w = h * t /\ h * (2 * t) = 2 * w
        BY <2>2
      <4>2. a + 2 * w \in Nat /\ (a + 2 * w) % 2 = b /\ (a + 2 * w) \div 2 = c + w
        BY <3>1
      <4> QED
        BY <4>1, <4>2
    <3>4. BitReversed[(n + 1) + 1][i] = b * (2 * t) + BitReversed[n + 1][c + h * t]
      <4>1. BitReversed[(n + 1) + 1][i] = (i % 2) * Two[n + 1] + BitReversed[n + 1][i \div 2]
        BY <2>1, BitReversedUnfolds
      <4> QED
        BY <2>2, <3>3, <4>1
    <3>5. BitReversed[n + 1][c + h * t] = 2 * BitReversed[n][c] + h
      BY <1>2, <2>2, <3>2
    <3>6. BitReversed[n + 1][a] = b * t + BitReversed[n][c]
      <4>1. a \in Nat
        OBVIOUS
      <4>2. BitReversed[n + 1][a] = (a % 2) * Two[n] + BitReversed[n][a \div 2]
        BY <2>1, <4>1, BitReversedUnfolds, SMTT(30)
      <4> QED
        BY <2>2, <3>1, <4>2
    <3>7. PICK r \in Nat : r = BitReversed[n][c]
      BY <2>1, <2>2, <3>2, BitReversedType
    <3>8. b * (2 * t) + (2 * r + h) = 2 * (b * t + r) + h
      BY <2>2, <3>1, <3>7
    <3> QED
      BY <3>3, <3>4, <3>5, <3>6, <3>7, <3>8
  <2> QED
    BY <2>1, <2>2, <2>3
<1> HIDE DEF S
<1>3. S = Nat
  <2>1. S \in SUBSET Nat
    BY DEF S
  <2> QED
    BY <1>1, <1>2, <2>1, SetInduction
<1> QED
  BY <1>3 DEF S

(* Reversing twice is the identity.                                         *)
LEMMA BitReversedTwice ==
    \A n \in Nat : \A i \in 0..(Two[n] - 1) : BitReversed[n][BitReversed[n][i]] = i
<1> DEFINE S == {n \in Nat : \A i \in 0..(Two[n] - 1) : BitReversed[n][BitReversed[n][i]] = i}
<1>1. 0 \in S
  <2>1. Two[0] = 1
    BY TwoUnfolds
  <2>2. BitReversed[0][0] = 0
    BY BitReversedUnfolds
  <2>3. \A i \in 0..(1 - 1) : BitReversed[0][BitReversed[0][i]] = i
    BY <2>2
  <2> QED
    BY <2>1, <2>3
<1>2. ASSUME NEW n \in S PROVE n + 1 \in S
  <2>1. n \in Nat /\ n + 1 \in Nat /\ n + 1 # 0 /\ (n + 1) - 1 = n
    BY <1>2
  <2>2. PICK t \in Nat \ {0} : t = Two[n] /\ Two[n + 1] = 2 * t
    BY <2>1, TwoUnfolds, TwoPositive
  <2>3. ASSUME NEW i \in 0..(2 * t - 1)
        PROVE  BitReversed[n + 1][BitReversed[n + 1][i]] = i
    <3>1. PICK h, b \in Nat : h = i \div 2 /\ b = i % 2 /\ i = 2 * h + b /\ b \in {0, 1}
      <4>1. i \in Nat
        OBVIOUS
      <4> QED
        BY <4>1
    <3>2. h \in 0..(t - 1)
      BY <2>2, <3>1
    <3>3. PICK r \in 0..(t - 1) : r = BitReversed[n][h]
      BY <2>1, <2>2, <3>2, BitReversedType
    <3>4. BitReversed[n + 1][i] = r + b * t
      <4>0. i \in Nat
        OBVIOUS
      <4>1. BitReversed[n + 1][i] = (i % 2) * Two[n] + BitReversed[n][i \div 2]
        BY <2>1, <4>0, BitReversedUnfolds
      <4>2. PICK w \in Nat : w = b * t
        BY <2>2, <3>1
      <4>3. BitReversed[n + 1][i] = w + r
        BY <2>2, <3>1, <3>3, <4>1, <4>2
      <4> QED
        BY <3>3, <4>2, <4>3
    <3>5. BitReversed[n + 1][r + b * t] = 2 * BitReversed[n][r] + b
      BY <2>1, <2>2, <3>1, <3>3, BitReversedTop
    <3>6. BitReversed[n][r] = h
      BY <1>2, <2>2, <3>2, <3>3
    <3> QED
      BY <3>1, <3>4, <3>5, <3>6
  <2> QED
    BY <2>1, <2>2, <2>3
<1> HIDE DEF S
<1>3. S = Nat
  <2>1. S \in SUBSET Nat
    BY DEF S
  <2> QED
    BY <1>1, <1>2, <2>1, SetInduction
<1> QED
  BY <1>3 DEF S

LEMMA RevParts ==
    \A i \in Parts : Rev(i) \in Parts /\ Rev(Rev(i)) = i
<1>1. RateBits \in Nat
  BY LayoutAssumption
<1> QED
  BY <1>1, BitReversedType, BitReversedTwice DEF Parts, Rate, Rev

---------------------------------------------------------------------------
(* The layout: the segments lie one after the other in both buffers.        *)
LEMMA CountType ==
    /\ Rate \in Nat \ {0} /\ NumChallenges \in Nat \ {0}
    /\ Count \in [Segments -> Nat]
    /\ Count["ConstantsSigmas"] = NumConstants + NumRouted /\ Count["Wires"] = NumWires
    /\ Count["PartialProducts"] = NumPartial /\ Count["Quotients"] = NumChallenges * Rate
<1>1. Rate \in Nat \ {0}
  BY LayoutAssumption, TwoPositive DEF Rate
<1>2. NumChallenges * Rate \in Nat
  BY <1>1, LayoutAssumption
<1> QED
  BY <1>1, <1>2, LayoutAssumption DEF Count, Segments

SegmentsFit(len) == Offset(len, "Quotients") + len["Quotients"]

LEMMA OffsetApart ==
    ASSUME NEW len \in [Segments -> Nat], NEW s \in Segments, NEW j \in 0..(len[s] - 1),
           NEW t \in Segments, NEW k \in 0..(len[t] - 1)
    PROVE  /\ Offset(len, s) + j \in 0..(SegmentsFit(len) - 1)
           /\ Offset(len, s) + j = Offset(len, t) + k => s = t /\ j = k
<1>1. PICK a, b, c, d \in Nat : /\ a = len["ConstantsSigmas"] /\ b = len["Wires"]
                                /\ c = len["PartialProducts"] /\ d = len["Quotients"]
  BY DEF Segments
<1>2. /\ Offset(len, "ConstantsSigmas") = 0 /\ Offset(len, "Wires") = a
      /\ Offset(len, "PartialProducts") = a + b /\ Offset(len, "Quotients") = a + b + c
  BY <1>1 DEF Offset
<1>3. SegmentsFit(len) = a + b + c + d
  BY <1>1, <1>2 DEF SegmentsFit
<1> QED
  BY <1>1, <1>2, <1>3 DEF Segments

LEMMA FpSlotApart ==
    ASSUME NEW s \in Segments, NEW j \in Index(s), NEW t \in Segments, NEW k \in Index(t)
    PROVE  FpSlot(s, j) \in Slots /\ (FpSlot(s, j) = FpSlot(t, k) => s = t /\ j = k)
<1>1. NumPolys = SegmentsFit(Count)
  BY DEF NumPolys, SegmentsFit
<1> QED
  BY <1>1, CountType, OffsetApart DEF FpSlot, Slots, Index

(* The numbers of extensions build_gpu may be asked for.                    *)
LdesFit(num) == num \in [Segments -> Nat] /\ \A s \in Segments : num[s] <= Count[s]

LEMMA LdeSlotApart ==
    ASSUME NEW num, LdesFit(num), NEW s \in Segments, NEW j \in 0..(num[s] - 1),
           NEW t \in Segments, NEW k \in 0..(num[t] - 1)
    PROVE  LdeSlot(num, s, j) \in Slots /\ (LdeSlot(num, s, j) = LdeSlot(num, t, k) => s = t /\ j = k)
<1>1. num \in [Segments -> Nat]
  BY DEF LdesFit
<1>2. SegmentsFit(num) \in Nat /\ SegmentsFit(num) <= NumPolys /\ NumPolys \in Nat
  <2>1. PICK a, b, c, d \in Nat : /\ a = num["ConstantsSigmas"] /\ b = num["Wires"]
                                  /\ c = num["PartialProducts"] /\ d = num["Quotients"]
    BY <1>1 DEF Segments
  <2>2. PICK e, f, g, h \in Nat : /\ e = Count["ConstantsSigmas"] /\ f = Count["Wires"]
                                  /\ g = Count["PartialProducts"] /\ h = Count["Quotients"]
    BY CountType DEF Segments
  <2>3. a <= e /\ b <= f /\ c <= g /\ d <= h
    BY <2>1, <2>2 DEF LdesFit, Segments
  <2>4. SegmentsFit(num) = a + b + c + d /\ NumPolys = e + f + g + h
    BY <2>1, <2>2 DEF SegmentsFit, NumPolys, Offset
  <2> QED
    BY <2>3, <2>4
<1>3. /\ LdeSlot(num, s, j) \in 0..(SegmentsFit(num) - 1)
      /\ LdeSlot(num, s, j) = LdeSlot(num, t, k) => s = t /\ j = k
  BY <1>1, OffsetApart DEF LdeSlot
<1> QED
  BY <1>2, <1>3 DEF Slots

(* The chunks of the quotient: Rate for each challenge.                     *)
LEMMA Digits ==
    ASSUME NEW r \in Nat \ {0}, NEW k \in Nat, NEW b \in 0..(r - 1)
    PROVE  (k * r + b) \div r = k /\ (k * r + b) % r = b /\ k * r + b \in Nat
<1>1. PICK w \in Nat : w = k * r
  OBVIOUS
<1>2. PICK q, m \in Nat : q = (w + b) \div r /\ m = (w + b) % r /\ m < r
  OBVIOUS
<1>3. w + b = q * r + m
  BY <1>2
<1>4. (k - q) * r = m - b
  BY <1>1, <1>2, <1>3
<1>5. k - q < 1 /\ k - q > -1
  BY <1>2, <1>4
<1> QED
  BY <1>1, <1>2, <1>4, <1>5

LEMMA Undigits ==
    ASSUME NEW r \in Nat \ {0}, NEW n \in Nat, NEW j \in 0..(n * r - 1)
    PROVE  j \div r \in 0..(n - 1) /\ j % r \in 0..(r - 1) /\ j = (j \div r) * r + (j % r)
<1>1. PICK q, m \in Nat : q = j \div r /\ m = j % r /\ m < r
  <2>1. j \in Nat
    OBVIOUS
  <2> QED
    BY <2>1
<1>2. j = q * r + m
  BY <1>1
<1>3. q * r < n * r
  BY <1>1, <1>2
<1>4. q < n
  BY <1>3
<1> QED
  BY <1>1, <1>2, <1>4

LEMMA DigitsBound ==
    ASSUME NEW r \in Nat \ {0}, NEW n \in Nat, NEW k \in 0..(n - 1), NEW b \in 0..(r - 1)
    PROVE  k * r + b \in 0..(n * r - 1)
<1>1. PICK w \in Nat : w = (n - 1 - k) * r
  OBVIOUS
<1>2. n * r = w + k * r + r
  BY <1>1
<1>3. PICK v \in Nat : v = k * r
  OBVIOUS
<1> QED
  BY <1>2, <1>3

Split(n, r, k, b) == r \in Nat \ {0} /\ k \in Nat /\ b \in 0..(r - 1) /\ n = k * r + b

LEMMA Divides ==
    ASSUME NEW n, NEW r, NEW k, NEW b, Split(n, r, k, b)
    PROVE  n \div r = k /\ n % r = b /\ n \in Nat
<1>1. r \in Nat \ {0} /\ k \in Nat /\ b \in 0..(r - 1)
  BY DEF Split
<1>2. n = k * r + b
  BY DEF Split
<1>3. (k * r + b) \div r = k /\ (k * r + b) % r = b /\ k * r + b \in Nat
  BY <1>1, Digits
<1> QED
  BY <1>2, <1>3, Zenon

LEMMA Division ==
    ASSUME NEW r \in Nat \ {0}, NEW n \in Nat
    PROVE  \E q, m \in Nat : q = n \div r /\ m = n % r /\ m < r /\ n = q * r + m
<1>1. PICK q, m \in Nat : q = n \div r /\ m = n % r /\ m < r
  OBVIOUS
<1>2. n = q * r + m
  BY <1>1
<1> QED
  BY <1>1, <1>2

LEMMA Halves ==
    ASSUME NEW n \in Nat
    PROVE  \E m, p \in Nat : m = n \div 2 /\ p = n % 2 /\ p \in {0, 1} /\ n = 2 * m + p
OBVIOUS

Challenges == 0..(NumChallenges - 1)

LEMMA ChunkIndex ==
    ASSUME NEW k \in Challenges, NEW b \in Parts
    PROVE  /\ k * Rate + b \in Index("Quotients")
           /\ (k * Rate + b) \div Rate = k /\ (k * Rate + b) % Rate = b
<1>1. Rate \in Nat \ {0} /\ NumChallenges \in Nat \ {0} /\ Count["Quotients"] = NumChallenges * Rate
  BY CountType
<1>2. k \in 0..(NumChallenges - 1) /\ b \in 0..(Rate - 1) /\ k \in Nat
  BY <1>1 DEF Challenges, Parts
<1> QED
  BY <1>1, <1>2, Digits, DigitsBound DEF Index

LEMMA ChunkOf ==
    ASSUME NEW j \in Index("Quotients")
    PROVE  j \div Rate \in Challenges /\ j % Rate \in Parts /\ j = (j \div Rate) * Rate + (j % Rate)
<1>1. Rate \in Nat \ {0} /\ NumChallenges \in Nat \ {0} /\ Count["Quotients"] = NumChallenges * Rate
  BY CountType
<1> QED
  BY <1>1, Undigits DEF Index, Challenges, Parts

---------------------------------------------------------------------------
(* What the kernels make of the forms they are written for.                 *)

(* The terms of a quotient of prove n: the constraints, and no more than    *)
(* what its slots and the tails of extensions held.  No other polynomial in *)
(* fp_inputs is a sum.                                                      *)
Constraints == (Gates \intersect GateKernels) \union {"z"}

QuotientSum(n, x) ==
    /\ x \ {"stale", "tail"} = Constraints
    /\ FoundZero("fp_inputs", n) => "stale" \notin x
    /\ FoundZero("ldes", n) => "tail" \notin x

SumOk(s, n, x) == IF s = "Quotients" THEN QuotientSum(n, x) ELSE x = {}

Is(f, s, j, n, rep, order, c) ==
    f = Form(s, j, n, rep, order, c, f.sum) /\ SumOk(s, n, f.sum)

(* The coset the in-place loops have reached before part p, and mul_val.    *)
Reached(p) == IF p = 0 THEN <<0, 0>> ELSE <<1, p - 1>>
MulVal(p) == IF p = 0 THEN G ELSE W

LEMMA IsForm ==
    ASSUME NEW g, NEW s, NEW j, NEW n, NEW rep, NEW order, NEW c, NEW x,
           g = Form(s, j, n, rep, order, c, x), SumOk(s, n, x)
    PROVE  Is(g, s, j, n, rep, order, c) /\ g.sum = x
<1>1. g.sum = x
  BY DEF Form
<1> QED
  BY <1>1 DEF Is

LEMMA IsFields ==
    ASSUME NEW f, NEW s, NEW j, NEW n, NEW rep, NEW order, NEW c, Is(f, s, j, n, rep, order, c)
    PROVE  /\ f.seg = s /\ f.idx = j /\ f.prove = n /\ f.rep = rep /\ f.order = order
           /\ f.coset = c
<1>1. PICK x : f = Form(s, j, n, rep, order, c, x)
  BY DEF Is
<1> QED
  BY <1>1 DEF Form

(* The same polynomial, in another form.                                    *)
Becomes(g, f, s, j, n, rep, order, c) ==
    /\ Is(g, s, j, n, rep, order, c) /\ g.sum = f.sum
    /\ g = Form(s, j, n, rep, order, c, f.sum)

LEMMA BecomesForm ==
    ASSUME NEW f, NEW s, NEW j, NEW n, NEW rep, NEW order, NEW c, Is(f, s, j, n, rep, order, c),
           NEW g, NEW rep2, NEW order2, NEW c2, g = Form(s, j, n, rep2, order2, c2, f.sum)
    PROVE  Becomes(g, f, s, j, n, rep2, order2, c2)
<1>1. SumOk(s, n, f.sum)
  BY DEF Is
<1>2. PICK x : x = f.sum
  OBVIOUS
<1>3. Is(g, s, j, n, rep2, order2, c2) /\ g.sum = x
  BY <1>1, <1>2, IsForm
<1> QED
  BY <1>2, <1>3 DEF Becomes

Recast(f, r, o) == [f EXCEPT !.rep = r, !.order = o]
RecastTo(f, r, o, m) == [f EXCEPT !.rep = r, !.order = o, !.coset = m]

LEMMA ReForm ==
    ASSUME NEW f, NEW s, NEW j, NEW n, NEW rep, NEW order, NEW c, NEW x,
           f = Form(s, j, n, rep, order, c, x), NEW r, NEW o, NEW m
    PROVE  /\ Recast(f, r, o) = Form(s, j, n, r, o, c, x)
           /\ RecastTo(f, r, o, m) = Form(s, j, n, r, o, m, x)
<1>1. PICK g, h : g = [f EXCEPT !.rep = r] /\ h = [g EXCEPT !.order = o]
  OBVIOUS
<1>2. g = Form(s, j, n, r, order, c, x)
  BY <1>1 DEF Form
<1>3. h = Form(s, j, n, r, o, c, x)
  BY <1>1, <1>2 DEF Form
<1>4. [h EXCEPT !.coset = m] = Form(s, j, n, r, o, m, x)
  BY <1>3 DEF Form
<1>5. Recast(f, r, o) = h
  BY <1>1 DEF Recast
<1>6. RecastTo(f, r, o, m) = [h EXCEPT !.coset = m]
  BY <1>1 DEF RecastTo
<1> QED
  BY <1>3, <1>4, <1>5, <1>6

LEMMA MulExpForm ==
    ASSUME NEW f, NEW s, NEW j, NEW n, NEW c, NEW m, Is(f, s, j, n, "coeffs", "natural", c)
    PROVE  Becomes(MulExp(f, m), f, s, j, n, "coeffs", "natural", Times(c, m))
<1>1. PICK x : x = f.sum /\ f = Form(s, j, n, "coeffs", "natural", c, x)
  BY DEF Is
<1>2. MulExp(f, m) = Form(s, j, n, "coeffs", "natural", Times(c, m), x)
  BY <1>1 DEF MulExp, Form
<1> QED
  BY <1>1, <1>2, BecomesForm

LEMMA N2BForm ==
    ASSUME NEW f, NEW s, NEW j, NEW n, NEW c, Is(f, s, j, n, "coeffs", "natural", c)
    PROVE  Becomes(NttN2B(f), f, s, j, n, "values", "bitrev", c)
<1>1. PICK x : x = f.sum /\ f = Form(s, j, n, "coeffs", "natural", c, x)
  BY DEF Is
<1>2. f.rep = "coeffs" /\ f.order = "natural"
  BY <1>1 DEF Form
<1>3. NttN2B(f) = Recast(f, "values", "bitrev")
  BY <1>2 DEF NttN2B, Recast
<1>4. NttN2B(f) = Form(s, j, n, "values", "bitrev", c, x)
  BY <1>1, <1>3, ReForm
<1> QED
  BY <1>1, <1>4, BecomesForm

LEMMA B2NForm ==
    ASSUME NEW f, NEW s, NEW j, NEW n, NEW c, Is(f, s, j, n, "values", "bitrev", c)
    PROVE  Becomes(InttB2N(f), f, s, j, n, "coeffs", "natural", c)
<1>1. PICK x : x = f.sum /\ f = Form(s, j, n, "values", "bitrev", c, x)
  BY DEF Is
<1>2. f.rep = "values" /\ f.order = "bitrev"
  BY <1>1 DEF Form
<1>3. InttB2N(f) = Recast(f, "coeffs", "natural")
  BY <1>2 DEF InttB2N, Recast
<1>4. InttB2N(f) = Form(s, j, n, "coeffs", "natural", c, x)
  BY <1>1, <1>3, ReForm
<1> QED
  BY <1>1, <1>4, BecomesForm

LEMMA InttForm ==
    ASSUME NEW f, NEW s, NEW j, NEW n, NEW c, Is(f, s, j, n, "values", "natural", c)
    PROVE  Becomes(NttInPlace(f, TRUE), f, s, j, n, "coeffs", "natural", c)
<1>1. PICK x : x = f.sum /\ f = Form(s, j, n, "values", "natural", c, x)
  BY DEF Is
<1>2. NttInPlace(f, TRUE) = Form(s, j, n, "coeffs", "natural", c, x)
  BY <1>1 DEF NttInPlace, Form
<1> QED
  BY <1>1, <1>2, BecomesForm

LEMMA NttForm ==
    ASSUME NEW f, NEW s, NEW j, NEW n, NEW c, Is(f, s, j, n, "coeffs", "natural", c)
    PROVE  Becomes(NttInPlace(f, FALSE), f, s, j, n, "values", "natural", c)
<1>1. PICK x : x = f.sum /\ f = Form(s, j, n, "coeffs", "natural", c, x)
  BY DEF Is
<1>2. NttInPlace(f, FALSE) = Form(s, j, n, "values", "natural", c, x)
  BY <1>1 DEF NttInPlace, Form
<1> QED
  BY <1>1, <1>2, BecomesForm

LEMMA TimesPair == \A a, b, c, d : Times(<<a, b>>, <<c, d>>) = <<a + c, b + d>>
BY DEF Times

(* y is x with the tail that an extension in prove n may bring.             *)
WithTail(x, y, n) ==
    x \subseteq y /\ y \subseteq x \union (IF FoundZero("ldes", n) THEN {} ELSE {"tail"})

(* l is the extension of polynomial j of s, whose sum is x.                 *)
Extension(l, s, j, n, x) ==
    l = Form(s, j, n, "lde", "bitrev", G, l.sum) /\ WithTail(x, l.sum, n)

LEMMA LdeForm ==
    ASSUME NEW f, NEW s, NEW j, NEW n, Is(f, s, j, n, "coeffs", "natural", <<0, 0>>),
           NEW out, FoundZero("ldes", n) => out = Zero
    PROVE  Extension(Lde(f, out), s, j, n, f.sum)
<1>1. Zero.rep = "zero"
  BY DEF Zero, Blank, Form
<1>2. Times(<<0, 0>>, G) = G
  BY TimesPair DEF G
<1>3. PICK x : x = f.sum /\ f = Form(s, j, n, "coeffs", "natural", <<0, 0>>, x)
  BY DEF Is
<1>4. f.rep = "coeffs" /\ f.order = "natural" /\ f.coset = <<0, 0>>
  BY <1>3 DEF Form
<1>5. PICK t : t = IF out.rep = "zero" THEN {} ELSE {"tail"}
  OBVIOUS
<1>6. PICK g : g = RecastTo(f, "lde", "bitrev", G)
  OBVIOUS
<1>7. g = Form(s, j, n, "lde", "bitrev", G, x)
  BY <1>3, <1>6, ReForm
<1>8. Lde(f, out) = [g EXCEPT !.sum = @ \union t]
  <2>1. Lde(f, out) = [f EXCEPT !.rep = "lde", !.order = "bitrev", !.coset = G,
                                !.sum = @ \union t]
    BY <1>2, <1>4, <1>5 DEF Lde
  <2> QED
    BY <2>1, <1>6 DEF RecastTo
<1>9. Lde(f, out) = Form(s, j, n, "lde", "bitrev", G, x \union t)
  BY <1>7, <1>8 DEF Form
<1>10. Lde(f, out).sum = x \union t
  BY <1>9 DEF Form
<1>11. WithTail(x, x \union t, n)
  <2>1. CASE FoundZero("ldes", n)
    BY <2>1, <1>1, <1>5 DEF WithTail
  <2>2. CASE ~FoundZero("ldes", n)
    BY <2>2, <1>5 DEF WithTail
  <2> QED
    BY <2>1, <2>2
<1> QED
  BY <1>3, <1>9, <1>10, <1>11 DEF Extension

(* Two forms that differ in their sums only.                                *)
LEMMA FormUpToTail ==
    ASSUME NEW s, NEW j, NEW n, NEW rep, NEW order, NEW c, NEW x, NEW y, NEW zero,
           x \subseteq y, y \subseteq x \union (IF zero THEN {} ELSE {"tail"}),
           NEW f, f = Form(s, j, n, rep, order, c, x), NEW l, l = Form(s, j, n, rep, order, c, y)
    PROVE  UpToTail(l, f, zero)
<1>1. l.sum = y /\ f.sum = x
  BY DEF Form
<1>2. l = [f EXCEPT !.sum = y]
  BY DEF Form
<1> QED
  BY <1>1, <1>2 DEF UpToTail

LEMMA LdeBlockForm ==
    ASSUME NEW l, NEW s, NEW j, NEW n, NEW x, l = Form(s, j, n, "lde", "bitrev", G, x), NEW b \in Parts
    PROVE  LdeBlock(l, b) = Form(s, j, n, "values", "bitrev", <<1, Rev(b)>>, x)
<1>1. PICK r \in Nat : r = Rev(b)
  BY RevParts DEF Parts
<1>2. Times(G, <<0, r>>) = <<1, r>>
  BY <1>1, TimesPair DEF G
<1> QED
  BY <1>1, <1>2 DEF LdeBlock, Form

(* One part of an in-place loop: on the next coset, and back.               *)
LEMMA TwistForm ==
    ASSUME NEW f, NEW s, NEW j, NEW n, NEW p \in Parts, Is(f, s, j, n, "coeffs", "natural", Reached(p)),
           NEW v, v = NttN2B(MulExp(f, MulVal(p)))
    PROVE  /\ Becomes(v, f, s, j, n, "values", "bitrev", <<1, p>>)
           /\ Becomes(InttB2N(v), f, s, j, n, "coeffs", "natural", Reached(p + 1))
<1>1. p \in Nat /\ p + 1 # 0 /\ (p + 1) - 1 = p
  BY DEF Parts
<1>2. Times(Reached(p), MulVal(p)) = <<1, p>>
  BY <1>1, TimesPair DEF Reached, MulVal, G, W
<1>3. Becomes(MulExp(f, MulVal(p)), f, s, j, n, "coeffs", "natural", <<1, p>>)
  BY <1>2, MulExpForm
<1>4. Becomes(v, f, s, j, n, "values", "bitrev", <<1, p>>)
  BY <1>3, N2BForm DEF Becomes
<1>5. Becomes(InttB2N(v), f, s, j, n, "coeffs", "natural", <<1, p>>)
  BY <1>4, B2NForm DEF Becomes
<1>6. Reached(p + 1) = <<1, p>>
  BY <1>1 DEF Reached
<1> QED
  BY <1>4, <1>5, <1>6

(* After the last part the coset is taken off.                              *)
LEMMA UntwistForm ==
    ASSUME NEW f, NEW s, NEW j, NEW n, Is(f, s, j, n, "coeffs", "natural", Reached(Rate))
    PROVE  Becomes(MulExp(f, Untwist), f, s, j, n, "coeffs", "natural", <<0, 0>>)
<1>1. Rate \in Nat \ {0}
  BY CountType
<1>2. Times(Reached(Rate), Untwist) = <<0, 0>>
  BY <1>1, TimesPair DEF Reached, Untwist
<1> QED
  BY <1>2, MulExpForm

---------------------------------------------------------------------------
(* The polynomials of a segment, in a buffer F and their extensions in L.   *)

(* Those from some index on have been moved to coset c, the others not.     *)
Moved(F, s, n, from, c) ==
    \A j \in Index(s) : Is(F[FpSlot(s, j)], s, j, n, "coeffs", "natural",
                           IF j >= from THEN c ELSE <<0, 0>>)

Valued(F, s, n) ==
    \A j \in Index(s) : Is(F[FpSlot(s, j)], s, j, n, "values", "natural", <<0, 0>>)

Extended(F, L, N, s, n) ==
    \A j \in 0..(N[s] - 1) : Extension(L[LdeSlot(N, s, j)], s, j, n, F[FpSlot(s, j)].sum)

(* The leaves of the first p parts are the values on their cosets, of the   *)
(* extension where the tree is built from it.                               *)
LeafSum(F, L, N, s, j) ==
    IF Partial(s) /\ j < N[s] THEN L[LdeSlot(N, s, j)].sum ELSE F[FpSlot(s, j)].sum

Hashed(F, L, N, T, s, n, p) ==
    \A i \in 0..(p - 1) : \A j \in Index(s) :
        T[s][Rev(i)][j] = Form(s, j, n, "values", "bitrev", <<1, i>>, LeafSum(F, L, N, s, j))

SameSegment(F2, F, s) == \A j \in Index(s) : F2[FpSlot(s, j)] = F[FpSlot(s, j)]
SameSums(F2, F, s) == \A j \in Index(s) : F2[FpSlot(s, j)].sum = F[FpSlot(s, j)].sum
SameLdes(L2, L, N, s) == \A j \in 0..(N[s] - 1) : L2[LdeSlot(N, s, j)] = L[LdeSlot(N, s, j)]

LEMMA SegmentKept ==
    ASSUME NEW F, NEW F2, NEW s, SameSegment(F2, F, s)
    PROVE  /\ SameSums(F2, F, s)
           /\ \A n, from, c : Moved(F, s, n, from, c) => Moved(F2, s, n, from, c)
           /\ \A n : Valued(F, s, n) => Valued(F2, s, n)
BY DEF SameSegment, SameSums, Moved, Valued

LEMMA MovedPlain ==
    ASSUME NEW F, NEW s, NEW n, NEW from, Moved(F, s, n, from, <<0, 0>>), NEW from2
    PROVE  Moved(F, s, n, from2, <<0, 0>>)
BY DEF Moved

LEMMA IndexLdes ==
    ASSUME NEW N, LdesFit(N), NEW s \in Segments
    PROVE  /\ N[s] \in Nat /\ Count[s] \in Nat /\ N[s] <= Count[s]
           /\ 0..(N[s] - 1) \subseteq Index(s)
           /\ \A j \in Index(s) : j \in Nat /\ (j < N[s] <=> j \in 0..(N[s] - 1))
<1>1. PICK a, b \in Nat : a = N[s] /\ b = Count[s] /\ a <= b
  BY CountType DEF LdesFit
<1> QED
  BY <1>1 DEF Index

LEMMA ExtendedKept ==
    ASSUME NEW F, NEW L, NEW N, NEW s \in Segments, NEW n, LdesFit(N), Extended(F, L, N, s, n),
           NEW F2, NEW L2, SameSums(F2, F, s), SameLdes(L2, L, N, s)
    PROVE  Extended(F2, L2, N, s, n)
<1> SUFFICES ASSUME NEW j \in 0..(N[s] - 1)
             PROVE  Extension(L2[LdeSlot(N, s, j)], s, j, n, F2[FpSlot(s, j)].sum)
  BY DEF Extended
<1>1. j \in Index(s)
  BY IndexLdes
<1>2. Extension(L[LdeSlot(N, s, j)], s, j, n, F[FpSlot(s, j)].sum)
  BY DEF Extended
<1>3. L2[LdeSlot(N, s, j)] = L[LdeSlot(N, s, j)]
  BY DEF SameLdes
<1>4. F2[FpSlot(s, j)].sum = F[FpSlot(s, j)].sum
  BY <1>1 DEF SameSums
<1> QED
  BY <1>2, <1>3, <1>4

LEMMA LeafSumKept ==
    ASSUME NEW F, NEW L, NEW N, NEW s \in Segments, LdesFit(N), NEW F2, NEW L2,
           SameSums(F2, F, s), SameLdes(L2, L, N, s), NEW j \in Index(s)
    PROVE  LeafSum(F2, L2, N, s, j) = LeafSum(F, L, N, s, j)
<1>1. F2[FpSlot(s, j)].sum = F[FpSlot(s, j)].sum
  BY DEF SameSums
<1>2. j < N[s] => L2[LdeSlot(N, s, j)] = L[LdeSlot(N, s, j)]
  BY IndexLdes DEF SameLdes
<1> QED
  BY <1>1, <1>2 DEF LeafSum

LEMMA HashedKept ==
    ASSUME NEW F, NEW L, NEW N, NEW T, NEW s \in Segments, LdesFit(N), NEW n, NEW p,
           Hashed(F, L, N, T, s, n, p),
           NEW F2, SameSums(F2, F, s), NEW L2, SameLdes(L2, L, N, s), NEW T2,
           \A i \in 0..(p - 1) : T2[s][Rev(i)] = T[s][Rev(i)]
    PROVE  Hashed(F2, L2, N, T2, s, n, p)
<1> SUFFICES ASSUME NEW i \in 0..(p - 1), NEW j \in Index(s)
             PROVE  T2[s][Rev(i)][j]
                        = Form(s, j, n, "values", "bitrev", <<1, i>>, LeafSum(F2, L2, N, s, j))
  BY DEF Hashed
<1>1. T[s][Rev(i)][j] = Form(s, j, n, "values", "bitrev", <<1, i>>, LeafSum(F, L, N, s, j))
  BY DEF Hashed
<1>2. LeafSum(F2, L2, N, s, j) = LeafSum(F, L, N, s, j)
  BY LeafSumKept
<1> QED
  BY <1>1, <1>2

(* One part of an in-place loop over the slots in M.                        *)
Twist(F, M, p) == [q \in Slots |-> IF q \in M THEN NttN2B(MulExp(F[q], MulVal(p))) ELSE F[q]]
TwistBack(F1, M) == [q \in Slots |-> IF q \in M THEN InttB2N(F1[q]) ELSE F1[q]]
Moves(M, s, from) == \A j \in Index(s) : FpSlot(s, j) \in M <=> j >= from

Twisted(F1, F, s, n, from, p) ==
    \A j \in Index(s) : j >= from =>
        F1[FpSlot(s, j)] = Form(s, j, n, "values", "bitrev", <<1, p>>, F[FpSlot(s, j)].sum)

LEMMA SegmentTwisted ==
    ASSUME NEW F, NEW s \in Segments, NEW n, NEW from, NEW p \in Parts,
           Moved(F, s, n, from, Reached(p)), NEW M, Moves(M, s, from),
           NEW F1, F1 = Twist(F, M, p), NEW F2, F2 = TwistBack(F1, M)
    PROVE  /\ Moved(F2, s, n, from, Reached(p + 1)) /\ SameSums(F2, F, s)
           /\ Twisted(F1, F, s, n, from, p)
<1>1. ASSUME NEW j \in Index(s), j >= from
      PROVE  /\ Is(F2[FpSlot(s, j)], s, j, n, "coeffs", "natural", Reached(p + 1))
             /\ F2[FpSlot(s, j)].sum = F[FpSlot(s, j)].sum
             /\ F1[FpSlot(s, j)]
                    = Form(s, j, n, "values", "bitrev", <<1, p>>, F[FpSlot(s, j)].sum)
  <2>1. FpSlot(s, j) \in Slots /\ FpSlot(s, j) \in M
    BY <1>1, FpSlotApart DEF Moves
  <2>2. PICK f, v : f = F[FpSlot(s, j)] /\ v = NttN2B(MulExp(f, MulVal(p)))
    OBVIOUS
  <2>3. F1[FpSlot(s, j)] = v /\ F2[FpSlot(s, j)] = InttB2N(v)
    BY <2>1, <2>2 DEF Twist, TwistBack
  <2>4. Is(f, s, j, n, "coeffs", "natural", Reached(p))
    BY <1>1, <2>2 DEF Moved
  <2>5. /\ Becomes(v, f, s, j, n, "values", "bitrev", <<1, p>>)
        /\ Becomes(InttB2N(v), f, s, j, n, "coeffs", "natural", Reached(p + 1))
    BY <2>2, <2>4, TwistForm
  <2> QED
    BY <2>2, <2>3, <2>5 DEF Becomes
<1>2. ASSUME NEW j \in Index(s), ~(j >= from)
      PROVE  F2[FpSlot(s, j)] = F[FpSlot(s, j)]
  <2>1. FpSlot(s, j) \in Slots /\ FpSlot(s, j) \notin M
    BY <1>2, FpSlotApart DEF Moves
  <2> QED
    BY <2>1 DEF Twist, TwistBack
<1>3. Moved(F2, s, n, from, Reached(p + 1))
  BY <1>1, <1>2 DEF Moved
<1>4. SameSums(F2, F, s)
  BY <1>1, <1>2 DEF SameSums
<1> QED
  BY <1>1, <1>3, <1>4 DEF Twisted

UntwistAll(F, M) == [q \in Slots |-> IF q \in M THEN MulExp(F[q], Untwist) ELSE F[q]]

LEMMA SegmentUntwisted ==
    ASSUME NEW F, NEW s \in Segments, NEW n, NEW from,
           Moved(F, s, n, from, Reached(Rate)), NEW M, Moves(M, s, from),
           NEW F2, F2 = UntwistAll(F, M)
    PROVE  Moved(F2, s, n, from, <<0, 0>>) /\ SameSums(F2, F, s)
<1>1. ASSUME NEW j \in Index(s), j >= from
      PROVE  /\ Is(F2[FpSlot(s, j)], s, j, n, "coeffs", "natural", <<0, 0>>)
             /\ F2[FpSlot(s, j)].sum = F[FpSlot(s, j)].sum
  <2>1. FpSlot(s, j) \in Slots /\ FpSlot(s, j) \in M
    BY <1>1, FpSlotApart DEF Moves
  <2>2. PICK f : f = F[FpSlot(s, j)]
    OBVIOUS
  <2>3. F2[FpSlot(s, j)] = MulExp(f, Untwist)
    BY <2>1, <2>2 DEF UntwistAll
  <2>4. Is(f, s, j, n, "coeffs", "natural", Reached(Rate))
    BY <1>1, <2>2 DEF Moved
  <2>5. Becomes(MulExp(f, Untwist), f, s, j, n, "coeffs", "natural", <<0, 0>>)
    BY <2>4, UntwistForm
  <2> QED
    BY <2>2, <2>3, <2>5 DEF Becomes
<1>2. ASSUME NEW j \in Index(s), ~(j >= from)
      PROVE  F2[FpSlot(s, j)] = F[FpSlot(s, j)]
  <2>1. FpSlot(s, j) \in Slots /\ FpSlot(s, j) \notin M
    BY <1>2, FpSlotApart DEF Moves
  <2> QED
    BY <2>1 DEF UntwistAll
<1>3. Moved(F2, s, n, from, <<0, 0>>)
  BY <1>1, <1>2 DEF Moved
<1>4. SameSums(F2, F, s)
  BY <1>1, <1>2 DEF SameSums
<1> QED
  BY <1>3, <1>4

(* The blocks of the extensions the leaves and the gates of part p read.    *)
Blocks(L, N, s, n, p) ==
    \A j \in 0..(N[s] - 1) :
        LdeBlock(L[LdeSlot(N, s, j)], Rev(p))
            = Form(s, j, n, "values", "bitrev", <<1, p>>, L[LdeSlot(N, s, j)].sum)

LEMMA ExtensionBlock ==
    ASSUME NEW F, NEW L, NEW N, NEW s \in Segments, NEW n, Extended(F, L, N, s, n), NEW p \in Parts
    PROVE  Blocks(L, N, s, n, p)
<1> SUFFICES ASSUME NEW j \in 0..(N[s] - 1)
             PROVE  LdeBlock(L[LdeSlot(N, s, j)], Rev(p))
                        = Form(s, j, n, "values", "bitrev", <<1, p>>, L[LdeSlot(N, s, j)].sum)
  BY DEF Blocks
<1>1. PICK l, x : l = L[LdeSlot(N, s, j)] /\ x = l.sum
                  /\ l = Form(s, j, n, "lde", "bitrev", G, x)
  BY DEF Extended, Extension
<1>2. Rev(p) \in Parts /\ Rev(Rev(p)) = p
  BY RevParts
<1>3. LdeBlock(l, Rev(p)) = Form(s, j, n, "values", "bitrev", <<1, Rev(Rev(p))>>, x)
  BY <1>1, <1>2, LdeBlockForm
<1> QED
  BY <1>1, <1>2, <1>3

---------------------------------------------------------------------------
(* A prove, the pv-th, phase by phase.                                      *)

(* The prove a segment is written in: build_gpu commits the constants.      *)
Nth(pv, s) == IF s = "ConstantsSigmas" THEN 0 ELSE pv

Ready(pv, N, F, L, T, s, c) ==
    /\ Moved(F, s, Nth(pv, s), N[s], c) /\ Extended(F, L, N, s, Nth(pv, s))
    /\ Hashed(F, L, N, T, s, Nth(pv, s), Rate)

Untouched(pv, N, L, s) == FoundZero("ldes", Nth(pv, s)) =>
    \A j \in 0..(N[s] - 1) : L[LdeSlot(N, s, j)] = Zero

(* The chunks of the first p parts are evaluated, the others as they were.  *)
Chunks(pv, F, p) == \A k \in Challenges : \A i \in 0..(p - 1) :
    Is(F[ResultSlot(k, i)], "Quotients", k, pv, "values", "bitrev", <<1, i>>)
ClearFrom(pv, F, p) == FoundZero("fp_inputs", pv) =>
    \A k \in Challenges : \A i \in Parts : i >= p => F[ResultSlot(k, i)] = Zero

Committing(ph) == ph \in {"intt", "lde", "tree"}

Prior(s) ==
    CASE s = "ConstantsSigmas" -> {} [] s = "Wires" -> {"ConstantsSigmas"}
      [] s = "PartialProducts" -> {"ConstantsSigmas", "Wires"} [] s = "Quotients" -> QuotientInputs

Finished(ph, sg) ==
    CASE ph = "upload" -> {} [] Committing(ph) -> Prior(sg)
      [] ph \in {"build", "scatter"} -> {"ConstantsSigmas"}
      [] ph = "zp" -> {"ConstantsSigmas", "Wires"} [] ph = "quotient" -> QuotientInputs
      [] ph = "open" -> Segments

Ahead(ph, sg) == Segments \ (Finished(ph, sg) \union (IF ph = "tree" THEN {sg} ELSE {}))

(* The first polynomial the tree of a segment transforms in place.          *)
FirstMoved(N, s) == IF Partial(s) THEN N[s] ELSE 0

UnderWay(pv, N, F, L, T, ph, sg, pt) ==
    /\ ph = "intt" => IF sg = "Quotients" THEN Chunks(pv, F, Rate) ELSE Valued(F, sg, Nth(pv, sg))
    /\ ph = "lde" => Moved(F, sg, Nth(pv, sg), 0, <<0, 0>>)
    /\ ph = "tree" => /\ Moved(F, sg, Nth(pv, sg), FirstMoved(N, sg), Reached(pt))
                      /\ Extended(F, L, N, sg, Nth(pv, sg)) /\ Hashed(F, L, N, T, sg, Nth(pv, sg), pt)
    /\ ph = "quotient" => Chunks(pv, F, pt) /\ ClearFrom(pv, F, pt)

NotDivided(ph, sg) ==
    ph \in {"upload", "build", "scatter", "zp"} \/ (Committing(ph) /\ sg # "Quotients")

FirstCount(pv, ph, sg) ==
    IF ph \in {"upload", "build", "scatter"} \/ (Committing(ph) /\ sg = "ConstantsSigmas")
    THEN pv - 1 ELSE pv

FirstControl(pv, N, T, ph, sg, pt, ml, pr) ==
    /\ LdesFit(N) /\ sg \in Segments /\ pv \in Nat \ {0}
    /\ ph \in {"upload", "intt", "lde", "tree", "build", "scatter", "zp", "quotient", "open"}
    /\ pt \in 0..Rate /\ ml = MulVal(pt) /\ (ph \notin {"tree", "quotient"} => pt = 0)
    /\ pr = FirstCount(pv, ph, sg)
    /\ T = [s \in Segments |-> [b \in Parts |-> T[s][b]]]

FirstBuffers(pv, N, F, L, T, ph, sg, pt) ==
    /\ \A s \in Finished(ph, sg) :
          Ready(pv, N, F, L, T, s, IF ph = "quotient" THEN Reached(pt) ELSE <<0, 0>>)
    /\ \A s \in Ahead(ph, sg) : Untouched(pv, N, L, s)
    /\ UnderWay(pv, N, F, L, T, ph, sg, pt)
    /\ NotDivided(ph, sg) => ClearFrom(pv, F, 0)

FirstProve(pv, N, F, L, T, ph, sg, pt, ml, pr) ==
    FirstControl(pv, N, T, ph, sg, pt, ml, pr) /\ FirstBuffers(pv, N, F, L, T, ph, sg, pt)

LEMMA ReadyKept ==
    ASSUME NEW pv, NEW N, NEW F, NEW L, NEW T, NEW s \in Segments, NEW c, LdesFit(N),
           Ready(pv, N, F, L, T, s, c),
           NEW F2, NEW L2, NEW T2, SameSegment(F2, F, s), SameLdes(L2, L, N, s), T2[s] = T[s]
    PROVE  Ready(pv, N, F2, L2, T2, s, c)
<1>1. SameSums(F2, F, s) /\ Moved(F2, s, Nth(pv, s), N[s], c)
  BY SegmentKept DEF Ready
<1>2. Extended(F2, L2, N, s, Nth(pv, s))
  BY <1>1, ExtendedKept DEF Ready
<1>3. Hashed(F2, L2, N, T2, s, Nth(pv, s), Rate)
  BY <1>1, HashedKept DEF Ready
<1> QED
  BY <1>1, <1>2, <1>3 DEF Ready

LEMMA LdesSame ==
    ASSUME NEW N, NEW L, NEW s PROVE SameLdes(L, L, N, s)
BY DEF SameLdes

(* A write to one segment keeps the others.                                 *)
LEMMA OthersKept ==
    ASSUME NEW F, NEW F2, NEW t \in Segments, \A q \in Slots : q \notin SlotsOf(t) => F2[q] = F[q],
           NEW s \in Segments, s # t
    PROVE  SameSegment(F2, F, s)
<1> SUFFICES ASSUME NEW j \in Index(s) PROVE F2[FpSlot(s, j)] = F[FpSlot(s, j)]
  BY DEF SameSegment
<1>1. FpSlot(s, j) \in Slots
  BY FpSlotApart
<1>2. FpSlot(s, j) \notin SlotsOf(t)
  BY FpSlotApart DEF SlotsOf
<1> QED
  BY <1>1, <1>2

LEMMA SlotMember ==
    ASSUME NEW s \in Segments, NEW j \in Index(s)
    PROVE  FpSlot(s, j) \in Slots /\ FpSlot(s, j) \in SlotsOf(s)
BY FpSlotApart DEF SlotsOf

LEMMA SlotIndex ==
    ASSUME NEW s \in Segments, NEW j \in Index(s)
    PROVE  FpSlot(s, j) - FpSlot(s, 0) = j /\ j \in Nat
<1>1. PICK a, b, c \in Nat : /\ a = Count["ConstantsSigmas"] /\ b = Count["Wires"]
                             /\ c = Count["PartialProducts"]
  BY CountType DEF Segments
<1>2. PICK o \in Nat : o = Offset(Count, s)
  BY <1>1 DEF Offset, Segments
<1>3. j \in Nat
  BY CountType DEF Index
<1> QED
  BY <1>2, <1>3 DEF FpSlot

LEMMA ResultSlotIn ==
    ASSUME NEW k \in Challenges, NEW i \in Parts
    PROVE  /\ k * Rate + Rev(i) \in Index("Quotients")
           /\ ResultSlot(k, i) = FpSlot("Quotients", k * Rate + Rev(i))
BY RevParts, ChunkIndex DEF ResultSlot

LEMMA ClearKept ==
    ASSUME NEW pv, NEW F, NEW F2, NEW p, SameSegment(F2, F, "Quotients"), ClearFrom(pv, F, p)
    PROVE  ClearFrom(pv, F2, p)
BY ResultSlotIn DEF ClearFrom, SameSegment

LEMMA WrittenValues ==
    ASSUME NEW F2, NEW t \in Segments, t # "Quotients", NEW n,
           \A j \in Index(t) : F2[FpSlot(t, j)] = Values(t, j, n)
    PROVE  Valued(F2, t, n)
<1> SUFFICES ASSUME NEW j \in Index(t)
             PROVE  Is(F2[FpSlot(t, j)], t, j, n, "values", "natural", <<0, 0>>)
  BY DEF Valued
<1>1. F2[FpSlot(t, j)] = Form(t, j, n, "values", "natural", <<0, 0>>, {})
  BY DEF Values
<1>2. SumOk(t, n, {})
  BY DEF SumOk
<1> QED
  BY <1>1, <1>2, IsForm

LEMMA ControlPhase ==
    /\ Finished("upload", "ConstantsSigmas") = {}
    /\ \A ph \in {"intt", "lde", "tree"} :
          /\ Finished(ph, "ConstantsSigmas") = {} /\ Finished(ph, "Wires") = {"ConstantsSigmas"}
          /\ Finished(ph, "PartialProducts") = {"ConstantsSigmas", "Wires"}
          /\ Finished(ph, "Quotients") = {"ConstantsSigmas", "Wires", "PartialProducts"}
    /\ \A sg : /\ Finished("build", sg) = {"ConstantsSigmas"}
               /\ Finished("scatter", sg) = {"ConstantsSigmas"}
               /\ Finished("zp", sg) = {"ConstantsSigmas", "Wires"}
               /\ Finished("quotient", sg) = {"ConstantsSigmas", "Wires", "PartialProducts"}
               /\ Finished("open", sg) = Segments
<1>1. QuotientInputs = {"ConstantsSigmas", "Wires", "PartialProducts"}
  BY DEF QuotientInputs, Segments
<1> QED
  BY <1>1 DEF Finished, Committing, Prior

FirstNow ==
    \E pv \in Nat : FirstProve(pv, numLdes, fp, lde, tree, phase, seg, part, mul, proves)

LEMMA InitFirst ==
    ASSUME Init PROVE FirstNow
<1>1. PICK N, F, L, T : /\ N = numLdes /\ F = fp /\ L = lde /\ T = tree
                        /\ phase = "upload" /\ seg = "ConstantsSigmas"
                        /\ part = 0 /\ mul = G /\ proves = 0
  BY DEF Init
<1>2. LdesFit(N)
  BY <1>1, LayoutAssumption DEF Init, LdesFit
<1>3. T = [s \in Segments |-> [b \in Parts |-> [j \in Index(s) |-> Unset]]]
  BY <1>1 DEF Init
<1>4. T = [s \in Segments |-> [b \in Parts |-> T[s][b]]]
  BY <1>3
<1>5. "ldes" \in Cleared => L = [q \in Slots |-> Zero]
  BY <1>1 DEF Init, Fresh
<1>6. "fp_inputs" \in Cleared => F = [q \in Slots |-> Zero]
  BY <1>1 DEF Init, Fresh
<1>7. FirstControl(1, N, T, "upload", "ConstantsSigmas", 0, G, 0)
  <2>1. 0 \in 0..Rate
    BY CountType
  <2>2. "ConstantsSigmas" \in Segments
    BY DEF Segments
  <2> QED
    BY <1>2, <1>4, <2>1, <2>2 DEF FirstControl, FirstCount, MulVal
<1>8. FirstBuffers(1, N, F, L, T, "upload", "ConstantsSigmas", 0)
  <2>1. \A s \in Segments : Untouched(1, N, L, s)
    BY <1>2, <1>5, LdeSlotApart DEF Untouched, FoundZero
  <2>2. ClearFrom(1, F, 0)
    <3>1. \A k \in Challenges : \A i \in Parts : ResultSlot(k, i) \in Slots
      BY ResultSlotIn, FpSlotApart DEF Segments
    <3> QED
      BY <1>6, <3>1 DEF ClearFrom, FoundZero
  <2>3. UnderWay(1, N, F, L, T, "upload", "ConstantsSigmas", 0)
    BY DEF UnderWay
  <2> QED
    BY <2>1, <2>2, <2>3, ControlPhase DEF FirstBuffers, Ahead
<1> QED
  BY <1>1, <1>7, <1>8 DEF FirstNow, FirstProve

LEMMA UploadFirst ==
    ASSUME NEW pv, NEW N, NEW F, NEW L, NEW T, NEW sg, NEW pt, NEW ml, NEW pr,
           FirstProve(pv, N, F, L, T, "upload", sg, pt, ml, pr), NEW F2,
           F2 = [q \in Slots |-> IF q \in SlotsOf("ConstantsSigmas")
                                 THEN Values("ConstantsSigmas", q, 0) ELSE F[q]]
    PROVE  FirstProve(pv, N, F2, L, T, "intt", "ConstantsSigmas", pt, ml, pr)
<1>1. /\ "ConstantsSigmas" \in Segments /\ "Quotients" \in Segments
      /\ "ConstantsSigmas" # "Quotients"
  BY DEF Segments
<1>2. Valued(F2, "ConstantsSigmas", 0)
  <2>1. ASSUME NEW j \in Index("ConstantsSigmas")
        PROVE  F2[FpSlot("ConstantsSigmas", j)] = Values("ConstantsSigmas", j, 0)
    <3>1. FpSlot("ConstantsSigmas", j) = j
      <4>1. Offset(Count, "ConstantsSigmas") = 0 /\ Count["ConstantsSigmas"] \in Nat
        BY CountType, <1>1 DEF Offset
      <4>2. j \in Nat
        BY <4>1 DEF Index
      <4> QED
        BY <4>1, <4>2 DEF FpSlot
    <3>2. FpSlot("ConstantsSigmas", j) \in Slots
          /\ FpSlot("ConstantsSigmas", j) \in SlotsOf("ConstantsSigmas")
      BY <1>1, SlotMember
    <3> QED
      BY <3>1, <3>2
  <2> QED
    BY <1>1, <2>1, WrittenValues
<1>3. SameSegment(F2, F, "Quotients")
  <2>1. \A q \in Slots : q \notin SlotsOf("ConstantsSigmas") => F2[q] = F[q]
    OBVIOUS
  <2> QED
    BY <1>1, <2>1, OthersKept
<1>4. FirstControl(pv, N, T, "intt", "ConstantsSigmas", pt, ml, pr)
  BY <1>1 DEF FirstProve, FirstControl, FirstCount, Committing
<1>5. FirstBuffers(pv, N, F2, L, T, "intt", "ConstantsSigmas", pt)
  <2>1. ClearFrom(pv, F2, 0)
    BY <1>3, ClearKept DEF FirstProve, FirstBuffers, NotDivided
  <2>2. UnderWay(pv, N, F2, L, T, "intt", "ConstantsSigmas", pt)
    BY <1>2 DEF UnderWay, Nth
  <2>3. \A s \in Segments : Untouched(pv, N, L, s)
    <3>1. Finished("upload", sg) = {}
      BY DEF Finished, Committing
    <3>2. Ahead("upload", sg) = Segments
      BY <3>1 DEF Ahead
    <3> QED
      BY <3>2 DEF FirstProve, FirstBuffers
  <2> QED
    BY <2>1, <2>2, <2>3, ControlPhase DEF FirstBuffers, Ahead
<1> QED
  BY <1>4, <1>5 DEF FirstProve

(* The inverse transform of one segment.                                    *)
LEMMA InttFirst ==
    ASSUME NEW pv, NEW N, NEW F, NEW L, NEW T, NEW sg, NEW pt, NEW ml, NEW pr,
           FirstProve(pv, N, F, L, T, "intt", sg, pt, ml, pr), NEW F2,
           \A q \in Slots : q \notin SlotsOf(sg) => F2[q] = F[q],
           Moved(F2, sg, Nth(pv, sg), 0, <<0, 0>>)
    PROVE  FirstProve(pv, N, F2, L, T, "lde", sg, pt, ml, pr)
<1>1. sg \in Segments /\ LdesFit(N)
  BY DEF FirstProve, FirstControl
<1>2. FirstControl(pv, N, T, "lde", sg, pt, ml, pr)
  BY DEF FirstProve, FirstControl, FirstCount, Committing
<1>3. /\ Finished("lde", sg) = Finished("intt", sg) /\ sg \notin Finished("lde", sg)
      /\ Finished("lde", sg) \subseteq Segments
  BY <1>1 DEF Finished, Committing, Prior, QuotientInputs, Segments
<1>4. ASSUME NEW s \in Finished("lde", sg) PROVE Ready(pv, N, F2, L, T, s, <<0, 0>>)
  <2>1. s \in Segments /\ s # sg /\ s \in Finished("intt", sg)
    BY <1>3, <1>4
  <2>2. Ready(pv, N, F, L, T, s, <<0, 0>>)
    BY <2>1 DEF FirstProve, FirstBuffers
  <2>3. SameSegment(F2, F, s)
    BY <1>1, <2>1, OthersKept
  <2> QED
    BY <1>1, <2>1, <2>2, <2>3, LdesSame, ReadyKept
<1>5. \A s \in Ahead("lde", sg) : Untouched(pv, N, L, s)
  BY <1>3 DEF FirstProve, FirstBuffers, Ahead
<1>6. UnderWay(pv, N, F2, L, T, "lde", sg, pt)
  BY DEF UnderWay
<1>7. NotDivided("lde", sg) => ClearFrom(pv, F2, 0)
  <2> SUFFICES ASSUME sg # "Quotients" PROVE ClearFrom(pv, F2, 0)
    BY DEF NotDivided
  <2>1. ClearFrom(pv, F, 0)
    BY DEF FirstProve, FirstBuffers, NotDivided, Committing
  <2>2. SameSegment(F2, F, "Quotients")
    <3>1. "Quotients" \in Segments
      BY DEF Segments
    <3> QED
      BY <1>1, <3>1, OthersKept
  <2> QED
    BY <2>1, <2>2, ClearKept
<1> QED
  BY <1>2, <1>4, <1>5, <1>6, <1>7 DEF FirstProve, FirstBuffers

LEMMA ValuedIntt ==
    ASSUME NEW F, NEW s \in Segments, NEW n, Valued(F, s, n), NEW F2,
           \A q \in SlotsOf(s) : F2[q] = NttInPlace(F[q], TRUE)
    PROVE  Moved(F2, s, n, 0, <<0, 0>>)
<1> SUFFICES ASSUME NEW j \in Index(s)
             PROVE  Is(F2[FpSlot(s, j)], s, j, n, "coeffs", "natural", <<0, 0>>)
  BY DEF Moved
<1>1. PICK f : f = F[FpSlot(s, j)] /\ F2[FpSlot(s, j)] = NttInPlace(f, TRUE)
  BY SlotMember
<1>2. Is(f, s, j, n, "values", "natural", <<0, 0>>)
  BY <1>1 DEF Valued
<1> QED
  BY <1>1, <1>2, InttForm DEF Becomes

(* The inverse transform that joins the parts of a challenge.               *)
LEMMA PartsJoined ==
    ASSUME NEW pv, Chunks(pv, fp, Rate), NEW k \in Challenges, NEW b \in Parts
    PROVE  Is(JoinParts(k)[b], "Quotients", k * Rate + b, pv, "coeffs", "natural", <<0, 0>>)
<1> DEFINE chunk(c) == fp[FpSlot("Quotients", k * Rate + c)]
<1>1. ASSUME NEW c \in Parts
      PROVE  Is(chunk(c), "Quotients", k, pv, "values", "bitrev", <<1, Rev(c)>>)
  <2>1. Rev(c) \in Parts /\ Rev(Rev(c)) = c
    BY RevParts
  <2>2. Rev(c) \in 0..(Rate - 1)
    BY <2>1 DEF Parts
  <2>3. ResultSlot(k, Rev(c)) = FpSlot("Quotients", k * Rate + c)
    BY <2>1 DEF ResultSlot
  <2> QED
    BY <2>2, <2>3 DEF Chunks
<1>2. 0 \in Parts
  BY CountType DEF Parts
<1>3. \A c \in Parts :
         /\ chunk(c).seg = "Quotients" /\ chunk(c).rep = "values"
         /\ chunk(c).order = "bitrev" /\ chunk(c).idx = k
         /\ chunk(c).prove = chunk(0).prove
         /\ chunk(c).coset = <<1, Rev(c)>> /\ chunk(c).prove = pv
  <2> HIDE DEF chunk
  <2>1. ASSUME NEW c \in Parts
        PROVE  /\ chunk(c).seg = "Quotients" /\ chunk(c).rep = "values"
               /\ chunk(c).order = "bitrev" /\ chunk(c).idx = k
               /\ chunk(c).coset = <<1, Rev(c)>> /\ chunk(c).prove = pv
    <3>1. PICK f : f = chunk(c) /\ Is(f, "Quotients", k, pv, "values", "bitrev", <<1, Rev(c)>>)
      BY <1>1
    <3>2. /\ f.seg = "Quotients" /\ f.idx = k /\ f.prove = pv /\ f.rep = "values"
          /\ f.order = "bitrev" /\ f.coset = <<1, Rev(c)>>
      BY <3>1, IsFields
    <3> QED
      BY <3>1, <3>2
  <2> QED
    BY <1>2, <2>1
<1>4. PICK x : x = UNION {chunk(c).sum : c \in Parts}
  OBVIOUS
<1>5. Times(G, GInv) = <<0, 0>>
  BY TimesPair DEF G, GInv
<1>6. JoinParts(k)[b] = Form("Quotients", k * Rate + b, pv, "coeffs", "natural", <<0, 0>>, x)
  BY <1>2, <1>3, <1>4, <1>5 DEF JoinParts
<1>7. SumOk("Quotients", pv, x)
  <2> HIDE DEF chunk
  <2>1. \A c \in Parts : QuotientSum(pv, chunk(c).sum)
    BY <1>1 DEF Is, SumOk
  <2>2. \A e : e \in x <=> \E c \in Parts : e \in chunk(c).sum
    BY <1>4
  <2>3. x \ {"stale", "tail"} = Constraints
    <3>1. \A c \in Parts : chunk(c).sum \ {"stale", "tail"} = Constraints
      BY <2>1 DEF QuotientSum
    <3> QED
      BY <1>2, <2>2, <3>1
  <2>4. FoundZero("fp_inputs", pv) => "stale" \notin x
    BY <2>1, <2>2 DEF QuotientSum
  <2>5. FoundZero("ldes", pv) => "tail" \notin x
    BY <2>1, <2>2 DEF QuotientSum
  <2> QED
    BY <2>3, <2>4, <2>5 DEF SumOk, QuotientSum
<1> QED
  BY <1>6, <1>7, IsForm

LEMMA QuotientIntt ==
    ASSUME NEW pv, Chunks(pv, fp, Rate), seg = "Quotients", NEW F2,
           \A q \in SlotsOf("Quotients") : F2[q] = InttSlot(q)
    PROVE  Moved(F2, "Quotients", pv, 0, <<0, 0>>)
<1> SUFFICES ASSUME NEW j \in Index("Quotients")
             PROVE  Is(F2[FpSlot("Quotients", j)], "Quotients", j, pv, "coeffs", "natural", <<0, 0>>)
  BY DEF Moved
<1>1. FpSlot("Quotients", j) \in SlotsOf("Quotients")
  BY SlotMember DEF Segments
<1>2. FpSlot("Quotients", j) - FpSlot("Quotients", 0) = j
  BY SlotIndex DEF Segments
<1>3. PICK k \in Challenges, b \in Parts : k = j \div Rate /\ b = j % Rate /\ j = k * Rate + b
  BY ChunkOf
<1>4. F2[FpSlot("Quotients", j)] = JoinParts(k)[b]
  BY <1>1, <1>2, <1>3 DEF InttSlot
<1> QED
  BY <1>3, <1>4, PartsJoined

LEMMA IntegerRange == \A f \in Int, n \in Nat : \A j \in 0..(n - 1) : f + j \in f..(f + n - 1) /\ (f + j) - f = j
OBVIOUS

LEMMA ExtendFirst ==
    ASSUME NEW pv, NEW N, NEW F, NEW L, NEW T, NEW sg, NEW pt, NEW ml, NEW pr,
           FirstProve(pv, N, F, L, T, "lde", sg, pt, ml, pr), NEW L2, NEW first,
           first = LdeSlot(N, sg, 0),
           L2 = [q \in Slots |-> IF q \in first .. first + N[sg] - 1
                                 THEN Lde(F[FpSlot(sg, q - first)], L[q]) ELSE L[q]]
    PROVE  FirstProve(pv, N, F, L2, T, "tree", sg, 0, G, pr)
<1>1. sg \in Segments /\ LdesFit(N) /\ N \in [Segments -> Nat]
  BY DEF FirstProve, FirstControl, LdesFit
<1>2. first \in Nat /\ N[sg] \in Nat /\ \A j \in 0..(N[sg] - 1) : LdeSlot(N, sg, j) = first + j
  <2>1. PICK a, b, c, d \in Nat : /\ a = N["ConstantsSigmas"] /\ b = N["Wires"]
                                  /\ c = N["PartialProducts"] /\ d = N["Quotients"]
    BY <1>1 DEF Segments
  <2>2. Offset(N, sg) \in Nat
    BY <1>1, <2>1 DEF Offset, Segments
  <2>3. N[sg] \in Nat
    BY <1>1
  <2> QED
    BY <2>2, <2>3 DEF LdeSlot
<1>3. ASSUME NEW j \in 0..(N[sg] - 1)
      PROVE  Extension(L2[LdeSlot(N, sg, j)], sg, j, Nth(pv, sg), F[FpSlot(sg, j)].sum)
  <2>1. LdeSlot(N, sg, j) \in Slots
        /\ (FoundZero("ldes", Nth(pv, sg)) => L[LdeSlot(N, sg, j)] = Zero)
    <3>1. sg \in Ahead("lde", sg)
      BY <1>1 DEF Ahead, Finished, Committing, Prior, QuotientInputs, Segments
    <3>2. Untouched(pv, N, L, sg)
      BY <3>1 DEF FirstProve, FirstBuffers
    <3> QED
      BY <1>1, <3>2, LdeSlotApart DEF Untouched
  <2>2. PICK q : q = LdeSlot(N, sg, j) /\ q = first + j /\ q \in first .. first + N[sg] - 1 /\ q - first = j
    BY <1>2, IntegerRange
  <2>3. PICK out : out = L[q] /\ L2[q] = Lde(F[FpSlot(sg, j)], out)
    BY <2>1, <2>2
  <2>4. j \in Index(sg)
    BY <1>1, IndexLdes
  <2>5. PICK f : f = F[FpSlot(sg, j)] /\ Is(f, sg, j, Nth(pv, sg), "coeffs", "natural", <<0, 0>>)
    BY <2>4 DEF FirstProve, FirstBuffers, UnderWay, Moved
  <2>6. Extension(Lde(f, out), sg, j, Nth(pv, sg), f.sum)
    BY <2>1, <2>2, <2>3, <2>5, LdeForm
  <2> QED
    BY <2>2, <2>3, <2>5, <2>6
<1>4. ASSUME NEW t \in Segments, t # sg PROVE SameLdes(L2, L, N, t)
  <2> SUFFICES ASSUME NEW k \in 0..(N[t] - 1) PROVE L2[LdeSlot(N, t, k)] = L[LdeSlot(N, t, k)]
    BY DEF SameLdes
  <2>1. PICK q : q = LdeSlot(N, t, k) /\ q \in Slots
    BY <1>1, LdeSlotApart
  <2>2. ASSUME q \in first .. first + N[sg] - 1 PROVE FALSE
    <3>1. PICK j \in 0..(N[sg] - 1) : q = first + j
      <4>1. PICK a, n \in Nat : a = first /\ n = N[sg] /\ q \in a .. a + n - 1
        BY <1>2, <2>2
      <4>2. q - a \in 0..(n - 1) /\ q = a + (q - a)
        BY <4>1
      <4> QED
        BY <4>1, <4>2
    <3>2. LdeSlot(N, sg, j) = LdeSlot(N, t, k)
      BY <1>2, <2>1, <3>1
    <3> QED
      BY <1>1, <1>4, <3>2, LdeSlotApart
  <2> QED
    BY <2>1, <2>2
<1>5. FirstControl(pv, N, T, "tree", sg, 0, G, pr)
  BY CountType DEF FirstProve, FirstControl, FirstCount, Committing, MulVal
<1>6. /\ Finished("tree", sg) = Finished("lde", sg) /\ sg \notin Finished("tree", sg)
      /\ Finished("tree", sg) \subseteq Segments
      /\ \A s \in Ahead("tree", sg) : s \in Ahead("lde", sg) /\ s \in Segments /\ s # sg
  BY <1>1 DEF Finished, Committing, Prior, QuotientInputs, Segments, Ahead
<1>7. ASSUME NEW s \in Finished("tree", sg) PROVE Ready(pv, N, F, L2, T, s, <<0, 0>>)
  <2>1. s \in Segments /\ s # sg /\ Ready(pv, N, F, L, T, s, <<0, 0>>)
    BY <1>6, <1>7 DEF FirstProve, FirstBuffers
  <2>2. SameSegment(F, F, s) /\ SameLdes(L2, L, N, s)
    BY <1>4, <2>1 DEF SameSegment
  <2> QED
    BY <1>1, <2>1, <2>2, ReadyKept
<1>8. ASSUME NEW s \in Ahead("tree", sg) PROVE Untouched(pv, N, L2, s)
  <2>1. Untouched(pv, N, L, s) /\ SameLdes(L2, L, N, s)
    BY <1>4, <1>6, <1>8 DEF FirstProve, FirstBuffers
  <2> QED
    BY <2>1 DEF Untouched, SameLdes
<1>9. UnderWay(pv, N, F, L2, T, "tree", sg, 0)
  <2>1. Moved(F, sg, Nth(pv, sg), 0, <<0, 0>>)
    BY DEF FirstProve, FirstBuffers, UnderWay
  <2>2. Moved(F, sg, Nth(pv, sg), FirstMoved(N, sg), <<0, 0>>)
    BY <2>1, MovedPlain
  <2>3. Extended(F, L2, N, sg, Nth(pv, sg))
    BY <1>3 DEF Extended
  <2>4. Hashed(F, L2, N, T, sg, Nth(pv, sg), 0)
    BY DEF Hashed
  <2>5. Reached(0) = <<0, 0>>
    BY DEF Reached
  <2> QED
    BY <2>2, <2>3, <2>4, <2>5 DEF UnderWay
<1>10. NotDivided("tree", sg) => ClearFrom(pv, F, 0)
  BY DEF FirstProve, FirstBuffers, NotDivided, Committing
<1> QED
  BY <1>5, <1>7, <1>8, <1>9, <1>10 DEF FirstProve, FirstBuffers

(* The leaves of one part are stored in its block.                          *)
Leaves(T2, T, N, F1, L, s, p) ==
    /\ T2 = [t \in Segments |-> [b \in Parts |-> T2[t][b]]]
    /\ \A t \in Segments : t # s => T2[t] = T[t]
    /\ \A b \in Parts : b # Rev(p) => T2[s][b] = T[s][b]
    /\ \A j \in Index(s) : T2[s][Rev(p)][j] = IF Partial(s) /\ j < N[s]
                                              THEN LdeBlock(L[LdeSlot(N, s, j)], Rev(p))
                                              ELSE F1[FpSlot(s, j)]

LEMMA PartHashed ==
    ASSUME NEW N, NEW F, NEW L, NEW T, NEW s \in Segments, NEW n, NEW p \in Parts, LdesFit(N),
           Extended(F, L, N, s, n), Hashed(F, L, N, T, s, n, p), NEW F1, NEW F2, SameSums(F2, F, s),
           Twisted(F1, F, s, n, FirstMoved(N, s), p), NEW T2, Leaves(T2, T, N, F1, L, s, p)
    PROVE  Hashed(F2, L, N, T2, s, n, p + 1)
<1>1. p \in Nat /\ p < Rate /\ Rate \in Nat /\ 0..(p - 1) \subseteq Parts
  BY CountType DEF Parts
<1>2. Hashed(F2, L, N, T2, s, n, p)
  <2>1. ASSUME NEW i \in 0..(p - 1) PROVE T2[s][Rev(i)] = T[s][Rev(i)]
    <3>1. i \in Parts /\ i # p
      BY <1>1
    <3>2. Rev(i) \in Parts /\ Rev(i) # Rev(p)
      BY <3>1, RevParts
    <3> QED
      BY <3>2 DEF Leaves
  <2> QED
    BY <2>1, LdesSame, HashedKept
<1>3. ASSUME NEW j \in Index(s)
      PROVE  T2[s][Rev(p)][j]
                 = Form(s, j, n, "values", "bitrev", <<1, p>>, LeafSum(F2, L, N, s, j))
  <2>1. j \in Nat /\ N[s] \in Nat /\ (j < N[s] <=> j \in 0..(N[s] - 1))
    BY IndexLdes
  <2>2. F2[FpSlot(s, j)].sum = F[FpSlot(s, j)].sum
    BY DEF SameSums
  <2>3. CASE Partial(s) /\ j < N[s]
    <3>1. T2[s][Rev(p)][j] = LdeBlock(L[LdeSlot(N, s, j)], Rev(p))
      BY <2>3 DEF Leaves
    <3>2. j \in 0..(N[s] - 1)
      BY <2>1, <2>3
    <3>3. LdeBlock(L[LdeSlot(N, s, j)], Rev(p))
              = Form(s, j, n, "values", "bitrev", <<1, p>>, L[LdeSlot(N, s, j)].sum)
      <4>1. Blocks(L, N, s, n, p)
        BY ExtensionBlock
      <4> QED
        BY <3>2, <4>1 DEF Blocks
    <3>4. LeafSum(F2, L, N, s, j) = L[LdeSlot(N, s, j)].sum
      BY <2>3 DEF LeafSum
    <3> QED
      BY <3>1, <3>3, <3>4
  <2>4. CASE ~(Partial(s) /\ j < N[s])
    <3>1. T2[s][Rev(p)][j] = F1[FpSlot(s, j)]
      BY <2>4 DEF Leaves
    <3>2. j >= FirstMoved(N, s)
      BY <2>1, <2>4 DEF FirstMoved
    <3>3. LeafSum(F2, L, N, s, j) = F[FpSlot(s, j)].sum
      BY <2>2, <2>4 DEF LeafSum
    <3> QED
      BY <3>1, <3>2, <3>3 DEF Twisted
  <2> QED
    BY <2>3, <2>4
<1>4. \A i \in 0..((p + 1) - 1) : i \in 0..(p - 1) \/ i = p
  BY <1>1
<1> QED
  BY <1>2, <1>3, <1>4 DEF Hashed

LEMMA TreePartFirst ==
    ASSUME NEW pv, NEW N, NEW F, NEW L, NEW T, NEW sg, NEW pt, NEW ml, NEW pr,
           FirstProve(pv, N, F, L, T, "tree", sg, pt, ml, pr), pt < Rate,
           NEW M, Moves(M, sg, FirstMoved(N, sg)), M \subseteq SlotsOf(sg),
           NEW F1, F1 = Twist(F, M, pt), NEW F2, F2 = TwistBack(F1, M),
           NEW T2, Leaves(T2, T, N, F1, L, sg, pt)
    PROVE  FirstProve(pv, N, F2, L, T2, "tree", sg, pt + 1, W, pr)
<1>1. sg \in Segments /\ LdesFit(N) /\ pt \in 0..Rate /\ Rate \in Nat
  BY CountType DEF FirstProve, FirstControl
<1>2. pt \in Parts /\ pt + 1 \in 0..Rate /\ pt + 1 # 0
  BY <1>1 DEF Parts
<1>3. FirstControl(pv, N, T2, "tree", sg, pt + 1, W, pr)
  <2>1. T2 = [s \in Segments |-> [b \in Parts |-> T2[s][b]]]
    BY DEF Leaves
  <2> QED
    BY <1>2, <2>1 DEF FirstProve, FirstControl, MulVal
<1>4. /\ Moved(F, sg, Nth(pv, sg), FirstMoved(N, sg), Reached(pt))
      /\ Extended(F, L, N, sg, Nth(pv, sg)) /\ Hashed(F, L, N, T, sg, Nth(pv, sg), pt)
  BY DEF FirstProve, FirstBuffers, UnderWay
<1>5. /\ Moved(F2, sg, Nth(pv, sg), FirstMoved(N, sg), Reached(pt + 1)) /\ SameSums(F2, F, sg)
      /\ Twisted(F1, F, sg, Nth(pv, sg), FirstMoved(N, sg), pt)
  BY <1>1, <1>2, <1>4, SegmentTwisted
<1>6. Hashed(F2, L, N, T2, sg, Nth(pv, sg), pt + 1)
  BY <1>1, <1>2, <1>4, <1>5, PartHashed
<1>7. Extended(F2, L, N, sg, Nth(pv, sg))
  BY <1>1, <1>4, <1>5, LdesSame, ExtendedKept
<1>8. UnderWay(pv, N, F2, L, T2, "tree", sg, pt + 1)
  BY <1>5, <1>6, <1>7 DEF UnderWay
<1>9. \A q \in Slots : q \notin SlotsOf(sg) => F2[q] = F[q]
  BY DEF Twist, TwistBack
<1>10. sg \notin Finished("tree", sg) /\ Finished("tree", sg) \subseteq Segments
  BY <1>1 DEF Finished, Committing, Prior, QuotientInputs, Segments
<1>11. ASSUME NEW s \in Finished("tree", sg) PROVE Ready(pv, N, F2, L, T2, s, <<0, 0>>)
  <2>1. s \in Segments /\ s # sg /\ Ready(pv, N, F, L, T, s, <<0, 0>>)
    BY <1>10, <1>11 DEF FirstProve, FirstBuffers
  <2>2. SameSegment(F2, F, s) /\ T2[s] = T[s]
    BY <1>1, <1>9, <2>1, OthersKept DEF Leaves
  <2> QED
    BY <1>1, <2>1, <2>2, LdesSame, ReadyKept
<1>12. \A s \in Ahead("tree", sg) : Untouched(pv, N, L, s)
  BY DEF FirstProve, FirstBuffers
<1>13. NotDivided("tree", sg) => ClearFrom(pv, F2, 0)
  <2> SUFFICES ASSUME sg # "Quotients", ClearFrom(pv, F, 0) PROVE ClearFrom(pv, F2, 0)
    BY DEF FirstProve, FirstBuffers, NotDivided, Committing
  <2>1. SameSegment(F2, F, "Quotients")
    <3>1. "Quotients" \in Segments
      BY DEF Segments
    <3> QED
      BY <1>1, <1>9, <3>1, OthersKept
  <2> QED
    BY <2>1, ClearKept
<1> QED
  BY <1>3, <1>8, <1>11, <1>12, <1>13 DEF FirstProve, FirstBuffers

LEMMA TreeDoneFirst ==
    ASSUME NEW pv, NEW N, NEW F, NEW L, NEW T, NEW sg, NEW ml, NEW pr,
           FirstProve(pv, N, F, L, T, "tree", sg, Rate, ml, pr),
           NEW M, Moves(M, sg, FirstMoved(N, sg)), M \subseteq SlotsOf(sg),
           NEW F2, F2 = UntwistAll(F, M), NEW ph, ph = AfterCommit[sg]
    PROVE  FirstProve(pv, N, F2, L, T, ph, sg, 0, G, pr)
<1>1. sg \in Segments /\ LdesFit(N) /\ 0 \in 0..Rate
  BY CountType DEF FirstProve, FirstControl
<1>2. /\ ph \in {"build", "zp", "quotient", "open"}
      /\ sg = "ConstantsSigmas" <=> ph = "build"
      /\ sg = "Wires" <=> ph = "zp"
      /\ sg = "PartialProducts" <=> ph = "quotient"
      /\ sg = "Quotients" <=> ph = "open"
  BY <1>1 DEF AfterCommit, Segments
<1>3. FirstControl(pv, N, T, ph, sg, 0, G, pr)
  BY <1>1, <1>2 DEF FirstProve, FirstControl, FirstCount, Committing, MulVal
<1>4. /\ Moved(F, sg, Nth(pv, sg), FirstMoved(N, sg), Reached(Rate))
      /\ Extended(F, L, N, sg, Nth(pv, sg)) /\ Hashed(F, L, N, T, sg, Nth(pv, sg), Rate)
  BY DEF FirstProve, FirstBuffers, UnderWay
<1>5. Moved(F2, sg, Nth(pv, sg), FirstMoved(N, sg), <<0, 0>>) /\ SameSums(F2, F, sg)
  BY <1>1, <1>4, SegmentUntwisted
<1>6. Ready(pv, N, F2, L, T, sg, <<0, 0>>)
  <2>1. Moved(F2, sg, Nth(pv, sg), N[sg], <<0, 0>>)
    BY <1>5, MovedPlain
  <2>2. Extended(F2, L, N, sg, Nth(pv, sg))
    BY <1>1, <1>4, <1>5, LdesSame, ExtendedKept
  <2>3. Hashed(F2, L, N, T, sg, Nth(pv, sg), Rate)
    BY <1>1, <1>4, <1>5, LdesSame, HashedKept
  <2> QED
    BY <2>1, <2>2, <2>3 DEF Ready
<1>7. \A q \in Slots : q \notin SlotsOf(sg) => F2[q] = F[q]
  BY DEF UntwistAll
<1>8. /\ sg \notin Finished("tree", sg) /\ Finished("tree", sg) \subseteq Segments
      /\ Finished(ph, sg) = Finished("tree", sg) \union {sg} /\ Ahead(ph, sg) = Ahead("tree", sg)
  <2>1. /\ sg \notin Finished("tree", sg) /\ Finished("tree", sg) \subseteq Segments
        /\ Finished(ph, sg) = Finished("tree", sg) \union {sg}
    BY <1>1, <1>2, ControlPhase DEF Segments
  <2> QED
    BY <1>2, <2>1 DEF Ahead
<1>9. ASSUME NEW s \in Finished(ph, sg)
      PROVE  Ready(pv, N, F2, L, T, s, IF ph = "quotient" THEN Reached(0) ELSE <<0, 0>>)
  <2>1. Reached(0) = <<0, 0>>
    BY DEF Reached
  <2>2. CASE s # sg
    <3>1. s \in Segments /\ Ready(pv, N, F, L, T, s, <<0, 0>>)
      BY <1>8, <1>9, <2>2 DEF FirstProve, FirstBuffers
    <3>2. SameSegment(F2, F, s)
      BY <1>1, <1>7, <2>2, <3>1, OthersKept
    <3> QED
      BY <1>1, <2>1, <3>1, <3>2, LdesSame, ReadyKept
  <2> QED
    BY <1>6, <2>1, <2>2
<1>10. \A s \in Ahead(ph, sg) : Untouched(pv, N, L, s)
  BY <1>8 DEF FirstProve, FirstBuffers
<1>11. sg # "Quotients" => ClearFrom(pv, F2, 0)
  <2> SUFFICES ASSUME sg # "Quotients" PROVE ClearFrom(pv, F2, 0)
    OBVIOUS
  <2>1. ClearFrom(pv, F, 0)
    BY DEF FirstProve, FirstBuffers, NotDivided, Committing
  <2>2. SameSegment(F2, F, "Quotients")
    <3>1. "Quotients" \in Segments
      BY DEF Segments
    <3> QED
      BY <1>1, <1>7, <3>1, OthersKept
  <2> QED
    BY <2>1, <2>2, ClearKept
<1>12. UnderWay(pv, N, F2, L, T, ph, sg, 0)
  <2>1. Chunks(pv, F2, 0)
    BY DEF Chunks
  <2> QED
    BY <1>2, <1>11, <2>1 DEF UnderWay
<1>13. NotDivided(ph, sg) => ClearFrom(pv, F2, 0)
  BY <1>2, <1>11 DEF NotDivided, Committing
<1> QED
  BY <1>3, <1>9, <1>10, <1>12, <1>13 DEF FirstProve, FirstBuffers

(* The witness is scattered over the wires.                                 *)
LEMMA WiresWritten ==
    ASSUME NEW n, NEW F2, F2 = WiresWith(n)
    PROVE  /\ Valued(F2, "Wires", n)
           /\ \A s \in Segments : s # "Wires" => SameSegment(F2, fp, s)
<1>1. "Wires" \in Segments /\ "Wires" # "Quotients"
  BY DEF Segments
<1>2. ASSUME NEW j \in Index("Wires") PROVE F2[FpSlot("Wires", j)] = Values("Wires", j, n)
  <2>1. PICK q \in Slots : q = FpSlot("Wires", j) /\ q \in SlotsOf("Wires") /\ q - FpSlot("Wires", 0) = j
    BY <1>1, SlotMember, SlotIndex
  <2> QED
    BY <2>1 DEF WiresWith
<1>3. Valued(F2, "Wires", n)
  BY <1>1, <1>2, WrittenValues
<1>4. \A q \in Slots : q \notin SlotsOf("Wires") => F2[q] = fp[q]
  BY DEF WiresWith
<1> QED
  BY <1>1, <1>3, <1>4, OthersKept

LEMMA BuildFirst ==
    ASSUME NEW pv, NEW N, NEW F, NEW L, NEW T, NEW sg, NEW pt, NEW ml, NEW pr,
           FirstProve(pv, N, F, L, T, "build", sg, pt, ml, pr), NEW F2,
           \A s \in Segments : s # "Wires" => SameSegment(F2, F, s)
    PROVE  FirstProve(pv, N, F2, L, T, "scatter", sg, pt, ml, pr)
<1>1. /\ "ConstantsSigmas" \in Segments /\ "Quotients" \in Segments
      /\ "ConstantsSigmas" # "Wires" /\ "Quotients" # "Wires"
  BY DEF Segments
<1>2. FirstControl(pv, N, T, "scatter", sg, pt, ml, pr) /\ LdesFit(N)
  BY DEF FirstProve, FirstControl, FirstCount
<1>3. Ready(pv, N, F2, L, T, "ConstantsSigmas", <<0, 0>>)
  <2>1. Ready(pv, N, F, L, T, "ConstantsSigmas", <<0, 0>>)
    BY ControlPhase DEF FirstProve, FirstBuffers
  <2> QED
    BY <1>1, <1>2, <2>1, LdesSame, ReadyKept
<1>4. \A s \in Ahead("scatter", sg) : Untouched(pv, N, L, s)
  BY ControlPhase DEF FirstProve, FirstBuffers, Ahead
<1>5. UnderWay(pv, N, F2, L, T, "scatter", sg, pt)
  BY DEF UnderWay
<1>6. ClearFrom(pv, F2, 0)
  BY <1>1, ClearKept DEF FirstProve, FirstBuffers, NotDivided
<1> QED
  BY <1>2, <1>3, <1>4, <1>5, <1>6, ControlPhase DEF FirstProve, FirstBuffers

LEMMA ScatterFirst ==
    ASSUME NEW pv, NEW N, NEW F, NEW L, NEW T, NEW sg, NEW pt, NEW ml, NEW pr,
           FirstProve(pv, N, F, L, T, "scatter", sg, pt, ml, pr), NEW F2, Valued(F2, "Wires", pv),
           \A s \in Segments : s # "Wires" => SameSegment(F2, F, s)
    PROVE  FirstProve(pv, N, F2, L, T, "intt", "Wires", pt, ml, pv)
<1>1. /\ "ConstantsSigmas" \in Segments /\ "Quotients" \in Segments /\ "Wires" \in Segments
      /\ "ConstantsSigmas" # "Wires" /\ "Quotients" # "Wires"
  BY DEF Segments
<1>2. FirstControl(pv, N, T, "intt", "Wires", pt, ml, pv) /\ LdesFit(N)
  BY <1>1 DEF FirstProve, FirstControl, FirstCount, Committing
<1>3. Ready(pv, N, F2, L, T, "ConstantsSigmas", <<0, 0>>)
  <2>1. Ready(pv, N, F, L, T, "ConstantsSigmas", <<0, 0>>)
    BY ControlPhase DEF FirstProve, FirstBuffers
  <2> QED
    BY <1>1, <1>2, <2>1, LdesSame, ReadyKept
<1>4. \A s \in Ahead("intt", "Wires") : Untouched(pv, N, L, s)
  BY ControlPhase DEF FirstProve, FirstBuffers, Ahead
<1>5. UnderWay(pv, N, F2, L, T, "intt", "Wires", pt)
  BY DEF UnderWay, Nth
<1>6. ClearFrom(pv, F2, 0)
  BY <1>1, ClearKept DEF FirstProve, FirstBuffers, NotDivided
<1> QED
  BY <1>2, <1>3, <1>4, <1>5, <1>6, ControlPhase DEF FirstProve, FirstBuffers

(* zp transforms the sigmas and the routed wires and back.                  *)
LEMMA RoundTrip ==
    ASSUME NEW f, NEW s, NEW j, NEW n, Is(f, s, j, n, "coeffs", "natural", <<0, 0>>), NEW g,
           g = NttInPlace(f, FALSE)
    PROVE  Plain(g, s, j, n, "values") /\ NttInPlace(g, TRUE) = f
<1>1. Becomes(g, f, s, j, n, "values", "natural", <<0, 0>>)
  BY NttForm
<1>2. Plain(g, s, j, n, "values")
  <2>1. Is(g, s, j, n, "values", "natural", <<0, 0>>)
    BY <1>1 DEF Becomes
  <2> QED
    BY <2>1, IsFields, ZenonT(60) DEF Plain
<1>3. Becomes(NttInPlace(g, TRUE), g, s, j, n, "coeffs", "natural", <<0, 0>>)
  <2>1. Is(g, s, j, n, "values", "natural", <<0, 0>>)
    BY <1>1 DEF Becomes
  <2> QED
    BY <2>1, InttForm
<1>4. NttInPlace(g, TRUE) = Form(s, j, n, "coeffs", "natural", <<0, 0>>, f.sum)
  BY <1>1, <1>3 DEF Becomes
<1> QED
  BY <1>2, <1>4 DEF Is

LEMMA ZpSlots ==
    /\ \A q \in ZpRange : \/ \E j \in Index("ConstantsSigmas") : q = FpSlot("ConstantsSigmas", j)
                          \/ \E j \in Index("Wires") : q = FpSlot("Wires", j)
    /\ \A r \in 0..(NumRouted - 1) :
          /\ r \in Index("Wires") /\ FpSlot("Wires", r) \in ZpRange
          /\ NumConstants + r \in Index("ConstantsSigmas") /\ NumConstants + r \in ZpRange
          /\ FpSlot("ConstantsSigmas", NumConstants + r) = NumConstants + r
<1>1. PICK c, r, w \in Nat : c = NumConstants /\ r = NumRouted /\ w = NumWires /\ r <= w
  BY LayoutAssumption
<1>2. /\ Index("ConstantsSigmas") = 0..(c + r - 1) /\ Index("Wires") = 0..(w - 1)
      /\ \A j : FpSlot("ConstantsSigmas", j) = 0 + j /\ FpSlot("Wires", j) = (c + r) + j
  BY <1>1, CountType DEF Index, FpSlot, Offset
<1>3. ZpRange = c..(c + 2 * r - 1)
  BY <1>1 DEF ZpRange
<1>4. ASSUME NEW q \in ZpRange
      PROVE  \/ \E j \in Index("ConstantsSigmas") : q = FpSlot("ConstantsSigmas", j)
             \/ \E j \in Index("Wires") : q = FpSlot("Wires", j)
  <2>1. CASE q < c + r
    <3>1. q \in 0..(c + r - 1) /\ q = 0 + q
      BY <1>3, <2>1
    <3> QED
      BY <1>2, <3>1
  <2>2. CASE ~(q < c + r)
    <3>1. q - (c + r) \in 0..(w - 1) /\ q = (c + r) + (q - (c + r))
      BY <1>1, <1>3, <2>2
    <3> QED
      BY <1>2, <3>1
  <2> QED
    BY <2>1, <2>2
<1>5. ASSUME NEW i \in 0..(r - 1)
      PROVE  /\ i \in 0..(w - 1) /\ (c + r) + i \in c..(c + 2 * r - 1)
             /\ c + i \in 0..(c + r - 1) /\ c + i \in c..(c + 2 * r - 1) /\ 0 + (c + i) = c + i
  BY <1>1
<1> QED
  BY <1>1, <1>2, <1>3, <1>4, <1>5

ZpReads(F1, n) ==
    \A r \in 0 .. NumRouted - 1 :
        /\ Plain(F1[FpSlot("Wires", r)], "Wires", r, n, "values")
        /\ Plain(F1[NumConstants + r], "ConstantsSigmas", NumConstants + r, 0, "values")

ZpForward(F) == [q \in Slots |-> IF q \in ZpRange THEN NttInPlace(F[q], FALSE) ELSE F[q]]

ZpResult(F, F1, n) ==
    [q \in Slots |->
       CASE q \in SlotsOf("PartialProducts") ->
              IF ZpReads(F1, n)
              THEN Values("PartialProducts", q - FpSlot("PartialProducts", 0), n) ELSE Junk
         [] q \in ZpRange -> NttInPlace(F1[q], TRUE)
         [] OTHER -> F[q]]

LEMMA ZpKept ==
    ASSUME NEW pv, NEW F, NEW c, Moved(F, "ConstantsSigmas", 0, c, <<0, 0>>), NEW w,
           Moved(F, "Wires", pv, w, <<0, 0>>),
           NEW F1, F1 = ZpForward(F), NEW F2, F2 = ZpResult(F, F1, pv)
    PROVE  /\ Valued(F2, "PartialProducts", pv)
           /\ \A s \in Segments : s # "PartialProducts" => SameSegment(F2, F, s)
<1>1. /\ "ConstantsSigmas" \in Segments /\ "Wires" \in Segments /\ "PartialProducts" \in Segments
      /\ "PartialProducts" # "Quotients"
  BY DEF Segments
<1>2. ASSUME NEW q \in ZpRange
      PROVE  q \in Slots /\ q \notin SlotsOf("PartialProducts")
             /\ NttInPlace(F1[q], TRUE) = F[q]
             /\ \A s \in {"ConstantsSigmas", "Wires"} : \A j \in Index(s) :
                    q = FpSlot(s, j) => Plain(F1[q], s, j, Nth(pv, s), "values")
  <2>1. PICK s \in {"ConstantsSigmas", "Wires"} : \E j \in Index(s) : q = FpSlot(s, j)
    BY ZpSlots
  <2>2. PICK j \in Index(s) : q = FpSlot(s, j)
    BY <2>1
  <2>3. s \in Segments /\ s # "PartialProducts"
    BY <1>1, <2>1
  <2>4. q \in Slots /\ q \notin SlotsOf("PartialProducts")
    BY <1>1, <2>2, <2>3, FpSlotApart DEF SlotsOf
  <2>5. PICK f, g : f = F[q] /\ g = NttInPlace(f, FALSE) /\ g = F1[q]
    BY <2>4 DEF ZpForward
  <2>6. Is(f, s, j, Nth(pv, s), "coeffs", "natural", <<0, 0>>)
    BY <2>1, <2>2, <2>5 DEF Moved, Nth
  <2>7. Plain(g, s, j, Nth(pv, s), "values") /\ NttInPlace(g, TRUE) = f
    BY <2>5, <2>6, RoundTrip
  <2>8. ASSUME NEW t \in {"ConstantsSigmas", "Wires"}, NEW k \in Index(t), q = FpSlot(t, k)
        PROVE  t = s /\ k = j
    <3>1. t \in Segments
      BY <1>1
    <3>2. FpSlot(t, k) = FpSlot(s, j)
      BY <2>2, <2>8
    <3> QED
      BY <2>3, <3>1, <3>2, FpSlotApart
  <2> QED
    BY <2>4, <2>5, <2>7, <2>8
<1>3. ZpReads(F1, pv)
  <2> SUFFICES ASSUME NEW r \in 0..(NumRouted - 1)
               PROVE  /\ Plain(F1[FpSlot("Wires", r)], "Wires", r, pv, "values")
                      /\ Plain(F1[NumConstants + r], "ConstantsSigmas", NumConstants + r, 0, "values")
    BY DEF ZpReads
  <2>1. PICK q, p : /\ q = FpSlot("Wires", r) /\ q \in ZpRange /\ r \in Index("Wires")
                    /\ p = NumConstants + r /\ p \in ZpRange /\ p \in Index("ConstantsSigmas")
                    /\ p = FpSlot("ConstantsSigmas", p)
    BY ZpSlots
  <2>2. Plain(F1[q], "Wires", r, Nth(pv, "Wires"), "values")
    BY <1>2, <2>1
  <2>3. Plain(F1[p], "ConstantsSigmas", p, Nth(pv, "ConstantsSigmas"), "values")
    BY <1>2, <2>1
  <2> QED
    BY <2>1, <2>2, <2>3 DEF Nth
<1>4. ASSUME NEW j \in Index("PartialProducts")
      PROVE  F2[FpSlot("PartialProducts", j)] = Values("PartialProducts", j, pv)
  <2>1. PICK q \in Slots : /\ q = FpSlot("PartialProducts", j) /\ q \in SlotsOf("PartialProducts")
                           /\ q - FpSlot("PartialProducts", 0) = j
    BY <1>1, SlotMember, SlotIndex
  <2>2. q \notin ZpRange
    BY <1>2, <2>1
  <2> QED
    BY <1>3, <2>1, <2>2 DEF ZpResult
<1>5. \A q \in Slots : q \notin SlotsOf("PartialProducts") => F2[q] = F[q]
  <2> SUFFICES ASSUME NEW q \in Slots, q \notin SlotsOf("PartialProducts") PROVE F2[q] = F[q]
    OBVIOUS
  <2>1. F2[q] = IF q \in ZpRange THEN NttInPlace(F1[q], TRUE) ELSE F[q]
    BY DEF ZpResult
  <2> QED
    BY <1>2, <2>1
<1> QED
  BY <1>1, <1>4, <1>5, WrittenValues, OthersKept

LEMMA ZpFirst ==
    ASSUME NEW pv, NEW N, NEW F, NEW L, NEW T, NEW sg, NEW pt, NEW ml, NEW pr,
           FirstProve(pv, N, F, L, T, "zp", sg, pt, ml, pr), NEW F1, F1 = ZpForward(F),
           NEW F2, F2 = ZpResult(F, F1, pr)
    PROVE  FirstProve(pv, N, F2, L, T, "intt", "PartialProducts", pt, ml, pr)
<1>1. /\ "ConstantsSigmas" \in Segments /\ "Wires" \in Segments /\ "PartialProducts" \in Segments
      /\ "Quotients" \in Segments /\ "PartialProducts" \notin {"ConstantsSigmas", "Wires", "Quotients"}
  BY DEF Segments
<1>2. FirstControl(pv, N, T, "intt", "PartialProducts", pt, ml, pr) /\ LdesFit(N) /\ pr = pv
  BY <1>1 DEF FirstProve, FirstControl, FirstCount, Committing
<1>3. /\ Ready(pv, N, F, L, T, "ConstantsSigmas", <<0, 0>>)
      /\ Ready(pv, N, F, L, T, "Wires", <<0, 0>>)
  BY ControlPhase DEF FirstProve, FirstBuffers
<1>4. /\ Valued(F2, "PartialProducts", pv)
      /\ \A s \in Segments : s # "PartialProducts" => SameSegment(F2, F, s)
  <2>1. /\ Moved(F, "ConstantsSigmas", 0, N["ConstantsSigmas"], <<0, 0>>)
        /\ Moved(F, "Wires", pv, N["Wires"], <<0, 0>>)
    BY <1>3 DEF Ready, Nth
  <2> QED
    BY <1>2, <2>1, ZpKept
<1>5. \A s \in {"ConstantsSigmas", "Wires"} : Ready(pv, N, F2, L, T, s, <<0, 0>>)
  <2> SUFFICES ASSUME NEW s \in {"ConstantsSigmas", "Wires"} PROVE Ready(pv, N, F2, L, T, s, <<0, 0>>)
    OBVIOUS
  <2>1. s \in Segments /\ SameSegment(F2, F, s) /\ Ready(pv, N, F, L, T, s, <<0, 0>>)
    BY <1>1, <1>3, <1>4
  <2> QED
    BY <1>2, <2>1, LdesSame, ReadyKept
<1>6. \A s \in Ahead("intt", "PartialProducts") : Untouched(pv, N, L, s)
  BY ControlPhase DEF FirstProve, FirstBuffers, Ahead
<1>7. UnderWay(pv, N, F2, L, T, "intt", "PartialProducts", pt)
  BY <1>4 DEF UnderWay, Nth
<1>8. ClearFrom(pv, F2, 0)
  BY <1>1, <1>4, ClearKept DEF FirstProve, FirstBuffers, NotDivided
<1> QED
  BY <1>2, <1>5, <1>6, <1>7, <1>8, ControlPhase DEF FirstProve, FirstBuffers

(* One part of the quotient: the gates read every polynomial on the coset   *)
(* of the part, and the chunks of the part are written.                     *)
Input(N, F1, L, p, s, j) ==
    IF j < N[s] THEN LdeBlock(L[LdeSlot(N, s, j)], Rev(p)) ELSE F1[FpSlot(s, j)]

QuotientReads(pv, N, F1, L, p) ==
    \A s \in QuotientInputs : \A j \in Index(s) :
        Input(N, F1, L, p, s, j)
            = Form(s, j, Nth(pv, s), "values", "bitrev", <<1, p>>, Input(N, F1, L, p, s, j).sum)

(* What the extensions bring into the quotient.                             *)
Tails(N, F1, L, p) ==
    UNION {UNION {Input(N, F1, L, p, s, j).sum : j \in Index(s)} : s \in QuotientInputs}

LEMMA NoSums ==
    ASSUME NEW F, NEW s, s # "Quotients", NEW n, NEW from, NEW c, Moved(F, s, n, from, c),
           NEW j \in Index(s)
    PROVE  F[FpSlot(s, j)].sum = {}
BY DEF Moved, Is, SumOk

LEMMA InputRead ==
    ASSUME NEW pv \in Nat, NEW N, LdesFit(N), NEW F, NEW L, NEW T, NEW p \in Parts, NEW F1,
           NEW s \in Segments, s # "Quotients", Ready(pv, N, F, L, T, s, Reached(p)),
           Twisted(F1, F, s, Nth(pv, s), N[s], p), NEW j \in Index(s)
    PROVE  \E x \in SUBSET {"tail"} :
              /\ Input(N, F1, L, p, s, j) = Form(s, j, Nth(pv, s), "values", "bitrev", <<1, p>>, x)
              /\ FoundZero("ldes", pv) => x = {}
<1>1. F[FpSlot(s, j)].sum = {}
  BY NoSums DEF Ready
<1>2. j \in Nat /\ N[s] \in Nat /\ (j < N[s] <=> j \in 0..(N[s] - 1))
  BY IndexLdes
<1>3. CASE j < N[s]
  <2>1. Blocks(L, N, s, Nth(pv, s), p)
    BY ExtensionBlock DEF Ready
  <2>2. PICK x : x = L[LdeSlot(N, s, j)].sum
    OBVIOUS
  <2>3. Input(N, F1, L, p, s, j) = Form(s, j, Nth(pv, s), "values", "bitrev", <<1, p>>, x)
    BY <1>2, <1>3, <2>1, <2>2 DEF Blocks, Input
  <2>4. WithTail({}, x, Nth(pv, s))
    BY <1>1, <1>2, <1>3, <2>2 DEF Ready, Extended, Extension
  <2>5. FoundZero("ldes", pv) => FoundZero("ldes", Nth(pv, s))
    BY DEF FoundZero, Nth
  <2>6. x \in SUBSET {"tail"} /\ (FoundZero("ldes", pv) => x = {})
    BY <2>4, <2>5 DEF WithTail
  <2> QED
    BY <2>3, <2>6
<1>4. CASE ~(j < N[s])
  <2>1. j >= N[s]
    BY <1>2, <1>4
  <2>2. Input(N, F1, L, p, s, j) = Form(s, j, Nth(pv, s), "values", "bitrev", <<1, p>>, {})
    BY <1>1, <1>4, <2>1 DEF Twisted, Input
  <2> QED
    BY <2>2
<1> QED
  BY <1>3, <1>4

LEMMA QuotientReadsAll ==
    ASSUME NEW pv \in Nat, NEW N, LdesFit(N), NEW F, NEW L, NEW T, NEW p \in Parts, NEW F1,
           \A s \in QuotientInputs : Ready(pv, N, F, L, T, s, Reached(p)),
           \A s \in QuotientInputs : Twisted(F1, F, s, Nth(pv, s), N[s], p)
    PROVE  /\ QuotientReads(pv, N, F1, L, p) /\ Tails(N, F1, L, p) \subseteq {"tail"}
           /\ FoundZero("ldes", pv) => Tails(N, F1, L, p) = {}
<1>1. ASSUME NEW s \in QuotientInputs, NEW j \in Index(s)
      PROVE  /\ Input(N, F1, L, p, s, j)
                   = Form(s, j, Nth(pv, s), "values", "bitrev", <<1, p>>, Input(N, F1, L, p, s, j).sum)
             /\ Input(N, F1, L, p, s, j).sum \subseteq {"tail"}
             /\ FoundZero("ldes", pv) => Input(N, F1, L, p, s, j).sum = {}
  <2>1. s \in Segments /\ s # "Quotients"
    BY DEF QuotientInputs
  <2>2. PICK x \in SUBSET {"tail"} :
              /\ Input(N, F1, L, p, s, j) = Form(s, j, Nth(pv, s), "values", "bitrev", <<1, p>>, x)
              /\ FoundZero("ldes", pv) => x = {}
    BY <2>1, InputRead
  <2>3. Input(N, F1, L, p, s, j).sum = x
    BY <2>2 DEF Form
  <2> QED
    BY <2>2, <2>3
<1>2. QuotientReads(pv, N, F1, L, p)
  BY <1>1 DEF QuotientReads
<1>3. ASSUME NEW e \in Tails(N, F1, L, p) PROVE e = "tail" /\ ~FoundZero("ldes", pv)
  <2>1. PICK s \in QuotientInputs : \E j \in Index(s) : e \in Input(N, F1, L, p, s, j).sum
    BY DEF Tails
  <2>2. PICK j \in Index(s) : e \in Input(N, F1, L, p, s, j).sum
    BY <2>1
  <2> QED
    BY <1>1, <2>2
<1> QED
  BY <1>2, <1>3

LEMMA ResultApart ==
    ASSUME NEW k \in Challenges, NEW i \in Parts, NEW h \in Challenges, NEW p \in Parts,
           ResultSlot(k, i) = ResultSlot(h, p)
    PROVE  k = h /\ i = p
<1>1. "Quotients" \in Segments /\ Rev(i) \in Parts /\ Rev(p) \in Parts
  BY RevParts DEF Segments
<1>2. k * Rate + Rev(i) = h * Rate + Rev(p)
  BY <1>1, ResultSlotIn, FpSlotApart
<1>3. k = h /\ Rev(i) = Rev(p)
  BY <1>1, <1>2, ChunkIndex
<1> QED
  BY <1>3, RevParts

LEMMA ResultOf ==
    ASSUME NEW k \in Challenges, NEW i \in Parts
    PROVE  /\ ResultSlot(k, i) \in Slots /\ ResultSlot(k, i) \in SlotsOf("Quotients")
           /\ (ResultSlot(k, i) - FpSlot("Quotients", 0)) \div Rate = k
<1>1. "Quotients" \in Segments /\ Rev(i) \in Parts
  BY RevParts DEF Segments
<1>2. PICK j \in Index("Quotients") : j = k * Rate + Rev(i) /\ ResultSlot(k, i) = FpSlot("Quotients", j)
  BY ResultSlotIn
<1>3. j \div Rate = k
  BY <1>1, <1>2, ChunkIndex
<1> QED
  BY <1>1, <1>2, <1>3, SlotMember, SlotIndex

Divided(F, B, p, n, x) ==
    [q \in Slots |->
       IF \E k \in Challenges : q = ResultSlot(k, p)
       THEN Form("Quotients", (q - FpSlot("Quotients", 0)) \div Rate, n, "values", "bitrev", <<1, p>>,
                 (IF F[q].rep = "zero" THEN {} ELSE {"stale"}) \union x \union Constraints)
       ELSE B[q]]

LEMMA ChunksDivided ==
    ASSUME NEW pv, NEW F, NEW B, SameSegment(B, F, "Quotients"), NEW p \in Parts, Chunks(pv, F, p),
           ClearFrom(pv, F, p), NEW y, y \subseteq {"tail"}, FoundZero("ldes", pv) => y = {},
           NEW F2, F2 = Divided(F, B, p, pv, y)
    PROVE  Chunks(pv, F2, p + 1) /\ ClearFrom(pv, F2, p + 1)
<1>1. p \in Nat /\ p < Rate /\ Rate \in Nat
  BY CountType DEF Parts
<1>2. ASSUME NEW k \in Challenges, NEW i \in Parts, i # p
      PROVE  F2[ResultSlot(k, i)] = F[ResultSlot(k, i)]
  <2>1. PICK q \in Slots : q = ResultSlot(k, i)
    BY ResultOf
  <2>2. ~\E h \in Challenges : q = ResultSlot(h, p)
    BY <1>2, <2>1, ResultApart
  <2>3. F2[q] = B[q]
    BY <2>2 DEF Divided
  <2>4. B[q] = F[q]
    BY <2>1, ResultSlotIn DEF SameSegment
  <2> QED
    BY <2>1, <2>3, <2>4
<1>3. ASSUME NEW k \in Challenges
      PROVE  Is(F2[ResultSlot(k, p)], "Quotients", k, pv, "values", "bitrev", <<1, p>>)
  <2>1. PICK q \in Slots : q = ResultSlot(k, p) /\ (q - FpSlot("Quotients", 0)) \div Rate = k
    BY ResultOf
  <2>2. PICK z, x : /\ z = (IF F[q].rep = "zero" THEN {} ELSE {"stale"}) /\ x = z \union y \union Constraints
                    /\ F2[q] = Form("Quotients", k, pv, "values", "bitrev", <<1, p>>, x)
    BY <2>1 DEF Divided
  <2>3. SumOk("Quotients", pv, x)
    <3>1. "stale" \notin Constraints /\ "tail" \notin Constraints
      BY LayoutAssumption DEF Constraints
    <3>2. z \subseteq {"stale"} /\ (FoundZero("fp_inputs", pv) => z = {})
      <4>1. Zero.rep = "zero"
        BY DEF Zero, Blank, Form
      <4>2. FoundZero("fp_inputs", pv) => F[q] = Zero
        BY <1>1, <2>1 DEF ClearFrom
      <4> QED
        BY <2>2, <4>1, <4>2
    <3>3. x \ {"stale", "tail"} = Constraints
      BY <2>2, <3>1, <3>2
    <3>4. FoundZero("fp_inputs", pv) => "stale" \notin x
      BY <2>2, <3>1, <3>2
    <3>5. FoundZero("ldes", pv) => "tail" \notin x
      BY <2>2, <3>1, <3>2
    <3> QED
      BY <3>3, <3>4, <3>5 DEF SumOk, QuotientSum
  <2> QED
    BY <2>1, <2>2, <2>3, IsForm
<1>4. ASSUME NEW k \in Challenges, NEW i \in 0..((p + 1) - 1)
      PROVE  Is(F2[ResultSlot(k, i)], "Quotients", k, pv, "values", "bitrev", <<1, i>>)
  <2>1. CASE i = p
    BY <1>3, <2>1
  <2>2. CASE i # p
    <3>1. i \in 0..(p - 1) /\ i \in Parts
      BY <1>1, <2>2 DEF Parts
    <3>2. F2[ResultSlot(k, i)] = F[ResultSlot(k, i)]
      BY <1>2, <2>2, <3>1
    <3> QED
      BY <3>1, <3>2 DEF Chunks
  <2> QED
    BY <2>1, <2>2
<1>5. ASSUME FoundZero("fp_inputs", pv), NEW k \in Challenges, NEW i \in Parts, i >= p + 1
      PROVE  F2[ResultSlot(k, i)] = Zero
  <2>1. i # p /\ i >= p
    BY <1>1, <1>5 DEF Parts
  <2>2. F[ResultSlot(k, i)] = Zero
    BY <1>5, <2>1 DEF ClearFrom
  <2> QED
    BY <1>2, <2>1, <2>2
<1> QED
  BY <1>4, <1>5 DEF Chunks, ClearFrom

LEMMA MovingApart ==
    ASSUME NEW M, NEW s \in Segments, \A j \in Index(s) : FpSlot(s, j) \notin M,
           NEW F, NEW F2, \A q \in Slots : q \notin M => F2[q] = F[q]
    PROVE  SameSegment(F2, F, s)
BY FpSlotApart DEF SameSegment

LEMMA ReadyTwisted ==
    ASSUME NEW pv, NEW N, NEW F, NEW L, NEW T, NEW s \in Segments, NEW c, LdesFit(N), Ready(pv, N, F, L, T, s, c),
           NEW F2, NEW c2, Moved(F2, s, Nth(pv, s), N[s], c2), SameSums(F2, F, s)
    PROVE  Ready(pv, N, F2, L, T, s, c2)
<1>1. Extended(F2, L, N, s, Nth(pv, s))
  BY LdesSame, ExtendedKept DEF Ready
<1>2. Hashed(F2, L, N, T, s, Nth(pv, s), Rate)
  BY LdesSame, HashedKept DEF Ready
<1> QED
  BY <1>1, <1>2 DEF Ready

(* The slots the quotient moves: the polynomials without an extension.      *)
QuotientMoves(M, N) ==
    /\ \A s \in QuotientInputs : Moves(M, s, N[s])
    /\ \A j \in Index("Quotients") : FpSlot("Quotients", j) \notin M

LEMMA QuotientPartFirst ==
    ASSUME NEW pv, NEW N, NEW F, NEW L, NEW T, NEW sg, NEW pt, NEW ml, NEW pr,
           FirstProve(pv, N, F, L, T, "quotient", sg, pt, ml, pr), pt < Rate,
           NEW M, QuotientMoves(M, N), NEW F1, F1 = Twist(F, M, pt), NEW B, B = TwistBack(F1, M),
           NEW F2, QuotientReads(pv, N, F1, L, pt) => F2 = Divided(F, B, pt, pv, Tails(N, F1, L, pt))
    PROVE  FirstProve(pv, N, F2, L, T, "quotient", sg, pt + 1, W, pr)
<1>1. LdesFit(N) /\ pt \in 0..Rate /\ Rate \in Nat /\ pv \in Nat
  BY CountType DEF FirstProve, FirstControl
<1>2. pt \in Parts /\ pt + 1 \in 0..Rate /\ pt + 1 # 0
  BY <1>1 DEF Parts
<1>3. FirstControl(pv, N, T, "quotient", sg, pt + 1, W, pr)
  BY <1>2 DEF FirstProve, FirstControl, FirstCount, Committing, MulVal
<1>4. \A s \in QuotientInputs : s \in Segments /\ s # "Quotients"
  BY DEF QuotientInputs
<1>5. Finished("quotient", sg) = QuotientInputs
  BY ControlPhase DEF QuotientInputs, Segments
<1>6. \A s \in QuotientInputs : Ready(pv, N, F, L, T, s, Reached(pt))
  BY <1>5 DEF FirstProve, FirstBuffers
<1>7. ASSUME NEW s \in QuotientInputs
      PROVE  /\ Moved(B, s, Nth(pv, s), N[s], Reached(pt + 1)) /\ SameSums(B, F, s)
             /\ Twisted(F1, F, s, Nth(pv, s), N[s], pt)
  <2>1. Moved(F, s, Nth(pv, s), N[s], Reached(pt)) /\ Moves(M, s, N[s]) /\ s \in Segments
    BY <1>4, <1>6 DEF Ready, QuotientMoves
  <2> QED
    BY <1>2, <2>1, SegmentTwisted
<1>8. PICK y : /\ F2 = Divided(F, B, pt, pv, y) /\ y \subseteq {"tail"}
               /\ FoundZero("ldes", pv) => y = {}
  <2>1. /\ QuotientReads(pv, N, F1, L, pt) /\ Tails(N, F1, L, pt) \subseteq {"tail"}
        /\ FoundZero("ldes", pv) => Tails(N, F1, L, pt) = {}
    <3>1. \A s \in QuotientInputs : Twisted(F1, F, s, Nth(pv, s), N[s], pt)
      BY <1>7
    <3> QED
      BY <1>1, <1>2, <1>6, <3>1, QuotientReadsAll
  <2> QED
    BY <2>1
<1>9. SameSegment(B, F, "Quotients")
  <2>1. \A q \in Slots : q \notin M => B[q] = F[q]
    BY DEF Twist, TwistBack
  <2>2. "Quotients" \in Segments /\ \A j \in Index("Quotients") : FpSlot("Quotients", j) \notin M
    BY DEF Segments, QuotientMoves
  <2> QED
    BY <2>1, <2>2, MovingApart
<1>10. Chunks(pv, F2, pt + 1) /\ ClearFrom(pv, F2, pt + 1)
  <2>1. Chunks(pv, F, pt) /\ ClearFrom(pv, F, pt)
    BY DEF FirstProve, FirstBuffers, UnderWay
  <2> QED
    BY <1>2, <1>8, <1>9, <2>1, ChunksDivided
<1>11. ASSUME NEW s \in QuotientInputs PROVE Ready(pv, N, F2, L, T, s, Reached(pt + 1))
  <2>1. s \in Segments /\ s # "Quotients" /\ Ready(pv, N, F, L, T, s, Reached(pt))
    BY <1>4, <1>6, <1>11
  <2>2. Ready(pv, N, B, L, T, s, Reached(pt + 1))
    BY <1>1, <1>7, <2>1, ReadyTwisted
  <2>3. SameSegment(F2, B, s)
    <3>1. "Quotients" \in Segments
      BY DEF Segments
    <3>2. \A q \in Slots : q \notin SlotsOf("Quotients") => F2[q] = B[q]
      <4>1. \A k \in Challenges : ResultSlot(k, pt) \in SlotsOf("Quotients")
        BY <1>2, ResultOf
      <4> QED
        BY <1>8, <4>1 DEF Divided
    <3> QED
      BY <2>1, <3>1, <3>2, OthersKept
  <2> QED
    BY <1>1, <2>1, <2>2, <2>3, LdesSame, ReadyKept
<1>12. \A s \in Ahead("quotient", sg) : Untouched(pv, N, L, s)
  BY DEF FirstProve, FirstBuffers
<1>13. UnderWay(pv, N, F2, L, T, "quotient", sg, pt + 1)
  BY <1>10 DEF UnderWay
<1>14. ~NotDivided("quotient", sg)
  BY DEF NotDivided, Committing
<1> QED
  BY <1>3, <1>5, <1>11, <1>12, <1>13, <1>14 DEF FirstProve, FirstBuffers

LEMMA QuotientDoneFirst ==
    ASSUME NEW pv, NEW N, NEW F, NEW L, NEW T, NEW sg, NEW ml, NEW pr,
           FirstProve(pv, N, F, L, T, "quotient", sg, Rate, ml, pr),
           NEW M, QuotientMoves(M, N), NEW F2, F2 = UntwistAll(F, M)
    PROVE  FirstProve(pv, N, F2, L, T, "intt", "Quotients", 0, G, pr)
<1>1. LdesFit(N) /\ 0 \in 0..Rate /\ "Quotients" \in Segments
  BY CountType DEF FirstProve, FirstControl, Segments
<1>2. FirstControl(pv, N, T, "intt", "Quotients", 0, G, pr)
  BY <1>1 DEF FirstProve, FirstControl, FirstCount, Committing, MulVal
<1>3. \A s \in QuotientInputs : s \in Segments /\ s # "Quotients"
  BY DEF QuotientInputs
<1>4. Finished("quotient", sg) = QuotientInputs /\ Finished("intt", "Quotients") = QuotientInputs
  BY ControlPhase DEF QuotientInputs, Segments
<1>5. ASSUME NEW s \in QuotientInputs PROVE Ready(pv, N, F2, L, T, s, <<0, 0>>)
  <2>1. s \in Segments /\ Ready(pv, N, F, L, T, s, Reached(Rate)) /\ Moves(M, s, N[s])
    BY <1>3, <1>4, <1>5 DEF FirstProve, FirstBuffers, QuotientMoves
  <2>2. Moved(F2, s, Nth(pv, s), N[s], <<0, 0>>) /\ SameSums(F2, F, s)
    BY <2>1, SegmentUntwisted DEF Ready
  <2> QED
    BY <1>1, <2>1, <2>2, ReadyTwisted
<1>6. \A s \in Ahead("intt", "Quotients") : Untouched(pv, N, L, s)
  BY <1>4 DEF FirstProve, FirstBuffers, Ahead
<1>7. Chunks(pv, F2, Rate)
  <2>1. \A q \in Slots : q \notin M => F2[q] = F[q]
    BY DEF UntwistAll
  <2>2. SameSegment(F2, F, "Quotients")
    BY <1>1, <2>1, MovingApart DEF QuotientMoves
  <2>3. ASSUME NEW k \in Challenges, NEW i \in 0..(Rate - 1)
        PROVE  F2[ResultSlot(k, i)] = F[ResultSlot(k, i)]
    <3>1. i \in Parts
      BY DEF Parts
    <3> QED
      BY <2>2, <3>1, ResultSlotIn DEF SameSegment
  <2>4. Chunks(pv, F, Rate)
    BY DEF FirstProve, FirstBuffers, UnderWay
  <2> QED
    BY <2>3, <2>4 DEF Chunks
<1>8. UnderWay(pv, N, F2, L, T, "intt", "Quotients", 0)
  BY <1>7 DEF UnderWay
<1>9. ~NotDivided("intt", "Quotients")
  BY DEF NotDivided, Committing
<1> QED
  BY <1>2, <1>4, <1>5, <1>6, <1>8, <1>9 DEF FirstProve, FirstBuffers

---------------------------------------------------------------------------
(* The steps of the specification.                                          *)
LEMMA MovingSlots ==
    ASSUME LdesFit(numLdes), NEW s \in Segments
    PROVE  /\ Moves(NonLdeSlots(s), s, numLdes[s])
           /\ Moves(Moving(s), s, FirstMoved(numLdes, s)) /\ Moving(s) \subseteq SlotsOf(s)
           /\ NonLdeSlots(s) \subseteq SlotsOf(s)
<1>1. PICK n, c \in Nat : n = numLdes[s] /\ c = Count[s] /\ n <= c
  BY CountType DEF LdesFit
<1>2. Index(s) = 0..(c - 1) /\ NonLdeSlots(s) = {FpSlot(s, j) : j \in n..(c - 1)}
  BY <1>1 DEF Index, NonLdeSlots
<1>3. ASSUME NEW j \in Index(s) PROVE FpSlot(s, j) \in NonLdeSlots(s) <=> j >= n
  <2>1. ASSUME j >= n PROVE FpSlot(s, j) \in NonLdeSlots(s)
    BY <1>1, <1>2, <2>1
  <2>2. ASSUME NEW k \in n..(c - 1), FpSlot(s, j) = FpSlot(s, k) PROVE j >= n
    <3>1. k \in Index(s)
      BY <1>1, <1>2
    <3>2. j = k
      BY <2>2, <3>1, FpSlotApart
    <3> QED
      BY <1>1, <3>2
  <2> QED
    BY <1>2, <2>1, <2>2
<1>4. Moves(NonLdeSlots(s), s, n)
  BY <1>3 DEF Moves
<1>5. NonLdeSlots(s) \subseteq SlotsOf(s)
  BY <1>1, <1>2 DEF SlotsOf
<1>6. Moves(SlotsOf(s), s, 0)
  BY SlotMember, <1>2, <1>1 DEF Moves
<1> QED
  BY <1>1, <1>4, <1>5, <1>6 DEF Moving, FirstMoved

LEMMA QuotientSlots ==
    ASSUME LdesFit(numLdes) PROVE QuotientMoves(QuotientMoving, numLdes)
<1>1. \A s \in QuotientInputs : s \in Segments /\ s # "Quotients"
  BY DEF QuotientInputs
<1>2. ASSUME NEW t \in Segments, NEW j \in Index(t), NEW s \in QuotientInputs, FpSlot(t, j) \in NonLdeSlots(s)
      PROVE  t = s
  <2>1. FpSlot(t, j) \in SlotsOf(s)
    BY <1>1, <1>2, MovingSlots
  <2>2. PICK k \in Index(s) : FpSlot(t, j) = FpSlot(s, k)
    BY <2>1 DEF SlotsOf
  <2> QED
    BY <1>1, <2>2, FpSlotApart
<1>3. ASSUME NEW s \in QuotientInputs PROVE Moves(QuotientMoving, s, numLdes[s])
  <2> SUFFICES ASSUME NEW j \in Index(s) PROVE FpSlot(s, j) \in QuotientMoving <=> j >= numLdes[s]
    BY DEF Moves
  <2>1. FpSlot(s, j) \in NonLdeSlots(s) <=> j >= numLdes[s]
    BY <1>1, MovingSlots DEF Moves
  <2>2. FpSlot(s, j) \in QuotientMoving <=> FpSlot(s, j) \in NonLdeSlots(s)
    BY <1>1, <1>2 DEF QuotientMoving
  <2> QED
    BY <2>1, <2>2
<1>4. ASSUME NEW j \in Index("Quotients") PROVE FpSlot("Quotients", j) \notin QuotientMoving
  <2>1. "Quotients" \in Segments
    BY DEF Segments
  <2> QED
    BY <1>1, <1>2, <2>1 DEF QuotientMoving
<1> QED
  BY <1>3, <1>4 DEF QuotientMoves

LEMMA FirstParts ==
    ASSUME NEW pv, FirstProve(pv, numLdes, fp, lde, tree, phase, seg, part, mul, proves)
    PROVE  /\ LdesFit(numLdes) /\ seg \in Segments /\ part \in 0..Rate /\ mul = MulVal(part)
           /\ proves = FirstCount(pv, phase, seg) /\ pv \in Nat \ {0}
           /\ tree = [s \in Segments |-> [b \in Parts |-> tree[s][b]]]
BY DEF FirstProve, FirstControl

LEMMA UploadStep == ASSUME FirstNow, Upload PROVE FirstNow'
<1>0. PICK pv \in Nat : FirstProve(pv, numLdes, fp, lde, tree, phase, seg, part, mul, proves)
  BY DEF FirstNow
<1>1. PICK F2 : F2 = fp' /\ F2 = [q \in Slots |-> IF q \in SlotsOf("ConstantsSigmas")
                                  THEN Values("ConstantsSigmas", q, 0) ELSE fp[q]]
  BY DEF Upload
<1>2. FirstProve(pv, numLdes, F2, lde, tree, "intt", "ConstantsSigmas", part, mul, proves)
  BY <1>0, <1>1, FirstParts, UploadFirst DEF Upload
<1> QED
  BY <1>1, <1>2 DEF Upload, FirstNow

LEMMA InttStep == ASSUME FirstNow, Intt PROVE FirstNow'
<1>0. PICK pv \in Nat : FirstProve(pv, numLdes, fp, lde, tree, phase, seg, part, mul, proves)
  BY DEF FirstNow
<1>1. PICK F2 : F2 = fp' /\ F2 = [q \in Slots |-> IF q \in SlotsOf(seg) THEN InttSlot(q) ELSE fp[q]]
  BY DEF Intt
<1>2. \A q \in Slots : q \notin SlotsOf(seg) => F2[q] = fp[q]
  BY <1>1
<1>3. seg \in Segments /\ FirstProve(pv, numLdes, fp, lde, tree, "intt", seg, part, mul, proves)
  BY <1>0, FirstParts DEF Intt
<1>4. \A q \in SlotsOf(seg) : F2[q] = InttSlot(q)
  <2>1. \A q \in SlotsOf(seg) : q \in Slots
    BY <1>3, FpSlotApart DEF SlotsOf
  <2> QED
    BY <1>1, <2>1
<1>5. Moved(F2, seg, Nth(pv, seg), 0, <<0, 0>>)
  <2>1. CASE seg = "Quotients"
    <3>1. Chunks(pv, fp, Rate)
      BY <1>3, <2>1 DEF FirstProve, FirstBuffers, UnderWay
    <3> QED
      BY <1>4, <2>1, <3>1, QuotientIntt DEF Nth
  <2>2. CASE seg # "Quotients"
    <3>1. Valued(fp, seg, Nth(pv, seg))
      BY <1>3, <2>2 DEF FirstProve, FirstBuffers, UnderWay
    <3>2. \A q \in SlotsOf(seg) : F2[q] = NttInPlace(fp[q], TRUE)
      BY <1>4, <2>2 DEF InttSlot
    <3> QED
      BY <1>3, <3>1, <3>2, ValuedIntt
  <2> QED
    BY <2>1, <2>2
<1>6. FirstProve(pv, numLdes, F2, lde, tree, "lde", seg, part, mul, proves)
  BY <1>2, <1>3, <1>5, InttFirst
<1> QED
  BY <1>1, <1>6 DEF Intt, FirstNow

LEMMA ExtendStep == ASSUME FirstNow, Extend PROVE FirstNow'
<1>0. PICK pv \in Nat : FirstProve(pv, numLdes, fp, lde, tree, phase, seg, part, mul, proves)
  BY DEF FirstNow
<1>1. PICK first, L2 : /\ first = LdeSlot(numLdes, seg, 0) /\ L2 = lde'
                       /\ L2 = [q \in Slots |-> IF q \in first .. first + numLdes[seg] - 1
                                 THEN Lde(fp[FpSlot(seg, q - first)], lde[q]) ELSE lde[q]]
  BY DEF Extend
<1>2. FirstProve(pv, numLdes, fp, lde, tree, "lde", seg, part, mul, proves)
  BY <1>0, FirstParts DEF Extend
<1>3. FirstProve(pv, numLdes, fp, L2, tree, "tree", seg, 0, G, proves)
  BY <1>1, <1>2, ExtendFirst
<1> QED
  BY <1>1, <1>3 DEF Extend, FirstNow

LEMMA TreePartStep == ASSUME FirstNow, TreePart PROVE FirstNow'
<1>0. PICK pv \in Nat : FirstProve(pv, numLdes, fp, lde, tree, phase, seg, part, mul, proves)
  BY DEF FirstNow
<1>1. PICK M, F1, F2, T2, b : /\ M = Moving(seg) /\ F1 = OnCoset(M) /\ F2 = Back(M, F1) /\ b = LeafBlock(part)
                              /\ F2 = fp' /\ T2 = tree'
                              /\ T2 = [tree EXCEPT ![seg][b] = [j \in Index(seg) |-> Leaf(seg, j, b, F1)]]
  BY DEF TreePart
<1>2. /\ FirstProve(pv, numLdes, fp, lde, tree, "tree", seg, part, mul, proves) /\ LdesFit(numLdes)
      /\ seg \in Segments /\ part \in 0..Rate /\ part < Rate /\ mul = MulVal(part)
      /\ tree = [s \in Segments |-> [c \in Parts |-> tree[s][c]]]
  BY <1>0, FirstParts DEF TreePart, MoreParts
<1>3. b = Rev(part) /\ b \in Parts
  <2>1. part \in Parts
    BY <1>2, CountType DEF Parts
  <2> QED
    BY <1>1, <2>1, RevParts DEF LeafBlock
<1>4. F1 = Twist(fp, M, part) /\ F2 = TwistBack(F1, M)
  BY <1>1, <1>2 DEF OnCoset, Back, Twist, TwistBack
<1>5. Leaves(T2, tree, numLdes, F1, lde, seg, part)
  <2>1. PICK row, new : /\ new = [j \in Index(seg) |-> Leaf(seg, j, b, F1)] /\ row = tree[seg]
                        /\ T2 = [tree EXCEPT ![seg] = [row EXCEPT ![b] = new]]
    BY <1>1
  <2>2. T2 = [t \in Segments |-> IF t = seg THEN [row EXCEPT ![b] = new] ELSE tree[t]]
    BY <1>2, <2>1
  <2>3. row = [c \in Parts |-> row[c]]
    BY <1>2, <2>1
  <2>4. [row EXCEPT ![b] = new] = [c \in Parts |-> IF c = b THEN new ELSE row[c]]
    BY <2>3
  <2>5. \A t \in Segments : t # seg => T2[t] = tree[t]
    BY <2>2
  <2>6. T2[seg] = [c \in Parts |-> IF c = b THEN new ELSE row[c]]
    BY <1>2, <2>2, <2>4
  <2>7. T2 = [t \in Segments |-> [c \in Parts |-> T2[t][c]]]
    <3>1. \A t \in Segments : T2[t] = [c \in Parts |-> T2[t][c]]
      BY <1>2, <2>5, <2>6
    <3> QED
      BY <2>2, <3>1
  <2>8. \A j \in Index(seg) : T2[seg][b][j] = Leaf(seg, j, b, F1)
    BY <1>3, <2>1, <2>6
  <2>9. \A c \in Parts : c # Rev(part) => T2[seg][c] = tree[seg][c]
    BY <1>3, <2>1, <2>6
  <2>10. \A j \in Index(seg) : T2[seg][Rev(part)][j] = IF Partial(seg) /\ j < numLdes[seg]
                                THEN LdeBlock(lde[LdeSlot(numLdes, seg, j)], Rev(part))
                                ELSE F1[FpSlot(seg, j)]
    BY <1>3, <2>8 DEF Leaf
  <2> QED
    BY <2>5, <2>7, <2>9, <2>10 DEF Leaves
<1>6. Moves(M, seg, FirstMoved(numLdes, seg)) /\ M \subseteq SlotsOf(seg)
  BY <1>1, <1>2, MovingSlots
<1>7. FirstProve(pv, numLdes, F2, lde, T2, "tree", seg, part + 1, W, proves)
  BY <1>2, <1>4, <1>5, <1>6, TreePartFirst
<1> QED
  BY <1>1, <1>7 DEF TreePart, FirstNow

LEMMA TreeDoneStep == ASSUME FirstNow, TreeDone PROVE FirstNow'
<1>0. PICK pv \in Nat : FirstProve(pv, numLdes, fp, lde, tree, phase, seg, part, mul, proves)
  BY DEF FirstNow
<1>1. PICK M, F2, ph : /\ M = Moving(seg) /\ F2 = fp' /\ F2 = UntwistAll(fp, M)
                       /\ ph = AfterCommit[seg]
  BY DEF TreeDone, UntwistAll
<1>2. /\ FirstProve(pv, numLdes, fp, lde, tree, "tree", seg, Rate, mul, proves)
      /\ LdesFit(numLdes) /\ seg \in Segments
  BY <1>0, FirstParts DEF TreeDone
<1>3. Moves(M, seg, FirstMoved(numLdes, seg)) /\ M \subseteq SlotsOf(seg)
  BY <1>1, <1>2, MovingSlots
<1>4. FirstProve(pv, numLdes, F2, lde, tree, ph, seg, 0, G, proves)
  BY <1>1, <1>2, <1>3, TreeDoneFirst
<1> QED
  BY <1>1, <1>4 DEF TreeDone, FirstNow

LEMMA BuildStep == ASSUME FirstNow, Build PROVE FirstNow'
<1>0. PICK pv \in Nat : FirstProve(pv, numLdes, fp, lde, tree, phase, seg, part, mul, proves)
  BY DEF FirstNow
<1>1. PICK F2 : F2 = fp' /\ (F2 = WiresWith(0) \/ F2 = fp)
  BY DEF Build
<1>2. \A s \in Segments : s # "Wires" => SameSegment(F2, fp, s)
  BY <1>1, WiresWritten DEF SameSegment
<1>3. FirstProve(pv, numLdes, fp, lde, tree, "build", seg, part, mul, proves)
  BY <1>0, FirstParts DEF Build
<1>4. FirstProve(pv, numLdes, F2, lde, tree, "scatter", seg, part, mul, proves)
  BY <1>2, <1>3, BuildFirst
<1> QED
  BY <1>1, <1>4 DEF Build, FirstNow

LEMMA ScatterStep == ASSUME FirstNow, Scatter PROVE FirstNow'
<1>0. PICK pv \in Nat : FirstProve(pv, numLdes, fp, lde, tree, phase, seg, part, mul, proves)
  BY DEF FirstNow
<1>1. /\ FirstProve(pv, numLdes, fp, lde, tree, "scatter", seg, part, mul, proves)
      /\ proves + 1 = pv
  BY <1>0, FirstParts DEF Scatter, FirstCount
<1>2. PICK F2 : F2 = fp' /\ F2 = WiresWith(pv)
  BY <1>1 DEF Scatter
<1>3. Valued(F2, "Wires", pv) /\ \A s \in Segments : s # "Wires" => SameSegment(F2, fp, s)
  BY <1>2, WiresWritten
<1>4. FirstProve(pv, numLdes, F2, lde, tree, "intt", "Wires", part, mul, pv)
  BY <1>1, <1>3, ScatterFirst
<1>5. proves' = pv
  BY <1>1 DEF Scatter
<1> QED
  BY <1>2, <1>4, <1>5 DEF Scatter, FirstNow

LEMMA ZpStep == ASSUME FirstNow, Zp PROVE FirstNow'
<1>0. PICK pv \in Nat : FirstProve(pv, numLdes, fp, lde, tree, phase, seg, part, mul, proves)
  BY DEF FirstNow
<1>1. PICK F1, F2 : F1 = ZpForward(fp) /\ F2 = fp' /\ F2 = ZpResult(fp, F1, proves)
  BY DEF Zp, ZpForward, ZpResult, ZpReads
<1>2. FirstProve(pv, numLdes, fp, lde, tree, "zp", seg, part, mul, proves)
  BY <1>0, FirstParts DEF Zp
<1>3. FirstProve(pv, numLdes, F2, lde, tree, "intt", "PartialProducts", part, mul, proves)
  BY <1>1, <1>2, ZpFirst
<1> QED
  BY <1>1, <1>3 DEF Zp, FirstNow

LEMMA QuotientPartStep == ASSUME FirstNow, QuotientPart PROVE FirstNow'
<1>0. PICK pv \in Nat : FirstProve(pv, numLdes, fp, lde, tree, phase, seg, part, mul, proves)
  BY DEF FirstNow
<1>1. /\ FirstProve(pv, numLdes, fp, lde, tree, "quotient", seg, part, mul, proves)
      /\ LdesFit(numLdes) /\ part < Rate /\ mul = MulVal(part) /\ proves = pv
  BY <1>0, FirstParts DEF QuotientPart, MoreParts, FirstCount, Committing
<1> DEFINE in(f, s, j) == LoadFromEither(s, j, part, f)
           reads(f) == \A s \in QuotientInputs : \A j \in Index(s) :
                          in(f, s, j) = Form(s, j, ProveOf(s), "values", "bitrev", <<1, part>>,
                                             in(f, s, j).sum)
           tails(f) == UNION {UNION {in(f, s, j).sum : j \in Index(s)} : s \in QuotientInputs}
           written(B, r, x) == [q \in Slots |-> IF \E k \in Challenges : q = ResultSlot(k, part)
                                 THEN IF r THEN Accumulate(fp[q], (q - FpSlot("Quotients", 0)) \div Rate, part, x)
                                      ELSE Junk
                                 ELSE B[q]]
<1>2. PICK M, F1, B, F2 : /\ M = QuotientMoving /\ F1 = OnCoset(M) /\ B = Back(M, F1)
                          /\ F2 = fp' /\ F2 = written(B, reads(F1), tails(F1))
  BY DEF QuotientPart, Challenges
<1>3. F1 = Twist(fp, M, part) /\ B = TwistBack(F1, M)
  BY <1>1, <1>2 DEF OnCoset, Back, Twist, TwistBack
<1>4. QuotientReads(pv, numLdes, F1, lde, part)
          => F2 = Divided(fp, B, part, pv, Tails(numLdes, F1, lde, part))
  <2> SUFFICES ASSUME QuotientReads(pv, numLdes, F1, lde, part)
               PROVE  F2 = Divided(fp, B, part, pv, Tails(numLdes, F1, lde, part))
    OBVIOUS
  <2>1. \A s : ProveOf(s) = Nth(pv, s)
    BY <1>1 DEF ProveOf, Nth
  <2>2. reads(F1)
    BY <2>1 DEF QuotientReads, LoadFromEither, Input
  <2>3. F2 = written(B, TRUE, tails(F1))
    <3> HIDE DEF reads, written, tails
    <3>1. reads(F1) \in BOOLEAN
      BY DEF reads
    <3>2. reads(F1) = TRUE
      BY <2>2, <3>1
    <3> QED
      BY <1>2, <3>2
  <2>4. tails(F1) = Tails(numLdes, F1, lde, part)
    BY DEF Tails, LoadFromEither, Input
  <2>5. F2 = written(B, TRUE, Tails(numLdes, F1, lde, part))
    <3> HIDE DEF written, tails
    <3> QED
      BY <2>3, <2>4
  <2> QED
    BY <1>1, <2>5 DEF Divided, Accumulate, Constraints
<1>5. QuotientMoves(M, numLdes)
  BY <1>1, <1>2, QuotientSlots
<1>6. FirstProve(pv, numLdes, F2, lde, tree, "quotient", seg, part + 1, W, proves)
  BY <1>1, <1>3, <1>4, <1>5, QuotientPartFirst
<1> QED
  BY <1>2, <1>6 DEF QuotientPart, FirstNow

LEMMA QuotientDoneStep == ASSUME FirstNow, QuotientDone PROVE FirstNow'
<1>0. PICK pv \in Nat : FirstProve(pv, numLdes, fp, lde, tree, phase, seg, part, mul, proves)
  BY DEF FirstNow
<1>1. PICK M, F2 : M = QuotientMoving /\ F2 = fp' /\ F2 = UntwistAll(fp, M)
  BY DEF QuotientDone, UntwistAll
<1>2. /\ FirstProve(pv, numLdes, fp, lde, tree, "quotient", seg, Rate, mul, proves)
      /\ LdesFit(numLdes)
  BY <1>0, FirstParts DEF QuotientDone
<1>3. QuotientMoves(M, numLdes)
  BY <1>1, <1>2, QuotientSlots
<1>4. FirstProve(pv, numLdes, F2, lde, tree, "intt", "Quotients", 0, G, proves)
  BY <1>1, <1>2, <1>3, QuotientDoneFirst
<1> QED
  BY <1>1, <1>4 DEF QuotientDone, FirstNow

---------------------------------------------------------------------------
(* Every prove, from what the one before left, until the last returns.      *)
BufferInv == LdesFit(numLdes) /\ (FirstNow \/ phase = "done")

LEMMA BufferInit == ASSUME ProofInit PROVE BufferInv
BY InitFirst, FirstParts DEF ProofInit, BufferInv, FirstNow

LEMMA FirstBufferStep == ASSUME FirstNow, BufferStep PROVE FirstNow'
BY UploadStep, InttStep, ExtendStep, TreePartStep, TreeDoneStep, BuildStep, ScatterStep, ZpStep,
   QuotientPartStep, QuotientDoneStep DEF BufferStep

(* The next prove starts from the committed constants.                      *)
LEMMA NextProve ==
    ASSUME NEW pv, NEW N, NEW F, NEW L, NEW T, NEW sg, NEW pt, NEW ml, NEW pr,
           FirstProve(pv, N, F, L, T, "open", sg, pt, ml, pr)
    PROVE  FirstProve(pv + 1, N, F, L, T, "scatter", sg, pt, ml, pr)
<1>1. pv \in Nat \ {0} /\ pr = pv
  BY DEF FirstProve, FirstControl, FirstCount, Committing
<1>2. FirstControl(pv + 1, N, T, "scatter", sg, pt, ml, pr)
  BY <1>1 DEF FirstProve, FirstControl, FirstCount
<1>3. Ready(pv + 1, N, F, L, T, "ConstantsSigmas", <<0, 0>>)
  <2>1. Ready(pv, N, F, L, T, "ConstantsSigmas", <<0, 0>>)
    BY ControlPhase DEF FirstProve, FirstBuffers, Segments
  <2>2. Nth(pv + 1, "ConstantsSigmas") = Nth(pv, "ConstantsSigmas")
    BY DEF Nth
  <2> QED
    BY <2>1, <2>2 DEF Ready
<1>4. \A memory : ~FoundZero(memory, pv + 1)
  BY <1>1 DEF FoundZero
<1>5. \A s \in Ahead("scatter", sg) : Untouched(pv + 1, N, L, s)
  <2>1. \A s \in Ahead("scatter", sg) : s # "ConstantsSigmas"
    BY ControlPhase DEF Ahead
  <2> QED
    BY <1>4, <2>1 DEF Untouched, Nth
<1>6. ClearFrom(pv + 1, F, 0)
  BY <1>4 DEF ClearFrom
<1>7. UnderWay(pv + 1, N, F, L, T, "scatter", sg, pt)
  BY DEF UnderWay
<1>8. FirstBuffers(pv + 1, N, F, L, T, "scatter", sg, pt)
  BY <1>3, <1>5, <1>6, <1>7, ControlPhase DEF FirstBuffers
<1> QED
  BY <1>2, <1>8 DEF FirstProve

LEMMA EndStep == ASSUME FirstNow, ProveEnd PROVE FirstNow' \/ phase' = "done"
<1>1. PICK pv \in Nat : FirstProve(pv, numLdes, fp, lde, tree, "open", seg, part, mul, proves)
  BY DEF FirstNow, ProveEnd
<1>2. FirstProve(pv + 1, numLdes, fp, lde, tree, "scatter", seg, part, mul, proves)
  BY <1>1, NextProve
<1>3. pv + 1 \in Nat
  OBVIOUS
<1> QED
  BY <1>2, <1>3 DEF ProveEnd, FirstNow

LEMMA BufferKept == ASSUME BufferInv, [ProofNext]_proofVars PROVE BufferInv'
<1>1. numLdes' = numLdes
  BY DEF ProofNext, BufferStep, Upload, Intt, Extend, TreePart, TreeDone, Build, Scatter, Zp,
         QuotientPart, QuotientDone, ReturnProof, ProveEnd, proofVars, vars
<1>2. FirstNow' \/ phase' = "done"
  <2>1. CASE UNCHANGED vars
    BY <2>1 DEF BufferInv, FirstNow, vars
  <2>2. CASE BufferStep
    <3>1. phase # "done"
      BY <2>2 DEF BufferStep, Upload, Intt, Extend, TreePart, TreeDone, Build, Scatter, Zp,
                  QuotientPart, QuotientDone
    <3> QED
      BY <2>2, <3>1, FirstBufferStep DEF BufferInv
  <2>3. CASE ProveEnd
    BY <2>3, EndStep DEF BufferInv, ProveEnd
  <2> QED
    BY <2>1, <2>2, <2>3 DEF ProofNext, ReturnProof, proofVars
<1> QED
  BY <1>1, <1>2 DEF BufferInv

LEMMA ReadyPlain ==
    ASSUME NEW n, NEW s \in Segments, LdesFit(numLdes), Ready(n, numLdes, fp, lde, tree, s, <<0, 0>>),
           NEW j \in Index(s), NEW f, f = fp[FpSlot(s, j)]
    PROVE  /\ Plain(f, s, j, Nth(n, s), "coeffs")
           /\ j < numLdes[s] =>
                UpToTail(lde[LdeSlot(numLdes, s, j)],
                         [f EXCEPT !.rep = "lde", !.order = "bitrev", !.coset = G],
                         FoundZero("ldes", Nth(n, s)))
<1>1. Is(f, s, j, Nth(n, s), "coeffs", "natural", <<0, 0>>)
  BY DEF Ready, Moved
<1>2. Plain(f, s, j, Nth(n, s), "coeffs")
  BY <1>1, IsFields DEF Plain
<1>3. ASSUME j < numLdes[s]
      PROVE  UpToTail(lde[LdeSlot(numLdes, s, j)],
                      [f EXCEPT !.rep = "lde", !.order = "bitrev", !.coset = G],
                      FoundZero("ldes", Nth(n, s)))
  <2>1. j \in 0..(numLdes[s] - 1)
    BY <1>3, IndexLdes
  <2>2. PICK x : x = f.sum /\ f = Form(s, j, Nth(n, s), "coeffs", "natural", <<0, 0>>, x)
    BY <1>1 DEF Is
  <2>3. PICK l, y : /\ l = lde[LdeSlot(numLdes, s, j)] /\ y = l.sum
                    /\ l = Form(s, j, Nth(n, s), "lde", "bitrev", G, y)
                    /\ WithTail(x, y, Nth(n, s))
    BY <2>1, <2>2 DEF Ready, Extended, Extension
  <2>4. PICK g : g = RecastTo(f, "lde", "bitrev", G)
    OBVIOUS
  <2>5. g = Form(s, j, Nth(n, s), "lde", "bitrev", G, x)
    BY <2>2, <2>4, ReForm
  <2>6. UpToTail(l, g, FoundZero("ldes", Nth(n, s)))
    BY <2>3, <2>5, FormUpToTail DEF WithTail
  <2> QED
    BY <2>3, <2>4, <2>6 DEF RecastTo
<1> QED
  BY <1>2, <1>3

LEMMA CommittedReady ==
    ASSUME BufferInv, NEW s \in Committed
    PROVE  s \in Segments /\ Ready(proves, numLdes, fp, lde, tree, s, <<0, 0>>)
<1>1. PICK pv \in Nat : FirstProve(pv, numLdes, fp, lde, tree, phase, seg, part, mul, proves)
  BY DEF BufferInv, FirstNow, Committed
<1>2. /\ phase \in {"build", "scatter", "zp", "quotient", "open"} /\ s \in Segments
      /\ s \in Finished(phase, seg) /\ (phase = "quotient" => part = 0)
      /\ phase \in {"build", "scatter"} => s = "ConstantsSigmas"
  BY ControlPhase DEF Committed, QuotientInputs, Segments
<1>3. Nth(proves, s) = Nth(pv, s)
  BY <1>1, <1>2 DEF FirstProve, FirstControl, FirstCount, Committing, Nth
<1>4. Reached(0) = <<0, 0>>
  BY DEF Reached
<1>5. Ready(pv, numLdes, fp, lde, tree, s, IF phase = "quotient" THEN Reached(part) ELSE <<0, 0>>)
  BY <1>1, <1>2 DEF FirstProve, FirstBuffers
<1>6. Ready(pv, numLdes, fp, lde, tree, s, <<0, 0>>)
  BY <1>2, <1>4, <1>5
<1> QED
  BY <1>2, <1>3, <1>6 DEF Ready

LEMMA BufferCommitted == ASSUME BufferInv PROVE CommittedPlain
<1> SUFFICES ASSUME NEW s \in Committed, NEW j \in Index(s), NEW f, f = fp[FpSlot(s, j)]
             PROVE  /\ Plain(f, s, j, ProveOf(s), "coeffs")
                    /\ j < numLdes[s] =>
                         UpToTail(lde[LdeSlot(numLdes, s, j)],
                                  [f EXCEPT !.rep = "lde", !.order = "bitrev", !.coset = G],
                                  FoundZero("ldes", ProveOf(s)))
  BY DEF CommittedPlain
<1>1. /\ LdesFit(numLdes) /\ s \in Segments
      /\ Ready(proves, numLdes, fp, lde, tree, s, <<0, 0>>)
  BY CommittedReady DEF BufferInv
<1>2. ProveOf(s) = Nth(proves, s)
  BY DEF ProveOf, Nth
<1> QED
  BY <1>1, <1>2, ReadyPlain

LEMMA BufferQuotients == ASSUME BufferInv PROVE QuotientComplete
<1> SUFFICES ASSUME phase = "open", NEW j \in Index("Quotients"), NEW f, f = fp[FpSlot("Quotients", j)]
             PROVE  /\ f.seg = "Quotients" /\ f.idx = j /\ f.prove = proves
                    /\ f.sum \ {"stale", "tail"} = (Gates \cap GateKernels) \cup {"z"}
                    /\ FoundZero("fp_inputs", proves) => "stale" \notin f.sum
                    /\ FoundZero("ldes", proves) => "tail" \notin f.sum
  BY DEF QuotientComplete
<1>1. "Quotients" \in Committed
  BY DEF Committed, Segments
<1>2. Ready(proves, numLdes, fp, lde, tree, "Quotients", <<0, 0>>)
  BY <1>1, CommittedReady
<1>3. Is(f, "Quotients", j, proves, "coeffs", "natural", <<0, 0>>)
  BY <1>2 DEF Ready, Moved, Nth
<1>4. f.seg = "Quotients" /\ f.idx = j /\ f.prove = proves
  BY <1>3, IsFields
<1>5. QuotientSum(proves, f.sum)
  BY <1>3 DEF Is, SumOk
<1> QED
  BY <1>4, <1>5 DEF QuotientSum, Constraints

(* In every prove, whatever the layout, the rate, the numbers of extensions *)
(* and the memory build_gpu found: every polynomial committed so far is     *)
(* back to plain coefficients when no in-place loop runs, and its extension *)
(* is of the same polynomial but for the tail pad_coset leaves behind it,   *)
(* so that the partial products, the quotient, the openings and the final   *)
(* polynomial read what was committed.                                      *)
THEOREM CommittedStaysPlain == ProofSpec => []CommittedPlain
<1>1. ProofInit => BufferInv
  BY BufferInit
<1>2. BufferInv /\ [ProofNext]_proofVars => BufferInv'
  BY BufferKept
<1>3. BufferInv => CommittedPlain
  BY BufferCommitted
<1> QED
  BY <1>1, <1>2, <1>3, PTL DEF ProofSpec

(* In every prove the committed quotient chunks hold the constraint of the  *)
(* permutation and of every gate with a kernel, each in all parts: a part   *)
(* is written once, into the block its coset has in the inverse transform   *)
(* over all parts.  Besides them there is only what the slots and the tails *)
(* held: what the first prove finds, or what the prove before left.         *)
THEOREM QuotientsAreComplete == ProofSpec => []QuotientComplete
<1>1. ProofInit => BufferInv
  BY BufferInit
<1>2. BufferInv /\ [ProofNext]_proofVars => BufferInv'
  BY BufferKept
<1>3. BufferInv => QuotientComplete
  BY BufferQuotients
<1> QED
  BY <1>1, <1>2, <1>3, PTL DEF ProofSpec

---------------------------------------------------------------------------
(* The sibling fri_initial_siblings and fri_step read at each layer of a    *)
(* path is the node beside the path.                                        *)
Ones(n, k) == (n \div Two[k]) % 2 = 0 /\ \A j \in 0..(k - 1) : (n \div Two[j]) % 2 = 1

LEMMA OnesOf ==
    ASSUME NEW l \in Nat, NEW m \in Nat, NEW n, n = m * Two[l + 1] + Two[l] - 1
    PROVE  Ones(n, l) /\ n \in Nat
<1>1. PICK t \in Nat \ {0} : t = Two[l] /\ Two[l + 1] = 2 * t
  <2>1. l + 1 \in Nat /\ l + 1 # 0 /\ (l + 1) - 1 = l
    OBVIOUS
  <2> QED
    BY <2>1, TwoUnfolds, TwoPositive
<1>2. n = (2 * m) * t + (t - 1) /\ t - 1 \in 0..(t - 1) /\ 2 * m \in Nat
  <2>1. PICK w \in Nat : w = m * t
    BY <1>1
  <2>2. m * (2 * t) = 2 * w /\ (2 * m) * t = 2 * w
    BY <2>1
  <2>3. n = m * (2 * t) + t - 1
    BY <1>1
  <2> QED
    BY <1>1, <2>1, <2>2, <2>3
<1>3. n \div t = 2 * m /\ n \in Nat
  <2>1. PICK k, b \in Nat : k = 2 * m /\ b = t - 1 /\ b \in 0..(t - 1)
    BY <1>2
  <2>2. Split(n, t, k, b)
    BY <1>1, <1>2, <2>1 DEF Split
  <2>3. n \div t = k /\ n \in Nat
    BY <2>2, Divides
  <2> QED
    BY <2>1, <2>3
<1>4. ASSUME NEW j \in 0..(l - 1) PROVE (n \div Two[j]) % 2 = 1
  <2>1. PICK s, h \in Nat \ {0} : s = Two[j] /\ t = s * (2 * h)
    <3>1. j \in Nat /\ l - j \in Nat /\ l - j # 0 /\ (l - j) - 1 \in Nat /\ j + (l - j) = l
      OBVIOUS
    <3>2. PICK h \in Nat \ {0} : h = Two[(l - j) - 1] /\ Two[l - j] = 2 * h
      BY <3>1, TwoUnfolds, TwoPositive
    <3>3. Two[l] = Two[j] * Two[l - j] /\ Two[j] \in Nat \ {0}
      <4>1. Two[j + (l - j)] = Two[j] * Two[l - j] /\ Two[j] \in Nat \ {0}
        BY <3>1, TwoSum, TwoPositive
      <4> QED
        BY <3>1, <4>1
    <3> QED
      BY <1>1, <3>2, <3>3
  <2>2. PICK d \in Nat : d = h * m
    BY <2>1
  <2>3. PICK k \in Nat : k = 4 * d + 2 * h - 1
    BY <2>1, <2>2
  <2>4. n = k * s + (s - 1)
    <3>1. PICK e, f \in Nat : e = s * h /\ f = s * d
      BY <2>1, <2>2
    <3>2. t = 2 * e
      BY <2>1, <3>1
    <3>3. m * e = f
      BY <2>1, <2>2, <3>1
    <3>4. m * t = 2 * f
      BY <3>2, <3>3, <3>1
    <3>5. k * s = 4 * f + 2 * e - s
      BY <2>1, <2>2, <2>3, <3>1
    <3>6. n = 2 * (m * t) + t - 1
      BY <1>1, <1>2
    <3> QED
      BY <2>1, <3>1, <3>2, <3>4, <3>5, <3>6
  <2>5. n \div s = k
    <3>1. PICK b \in 0..(s - 1) : b = s - 1
      BY <2>1
    <3>2. Split(n, s, k, b)
      BY <2>1, <2>3, <2>4, <3>1 DEF Split
    <3> QED
      BY <3>2, Divides
  <2>6. k % 2 = 1
    BY <2>1, <2>2, <2>3
  <2> QED
    BY <2>1, <2>5, <2>6
<1>5. (2 * m) % 2 = 0
  OBVIOUS
<1> QED
  BY <1>1, <1>3, <1>4, <1>5 DEF Ones

LEMMA TrailingOnesOf ==
    ASSUME LdeBits \in Nat, NEW l \in 0..LdeBits, NEW m \in Nat, NEW n, n = m * Two[l + 1] + Two[l] - 1
    PROVE  TrailingOnes(n) = l
<1>1. l \in Nat /\ l \in 0..(LdeBits + 1) /\ Ones(n, l)
  <2>1. l \in Nat /\ l \in 0..(LdeBits + 1)
    OBVIOUS
  <2> QED
    BY <2>1, OnesOf
<1>2. TrailingOnes(n) = CHOOSE k \in 0..(LdeBits + 1) : Ones(n, k)
  BY DEF TrailingOnes, Ones
<1>3. \A k \in 0..(LdeBits + 1) : Ones(n, k) => k = l
  <2> SUFFICES ASSUME NEW k \in 0..(LdeBits + 1), Ones(n, k), k # l PROVE FALSE
    OBVIOUS
  <2>1. CASE k < l
    <3>1. k \in 0..(l - 1)
      BY <2>1
    <3> QED
      BY <1>1, <3>1 DEF Ones
  <2>2. CASE l < k
    <3>1. l \in 0..(k - 1)
      BY <1>1, <2>2
    <3> QED
      BY <1>1, <3>1 DEF Ones
  <2> QED
    BY <2>1, <2>2
<1> HIDE DEF Ones
<1> QED
  BY <1>1, <1>2, <1>3

LEMMA FlipDigits ==
    ASSUME NEW m \in Nat, NEW p \in {0, 1}
    PROVE  Flip(2 * m + p) = 2 * m + (1 - p)
<1>1. (2 * m + 0) % 2 = 0 /\ (2 * m + 1) % 2 = 1
  OBVIOUS
<1> QED
  BY <1>1 DEF Flip

(* x as the bits above a tree of t * 2v leaves, a pair of nodes of t leaves *)
(* each, the one of the pair, and the rest.                                 *)
InPair(x, r, t, v, c, m, p) ==
    /\ c = x \div r /\ (x % r) \div t = 2 * m + p
    /\ x \div t = 2 * (c * v + m) + p

LEMMA PairOf ==
    ASSUME NEW t \in Nat \ {0}, NEW v \in Nat \ {0}, NEW r \in Nat \ {0}, r = t * (2 * v), NEW x \in Nat
    PROVE  \E c, m, p \in Nat : p \in {0, 1} /\ InPair(x, r, t, v, c, m, p)
<1>1. PICK c, y \in Nat : c = x \div r /\ y = x % r /\ y < r /\ x = c * r + y
  BY Division
<1>2. PICK n, z \in Nat : n = y \div t /\ z = y % t /\ z < t /\ y = n * t + z
  BY Division
<1>3. PICK m, p \in Nat : n = 2 * m + p /\ p \in {0, 1}
  BY Halves
<1>4. PICK d \in Nat : d = c * v
  OBVIOUS
<1>5. x = (2 * d + n) * t + z
  <2>1. c * r = (2 * d) * t
    BY <1>4
  <2>2. (2 * d + n) * t = (2 * d) * t + n * t
    BY <1>4
  <2>3. PICK a, b, e \in Nat : a = c * r /\ b = n * t /\ e = (2 * d) * t
    BY <1>4
  <2> QED
    BY <1>1, <1>2, <2>1, <2>2, <2>3
<1>6. x \div t = 2 * d + n
  <2>1. PICK k \in Nat : k = 2 * d + n
    BY <1>4
  <2>2. z \in 0..(t - 1)
    BY <1>2
  <2>3. x = k * t + z
    BY <1>5, <2>1, Zenon
  <2>4. Split(x, t, k, z)
    BY <2>2, <2>3 DEF Split
  <2>5. x \div t = k
    BY <2>4, Divides
  <2> QED
    BY <2>1, <2>5
<1>7. 2 * d + n = 2 * (d + m) + p
  BY <1>3, <1>4
<1>8. InPair(x, r, t, v, c, m, p)
  BY <1>1, <1>2, <1>3, <1>4, <1>6, <1>7 DEF InPair
<1> QED
  BY <1>3, <1>8

LEMMA SiblingBeside ==
    ASSUME NEW layers \in Nat, CapHeight \in Nat, LdeBits \in Nat, layers <= LdeBits,
           NEW l \in 0..(layers - 1), NEW x \in Nat
    PROVE  SiblingAt(x, layers, l) = NodeAt(layers + CapHeight, l, Flip(x \div Two[l]))
<1>1. /\ l \in Nat /\ l + 1 \in Nat /\ l + 1 # 0 /\ (l + 1) - 1 = l /\ l + 2 \in Nat /\ l + 2 # 0
      /\ (l + 2) - 1 = l + 1 /\ layers - l \in Nat /\ layers - l # 0 /\ (layers - l) - 1 \in Nat
      /\ l + (layers - l) = layers /\ l \in 0..LdeBits
  OBVIOUS
<1>2. PICK t \in Nat \ {0} : t = Two[l] /\ Two[l + 1] = 2 * t /\ Two[l + 2] = 4 * t
  <2>1. PICK t \in Nat \ {0} : t = Two[l]
    BY <1>1, TwoPositive
  <2>2. Two[l + 1] = 2 * t
    BY <1>1, <2>1, TwoUnfolds
  <2>3. Two[l + 2] = 2 * (2 * t)
    BY <1>1, <2>2, TwoUnfolds
  <2> QED
    BY <2>1, <2>2, <2>3
<1>3. PICK v \in Nat \ {0} : Two[layers - l] = 2 * v /\ Two[layers] = t * (2 * v)
  <2>1. PICK v \in Nat \ {0} : v = Two[(layers - l) - 1] /\ Two[layers - l] = 2 * v
    BY <1>1, TwoUnfolds, TwoPositive
  <2>2. Two[l + (layers - l)] = Two[l] * Two[layers - l]
    BY <1>1, TwoSum
  <2> QED
    BY <1>1, <1>2, <2>1, <2>2
<1>4. PICK c, m, p \in Nat : p \in {0, 1} /\ InPair(x, Two[layers], t, v, c, m, p)
  <2>1. PICK r \in Nat \ {0} : r = Two[layers] /\ r = t * (2 * v)
    BY <1>3, TwoPositive
  <2> QED
    BY <2>1, PairOf
<1>5. /\ c = x \div Two[layers] /\ (x % Two[layers]) \div Two[l] = 2 * m + p
      /\ x \div Two[l] = 2 * (c * v + m) + p /\ p \in {0, 1}
  BY <1>2, <1>4 DEF InPair
<1>6. PICK d \in Nat : d = c * v
  BY <1>3, <1>4
<1>7. Flip(x \div Two[l]) = 2 * (d + m) + (1 - p)
  <2>1. d + m \in Nat
    BY <1>4, <1>6
  <2> QED
    BY <1>5, <1>6, <2>1, FlipDigits
<1>8. (2 * m + p) \div 2 = m /\ (2 * m + p) % 2 = p
  BY <1>4, <1>5
<1>9. PICK f, e \in Nat : f = m * t /\ e = m * (2 * t) + t - 1
  BY <1>2, <1>4
<1>10. TrailingOnes(e) = l
  BY <1>1, <1>2, <1>4, <1>9, TrailingOnesOf
<1>11. PICK g \in Nat : /\ g = 2 * e + (1 - p) /\ g \div 2 = e /\ g % 2 = 1 - p
                        /\ g + 2 - 2 * t = m * (4 * t) + (1 - p)
  <2>1. 2 * e + (1 - p) \in Nat /\ (2 * e + (1 - p)) \div 2 = e /\ (2 * e + (1 - p)) % 2 = 1 - p
    BY <1>5, <1>9
  <2>2. m * (2 * t) = 2 * f /\ m * (4 * t) = 4 * f
    BY <1>2, <1>4, <1>9
  <2>3. 2 * e + (1 - p) + 2 - 2 * t = m * (4 * t) + (1 - p)
    BY <1>2, <1>5, <1>9, <2>2
  <2> QED
    BY <2>1, <2>3
<1>12. (g + 2 - 2 * t) \div (4 * t) = m
  <2>1. PICK u, b \in Nat : u = 4 * t /\ u # 0 /\ b = 1 - p /\ b \in 0..(u - 1)
    BY <1>2, <1>5
  <2>2. PICK n : n = g + 2 - 2 * t
    OBVIOUS
  <2>3. n = m * u + b
    BY <1>11, <2>1, <2>2
  <2>4. Split(n, u, m, b)
    BY <1>4, <2>1, <2>3 DEF Split
  <2>5. n \div u = m
    BY <2>4, Divides
  <2> QED
    BY <2>1, <2>2, <2>5
<1>13. PICK full \in Nat, hi, lo \in Nat : /\ full = layers + CapHeight + 1 /\ hi = Two[full] /\ lo = Two[full - l]
  <2>1. layers + CapHeight + 1 \in Nat /\ (layers + CapHeight + 1) - l \in Nat
    OBVIOUS
  <2> QED
    BY <2>1, TwoPositive
<1>14. SiblingAt(x, layers, l) = (m * 2 + (1 - p)) + hi - lo + c * (2 * v)
  <2>1. SiblingAt(x, layers, l)
          = ((g + 2 - Two[l + 1]) \div Two[l + 2]) * 2 + (g % 2) + hi - lo + c * (2 * v)
    BY <1>2, <1>3, <1>5, <1>8, <1>9, <1>10, <1>11, <1>13 DEF SiblingAt
  <2> QED
    BY <1>2, <1>11, <1>12, <2>1
<1>15. NodeAt(layers + CapHeight, l, Flip(x \div Two[l])) = hi - lo + (2 * (d + m) + (1 - p))
  BY <1>7, <1>13 DEF NodeAt
<1>16. c * (2 * v) = 2 * d
  BY <1>3, <1>4, <1>6
<1> QED
  BY <1>4, <1>5, <1>6, <1>13, <1>14, <1>15, <1>16

---------------------------------------------------------------------------
(* Memory written by many threads at once.                                  *)
LEMMA StoreAt ==
    ASSUME NEW mem, NEW addr, NEW val, NEW i \in DOMAIN addr, NEW a \in DOMAIN mem, addr[i] = a,
           \A k \in DOMAIN addr : addr[k] = a => k = i
    PROVE  Store(mem, addr, val)[a] = val[i]
<1>1. PICK c : c = CHOOSE k \in DOMAIN addr : addr[k] = a
  OBVIOUS
<1>2. c \in DOMAIN addr /\ addr[c] = a
  BY <1>1
<1>3. c = i
  BY <1>2
<1>4. Store(mem, addr, val)[a] = val[c]
  BY <1>1 DEF Store
<1> QED
  BY <1>3, <1>4

(* Of a grid of threads, just thread (x, y) writes to address a.            *)
OnlyWriter(mem, addr, X, Y, x, y, a) ==
    /\ a \in DOMAIN mem /\ DOMAIN addr = X \X Y /\ x \in X /\ y \in Y /\ addr[<<x, y>>] = a
    /\ \A u \in X, v \in Y : addr[<<u, v>>] = a => u = x /\ v = y

LEMMA GridStore ==
    ASSUME NEW X, NEW Y, NEW addr, NEW mem, NEW val, NEW x, NEW y, NEW a,
           OnlyWriter(mem, addr, X, Y, x, y, a)
    PROVE  Store(mem, addr, val)[a] = val[<<x, y>>]
<1> USE DEF OnlyWriter
<1>1. PICK i : i = <<x, y>> /\ i \in DOMAIN addr /\ addr[i] = a
  OBVIOUS
<1>3. a \in DOMAIN mem
  OBVIOUS
<1>2. ASSUME NEW k \in DOMAIN addr, addr[k] = a PROVE k = i
  <2>1. PICK u \in X, v \in Y : k = <<u, v>>
    OBVIOUS
  <2> QED
    BY <1>1, <1>2, <2>1
<1> HIDE DEF OnlyWriter
<1> QED
  BY <1>1, <1>2, <1>3, StoreAt

LEMMA StoreElse ==
    ASSUME NEW mem, NEW addr, NEW val, NEW a \in DOMAIN mem, \A k \in DOMAIN addr : addr[k] # a
    PROVE  Store(mem, addr, val)[a] = mem[a]
BY DEF Store

LEMMA StoreDomain ==
    ASSUME NEW mem, NEW addr, NEW val
    PROVE  DOMAIN Store(mem, addr, val) = DOMAIN mem
BY DEF Store

---------------------------------------------------------------------------
(* The initial leaves of a query.                                           *)
LEMMA FriTypes ==
    /\ DegreeBits \in Nat /\ CapHeight \in Nat /\ RateBits \in Nat /\ LdeBits \in Nat
    /\ NumQueries \in Nat \ {0} /\ Two[DegreeBits] \in Nat \ {0} /\ Two[LdeBits] \in Nat \ {0}
    /\ Two[LdeBits] = Rate * Two[DegreeBits]
<1>1. DegreeBits \in Nat /\ CapHeight \in Nat /\ RateBits \in Nat /\ NumQueries \in Nat \ {0}
  BY LayoutAssumption, FriAssumption
<1>2. LdeBits = RateBits + DegreeBits /\ LdeBits \in Nat
  BY <1>1 DEF LdeBits
<1> QED
  BY <1>1, <1>2, TwoPositive, TwoSum DEF Rate

LEMMA BlockOf ==
    ASSUME NEW x \in 0..(Two[LdeBits] - 1)
    PROVE  x \div Two[DegreeBits] \in Parts /\ x \in Nat
<1>1. PICK r, n \in Nat \ {0} : r = Two[DegreeBits] /\ n = Rate /\ Two[LdeBits] = n * r
  BY FriTypes, CountType
<1>2. x \div r \in 0..(n - 1)
  BY <1>1, Undigits
<1>3. x \in Nat
  BY FriTypes
<1> QED
  BY <1>1, <1>2, <1>3 DEF Parts

(* A leaf of prove n at index x, of terms y.                                *)
LeafOf(n, s, j, x, y) ==
    <<Form(s, j, Nth(n, s), "values", "bitrev", <<1, Rev(x \div Two[DegreeBits])>>, y),
      x % Two[DegreeBits]>>

LEMMA PolyLeaf ==
    ASSUME NEW n, NEW F, NEW s, NEW j, NEW x \in 0..(Two[LdeBits] - 1),
           Is(F[FpSlot(s, j)], s, j, Nth(n, s), "coeffs", "natural", <<0, 0>>)
    PROVE  PolyAt(F[FpSlot(s, j)], x) = LeafOf(n, s, j, x, F[FpSlot(s, j)].sum)
<1>1. PICK b \in Nat : b = Rev(x \div Two[DegreeBits])
  BY BlockOf, RevParts DEF Parts
<1>2. PICK f : f = F[FpSlot(s, j)] /\ Is(f, s, j, Nth(n, s), "coeffs", "natural", <<0, 0>>)
  OBVIOUS
<1>3. Times(<<0, 0>>, <<1, b>>) = <<1, b>>
  BY <1>1, TimesPair
<1>4. PICK g : g = MulExp(f, <<1, b>>) /\ Becomes(g, f, s, j, Nth(n, s), "coeffs", "natural", <<1, b>>)
  BY <1>2, <1>3, MulExpForm
<1>5. Is(g, s, j, Nth(n, s), "coeffs", "natural", <<1, b>>) /\ g.sum = f.sum
  BY <1>4 DEF Becomes
<1>6. NttN2B(g) = Form(s, j, Nth(n, s), "values", "bitrev", <<1, b>>, f.sum)
  BY <1>5, N2BForm DEF Becomes
<1> QED
  BY <1>1, <1>2, <1>4, <1>6 DEF PolyAt, LeafOf

LEMMA LdeLeaf ==
    ASSUME NEW n, NEW F, NEW L, NEW N, NEW s, Extended(F, L, N, s, Nth(n, s)), NEW j \in 0..(N[s] - 1),
           NEW x \in 0..(Two[LdeBits] - 1)
    PROVE  LdeAt(L[LdeSlot(N, s, j)], x) = LeafOf(n, s, j, x, L[LdeSlot(N, s, j)].sum)
<1>1. PICK b \in Parts : b = x \div Two[DegreeBits]
  BY BlockOf
<1>2. PICK l, y : l = L[LdeSlot(N, s, j)] /\ y = l.sum
                  /\ l = Form(s, j, Nth(n, s), "lde", "bitrev", G, y)
  BY DEF Extended, Extension
<1>3. LdeBlock(l, b) = Form(s, j, Nth(n, s), "values", "bitrev", <<1, Rev(b)>>, y)
  BY <1>2, LdeBlockForm
<1> QED
  BY <1>1, <1>2, <1>3 DEF LdeAt, LeafOf

LEMMA TreeLeaf ==
    ASSUME NEW n, NEW F, NEW L, NEW N, NEW T, NEW s, Hashed(F, L, N, T, s, Nth(n, s), Rate),
           NEW j \in Index(s), NEW x \in 0..(Two[LdeBits] - 1)
    PROVE  T[s][x \div Two[DegreeBits]][j] = LeafOf(n, s, j, x, LeafSum(F, L, N, s, j))[1]
<1>1. PICK b \in Parts : b = x \div Two[DegreeBits]
  BY BlockOf
<1>2. Rev(b) \in 0..(Rate - 1) /\ Rev(Rev(b)) = b
  BY RevParts DEF Parts
<1>3. T[s][Rev(Rev(b))][j]
         = Form(s, j, Nth(n, s), "values", "bitrev", <<1, Rev(b)>>, LeafSum(F, L, N, s, j))
  BY <1>2 DEF Hashed
<1> QED
  BY <1>1, <1>2, <1>3 DEF LeafOf

LEMMA TakenOff ==
    ASSUME NEW n \in Nat, NEW d \in Nat, NEW m \in Nat, NEW q \in Nat
    PROVE  ((n + d) * m + q) - n * m = d * m + q
OBVIOUS

LEMMA SameSplit ==
    ASSUME NEW a, NEW m, NEW d, NEW q, Split(a, m, d, q), NEW e, NEW r, Split(a, m, e, r)
    PROVE  d = e /\ q = r
<1>1. a \div m = d /\ a % m = q
  BY Divides
<1>2. a \div m = e /\ a % m = r
  BY Divides
<1> QED
  BY <1>1, <1>2

(* Thread (q, p) of fri_initial_leaves_seg, and what the reduce kernel      *)
(* reads of it.                                                             *)
ScratchAddr(rest) == [i \in Queries \X rest |-> i[2] * NumQueries + i[1]]

InScratch(mem, s, rest, q, j) ==
    /\ s \in Segments /\ LdesFit(numLdes) /\ rest = 0..(Count[s] - numLdes[s] - 1)
    /\ DOMAIN mem = 0..(ScratchLen - 1) /\ q \in Queries /\ j \in Index(s) /\ ~(j < numLdes[s])

LEMMA ScratchRead ==
    ASSUME ScratchFits, NEW mem, NEW s, NEW rest, NEW q, NEW j, InScratch(mem, s, rest, q, j), NEW val
    PROVE  /\ <<q, j - numLdes[s]>> \in Queries \X rest /\ numLdes[s] + (j - numLdes[s]) = j
           /\ Load(Store(mem, ScratchAddr(rest), val), ScratchAt(s, q, j)) = val[<<q, j - numLdes[s]>>]
<1> USE DEF InScratch
<1>1. PICK n, c \in Nat : n = numLdes[s] /\ c = Count[s] /\ n <= c
  BY IndexLdes
<1>2. j \in Nat /\ j < c /\ j >= n
  BY <1>1 DEF Index
<1>3. PICK d \in Nat : d = j - n /\ n + d = j /\ d < c - n /\ d \in rest
  <2>1. j - n \in Nat /\ n + (j - n) = j /\ j - n < c - n /\ j - n \in 0..(c - n - 1)
    BY <1>1, <1>2
  <2> QED
    BY <1>1, <2>1
<1>4. PICK m \in Nat \ {0} : m = NumQueries
  BY FriTypes
<1>5. q \in 0..(m - 1)
  BY <1>4 DEF Queries
<1>6. PICK a : a = d * m + q /\ a \in DOMAIN mem
  <2>1. PICK w \in Nat : w = NumWires + 1 /\ c - n <= w /\ ScratchLen = m * w
    BY <1>1, <1>4, LayoutAssumption DEF ScratchFits, ScratchLen
  <2>2. d \in 0..(w - 1)
    <3> HIDE DEF InScratch
    <3> QED
      BY <1>1, <1>3, <2>1
  <2>3. d * m + q \in 0..(w * m - 1)
    BY <1>4, <1>5, <2>1, <2>2, DigitsBound
  <2>4. w * m = m * w
    BY <1>4, <2>1
  <2> QED
    BY <2>1, <2>3, <2>4
<1>7. ScratchAt(s, q, j) = a
  <2>1. q \in Nat
    BY <1>4, <1>5
  <2>2. ((n + d) * m + q) - n * m = d * m + q
    BY <1>4, <2>1, TakenOff
  <2> QED
    BY <1>1, <1>3, <1>4, <1>6, <2>2 DEF ScratchAt
<1>8a. PICK addr : addr = ScratchAddr(rest) /\ addr = [i \in Queries \X rest |-> i[2] * m + i[1]]
  BY <1>4 DEF ScratchAddr
<1>8. /\ addr = ScratchAddr(rest) /\ DOMAIN addr = Queries \X rest
      /\ \A u \in Queries, v \in rest : addr[<<u, v>>] = v * m + u
  BY <1>8a
<1>9. ASSUME NEW u \in Queries, NEW v \in rest, addr[<<u, v>>] = a PROVE u = q /\ v = d
  <2>1. v * m + u = a
    BY <1>8, <1>9
  <2>2. v \in Nat /\ u \in 0..(m - 1)
    BY <1>1, <1>4 DEF Queries
  <2>3. Split(a, m, d, q)
    BY <1>3, <1>4, <1>5, <1>6 DEF Split
  <2>4. Split(a, m, v, u)
    BY <1>4, <2>1, <2>2 DEF Split
  <2> QED
    BY <2>3, <2>4, SameSplit
<1>10. Store(mem, addr, val)[a] = val[<<q, d>>]
  <2>1. addr[<<q, d>>] = a
    BY <1>3, <1>6, <1>8
  <2>2. OnlyWriter(mem, addr, Queries, rest, q, d, a)
    BY <1>3, <1>6, <1>8, <1>9, <2>1 DEF OnlyWriter
  <2> QED
    BY <2>2, GridStore
<1>11. a \in DOMAIN Store(mem, addr, val)
  BY <1>6, StoreDomain
<1>12. Load(Store(mem, addr, val), a) = val[<<q, d>>]
  BY <1>10, <1>11 DEF Load
<1> QED
  BY <1>1, <1>3, <1>7, <1>8, <1>12

---------------------------------------------------------------------------
(* Sums of the first elements of a list.                                    *)
LEMMA SumsUnfold ==
    ASSUME NEW n \in Nat, NEW list \in [1..n -> Nat]
    PROVE  /\ Sums(list) \in [0..n -> Nat] /\ Sums(list)[0] = 0
           /\ \A k \in 1..n : Sums(list)[k] = Sums(list)[k - 1] + list[k]
<1>1. Len(list) = n
  BY LenProperties
<1> DEFINE g == [x \in (1..n) \X Nat |-> x[2] + list[x[1]]]
           F(h) == h = [k \in 0..n |-> IF k = 0 THEN 0 ELSE h[k - 1] + list[k]]
<1>2. g \in [(1..n) \X Nat -> Nat]
  <2>1. ASSUME NEW x \in (1..n) \X Nat PROVE x[2] + list[x[1]] \in Nat
    OBVIOUS
  <2> QED
    BY <2>1
<1>3. \A k \in 1..n, v \in Nat : g[<<k, v>>] = v + list[k]
  OBVIOUS
<1> HIDE DEF g
<1>4. PICK h \in [0..n -> Nat] : Recursion(h, n, 0, g)
  BY <1>2, RecursionExists
<1>5. h[0] = 0 /\ \A k \in 1..n : h[k] = g[<<k, h[k - 1]>>]
  <2> DEFINE e(k) == IF k = 0 THEN 0 ELSE g[<<k, h[k - 1]>>]
  <2>1. h = [k \in 0..n |-> e(k)]
    BY <1>4 DEF Recursion
  <2> HIDE DEF e
  <2>2. \A k \in 0..n : h[k] = e(k)
    BY <2>1
  <2>3. 0 \in 0..n /\ \A k \in 1..n : k \in 0..n /\ k # 0
    OBVIOUS
  <2> QED
    BY <2>2, <2>3 DEF e
<1>6. \A k \in 1..n : h[k] = h[k - 1] + list[k]
  <2> SUFFICES ASSUME NEW k \in 1..n PROVE h[k] = h[k - 1] + list[k]
    OBVIOUS
  <2>1. k - 1 \in 0..n /\ h[k - 1] \in Nat
    OBVIOUS
  <2> QED
    BY <1>3, <1>5, <2>1
<1>7. F(h)
  <2>1. \A k \in 0..n : k # 0 => k \in 1..n
    OBVIOUS
  <2>2. \A k \in 0..n : h[k] = IF k = 0 THEN 0 ELSE h[k - 1] + list[k]
    BY <1>5, <1>6, <2>1
  <2> QED
    BY <2>2
<1>8. Sums(list) = CHOOSE f : F(f)
  BY <1>1 DEF Sums
<1>9. PICK f : f = Sums(list) /\ F(f)
  <2> HIDE DEF F
  <2> QED
    BY <1>7, <1>8
<1>10. f[0] = 0 /\ \A k \in 1..n : f[k] = f[k - 1] + list[k]
  <2>1. 0 \in 0..n /\ \A k \in 1..n : k \in 0..n /\ k # 0
    OBVIOUS
  <2> DEFINE e(k) == IF k = 0 THEN 0 ELSE f[k - 1] + list[k]
  <2>2. f = [k \in 0..n |-> e(k)]
    BY <1>9
  <2> HIDE DEF e
  <2>3. \A k \in 0..n : f[k] = e(k)
    BY <2>2
  <2> QED
    BY <2>1, <2>3 DEF e
<1>11. \A k \in 0..n : f[k] \in Nat
  <2> DEFINE S == {k \in 0..n : f[k] \in Nat}
  <2>1. 0 \in S
    BY <1>10
  <2>2. ASSUME NEW i \in 0..(n - 1), i \in S PROVE i + 1 \in S
    <3>1. i + 1 \in 1..n /\ i + 1 \in 0..n /\ (i + 1) - 1 = i /\ f[i] \in Nat /\ list[i + 1] \in Nat
      BY <2>2
    <3>2. f[i + 1] = f[i] + list[i + 1]
      BY <1>10, <3>1
    <3> QED
      BY <3>1, <3>2
  <2> HIDE DEF S
  <2>3. 0..n \subseteq S
    BY <2>1, <2>2, UpTo
  <2> QED
    BY <2>3 DEF S
<1>12. DOMAIN f = 0..n /\ f = [k \in DOMAIN f |-> f[k]]
  BY <1>9
<1> QED
  BY <1>9, <1>10, <1>11, <1>12

LEMMA SumsGrow ==
    ASSUME NEW n \in Nat, NEW list \in [1..n -> Nat], NEW i \in 0..n, NEW k \in 0..n, i <= k
    PROVE  Sums(list)[i] <= Sums(list)[k] /\ Sums(list)[i] \in Nat /\ Sums(list)[k] \in Nat
<1>1. PICK f : f = Sums(list)
  OBVIOUS
<1>2. f \in [0..n -> Nat] /\ \A m \in 1..n : f[m] = f[m - 1] + list[m]
  BY <1>1, SumsUnfold
<1> DEFINE S == {m \in Nat : i + m <= n => f[i] <= f[i + m]}
<1>3. 0 \in S
  BY <1>2
<1>4. ASSUME NEW m \in S PROVE m + 1 \in S
  <2> SUFFICES ASSUME i + (m + 1) <= n PROVE f[i] <= f[i + (m + 1)]
    BY <1>4
  <2>1. i + m \in 0..n /\ i + (m + 1) \in 1..n /\ (i + (m + 1)) - 1 = i + m /\ m \in Nat
    BY <1>4
  <2>2. PICK a, b, c \in Nat : a = f[i] /\ b = f[i + m] /\ c = list[i + (m + 1)]
    BY <1>2, <2>1
  <2>3. f[i + (m + 1)] = b + c /\ a <= b
    BY <1>2, <1>4, <2>1, <2>2
  <2> QED
    BY <2>2, <2>3
<1> HIDE DEF S
<1>5. S = Nat
  <2>1. S \in SUBSET Nat
    BY DEF S
  <2> QED
    BY <1>3, <1>4, <2>1, SetInduction
<1>6. k - i \in Nat /\ i + (k - i) = k
  OBVIOUS
<1>7. k - i \in S
  BY <1>5, <1>6
<1> QED
  BY <1>1, <1>2, <1>6, <1>7 DEF S

---------------------------------------------------------------------------
(* Results of all queries, a row of w for each, of which a round writes m   *)
(* from b on.                                                               *)
Rows(n, w, b, m) == [i \in (0..(n - 1)) \X (0..(m - 1)) |-> i[1] * w + b + i[2]]

RowFits(mem, n, w, b, m) ==
    /\ n \in Nat /\ w \in Nat /\ b \in Nat /\ m \in Nat /\ b + m <= w
    /\ DOMAIN mem = 0..(n * w - 1)

LEMMA RowWritten ==
    ASSUME NEW mem, NEW n, NEW w, NEW b, NEW m, RowFits(mem, n, w, b, m), NEW val,
           NEW x \in 0..(n - 1), NEW y \in 0..(m - 1)
    PROVE  Store(mem, Rows(n, w, b, m), val)[x * w + b + y] = val[<<x, y>>]
<1>1. /\ n \in Nat /\ w \in Nat \ {0} /\ b \in Nat /\ m \in Nat /\ b + m <= w
      /\ DOMAIN mem = 0..(n * w - 1)
  BY DEF RowFits
<1>0. PICK addr : addr = Rows(n, w, b, m)
  OBVIOUS
<1>2. addr = Rows(n, w, b, m) /\ DOMAIN addr = (0..(n - 1)) \X (0..(m - 1))
  BY <1>0 DEF Rows
<1>3. \A u \in 0..(n - 1), v \in 0..(m - 1) : addr[<<u, v>>] = u * w + b + v
  BY <1>2 DEF Rows
<1>4. \A v \in 0..(m - 1) : v \in Nat /\ b + v \in 0..(w - 1)
  BY <1>1
<1>5. \A u \in 0..(n - 1) : u \in Nat
  BY <1>1
<1>6. PICK a : a = x * w + b + y
  OBVIOUS
<1>7. ASSUME NEW u \in 0..(n - 1), NEW v \in 0..(m - 1), addr[<<u, v>>] = u * w + b + v
      PROVE  Split(addr[<<u, v>>], w, u, b + v)
  <2>1. PICK t \in Nat : t = u * w
    BY <1>1, <1>5
  <2>2. u * w + b + v = u * w + (b + v)
    BY <1>1, <1>4, <2>1
  <2> QED
    BY <1>1, <1>4, <1>5, <1>7, <2>2 DEF Split
<1>8. Split(a, w, x, b + y) /\ addr[<<x, y>>] = a
  BY <1>3, <1>6, <1>7
<1>9. ASSUME NEW u \in 0..(n - 1), NEW v \in 0..(m - 1), addr[<<u, v>>] = a PROVE u = x /\ v = y
  <2>1. Split(a, w, u, b + v)
    BY <1>3, <1>7, <1>9
  <2>2. u = x /\ b + v = b + y
    BY <1>8, <2>1, SameSplit
  <2> QED
    BY <1>1, <1>4, <2>2
<1>10. a \in 0..(n * w - 1)
  <2>1. PICK e \in 0..(w - 1) : e = b + y
    BY <1>4
  <2>2. x * w + e \in 0..(n * w - 1)
    BY <1>1, DigitsBound
  <2>3. PICK t \in Nat : t = x * w
    BY <1>1, <1>5
  <2>4. a = t + e
    BY <1>1, <1>4, <1>6, <2>1, <2>3
  <2> QED
    BY <2>2, <2>3, <2>4
<1>11. OnlyWriter(mem, addr, 0..(n - 1), 0..(m - 1), x, y, a)
  BY <1>1, <1>2, <1>8, <1>9, <1>10 DEF OnlyWriter
<1>12. Store(mem, addr, val)[a] = val[<<x, y>>]
  BY <1>11, GridStore
<1> QED
  BY <1>2, <1>6, <1>12

OutsideRow(mem, n, w, b, m, a, x, e) ==
    /\ RowFits(mem, n, w, b, m) /\ a = x * w + e /\ x \in 0..(n - 1) /\ e \in 0..(w - 1)
    /\ e < b \/ e >= b + m

LEMMA RowKept ==
    ASSUME NEW mem, NEW n, NEW w, NEW b, NEW m, NEW a, NEW x, NEW e,
           OutsideRow(mem, n, w, b, m, a, x, e), NEW val
    PROVE  Store(mem, Rows(n, w, b, m), val)[a] = mem[a]
<1> USE DEF OutsideRow
<1>1. /\ n \in Nat /\ w \in Nat \ {0} /\ b \in Nat /\ m \in Nat /\ b + m <= w
      /\ DOMAIN mem = 0..(n * w - 1)
  BY DEF RowFits
<1>0. PICK addr : addr = Rows(n, w, b, m)
  OBVIOUS
<1>2. addr = Rows(n, w, b, m) /\ DOMAIN addr = (0..(n - 1)) \X (0..(m - 1))
  BY <1>0 DEF Rows
<1>3. \A u \in 0..(n - 1), v \in 0..(m - 1) : addr[<<u, v>>] = u * w + b + v
  BY <1>2 DEF Rows
<1>4. \A u \in 0..(n - 1), v \in 0..(m - 1) : u \in Nat /\ v \in Nat /\ b + v \in 0..(w - 1)
  BY <1>1
<1>5. a = x * w + e
  OBVIOUS
<1>6. Split(a, w, x, e)
  BY <1>1, <1>5 DEF Split
<1>7. ASSUME NEW k \in DOMAIN addr PROVE addr[k] # a
  <2> SUFFICES ASSUME addr[k] = a PROVE FALSE
    OBVIOUS
  <2>1. PICK u \in 0..(n - 1), v \in 0..(m - 1) : k = <<u, v>>
    BY <1>2, <1>7
  <2>2. PICK t \in Nat : t = u * w
    BY <1>1, <1>4
  <2>3. a = u * w + (b + v)
    BY <1>1, <1>3, <1>4, <2>1, <2>2
  <2>4. Split(a, w, u, b + v)
    BY <1>1, <1>4, <2>3 DEF Split
  <2>5. e = b + v
    BY <1>6, <2>4, SameSplit
  <2> QED
    BY <1>1, <1>4, <2>5
<1>8. a \in DOMAIN mem
  BY <1>1, <1>5, DigitsBound
<1>9. Store(mem, addr, val)[a] = mem[a]
  BY <1>7, <1>8, StoreElse
<1> QED
  BY <1>2, <1>5, <1>9

---------------------------------------------------------------------------
(* One segment of initial_proofs.                                           *)
LEMMA SegmentOrderOf ==
    /\ \A r \in 1..4 : SegmentOrder[r] \in Segments
    /\ \A r \in 1..4, i \in 1..4 : SegmentOrder[r] = SegmentOrder[i] => r = i
<1>1. \A r \in 1..4 : r = 1 \/ r = 2 \/ r = 3 \/ r = 4
  OBVIOUS
<1>2. /\ SegmentOrder[1] = "ConstantsSigmas" /\ SegmentOrder[2] = "Wires"
      /\ SegmentOrder[3] = "PartialProducts" /\ SegmentOrder[4] = "Quotients"
  BY DEF SegmentOrder
<1>3. \A r \in 1..4 : SegmentOrder[r] \in Segments
  BY <1>1, <1>2 DEF Segments
<1>4. ASSUME NEW r \in 1..4, NEW i \in 1..4, SegmentOrder[r] = SegmentOrder[i] PROVE r = i
  BY <1>1, <1>2, <1>4
<1> QED
  BY <1>3, <1>4

(* The indices of the queries in the extended domain.                       *)
InDomain(x) == x \in [Queries -> 0..(Two[LdeBits] - 1)]

(* What fri_initial_leaves_seg leaves in the scratch, and what the reduce   *)
(* kernel makes a leaf of.                                                  *)
Rest(s) == 0..(Count[s] - numLdes[s] - 1)

ScratchOf(s, x) ==
    Store(scratch, ScratchAddr(Rest(s)),
          [i \in Queries \X Rest(s) |-> PolyAt(fp[FpSlot(s, numLdes[s] + i[2])], x[i[1]])])

ReducedLeaf(s, x, mem, q, j) ==
    IF j < numLdes[s] THEN LdeAt(lde[LdeSlot(numLdes, s, j)], x[q])
    ELSE Load(mem, ScratchAt(s, q, j))

(* The terms of what is opened.                                             *)
OpenSum(s, j) == IF j < numLdes[s] THEN lde[LdeSlot(numLdes, s, j)].sum ELSE fp[FpSlot(s, j)].sum

LEMMA LeafRead ==
    ASSUME NEW s \in Segments, LdesFit(numLdes), DOMAIN scratch = 0..(ScratchLen - 1),
           NEW n, Ready(n, numLdes, fp, lde, tree, s, <<0, 0>>), NEW x, InDomain(x),
           NEW q \in Queries, NEW j \in Index(s), j < numLdes[s] \/ ScratchFits
    PROVE  ReducedLeaf(s, x, ScratchOf(s, x), q, j) = LeafOf(n, s, j, x[q], OpenSum(s, j))
<1>1. x[q] \in 0..(Two[LdeBits] - 1)
  BY DEF InDomain
<1>2. Is(fp[FpSlot(s, j)], s, j, Nth(n, s), "coeffs", "natural", <<0, 0>>)
  BY DEF Ready, Moved
<1>3. Extended(fp, lde, numLdes, s, Nth(n, s))
  BY DEF Ready
<1>4. CASE j < numLdes[s]
  <2>1. j \in 0..(numLdes[s] - 1)
    BY <1>4, IndexLdes
  <2>2. LdeAt(lde[LdeSlot(numLdes, s, j)], x[q]) = LeafOf(n, s, j, x[q], lde[LdeSlot(numLdes, s, j)].sum)
    BY <1>1, <1>3, <2>1, LdeLeaf
  <2> QED
    BY <1>4, <2>2 DEF ReducedLeaf, OpenSum
<1>5. CASE ~(j < numLdes[s])
  <2> DEFINE val == [i \in Queries \X Rest(s) |-> PolyAt(fp[FpSlot(s, numLdes[s] + i[2])], x[i[1]])]
  <2>1. PICK d : d = j - numLdes[s]
    OBVIOUS
  <2>2. /\ <<q, d>> \in Queries \X Rest(s) /\ numLdes[s] + d = j
        /\ Load(Store(scratch, ScratchAddr(Rest(s)), val), ScratchAt(s, q, j)) = val[<<q, d>>]
    <3> HIDE DEF val
    <3>1. PICK rest : rest = Rest(s) /\ rest = 0..(Count[s] - numLdes[s] - 1)
      BY DEF Rest
    <3>2. InScratch(scratch, s, rest, q, j)
      BY <1>5, <3>1 DEF InScratch
    <3>3. PICK v : v = val
      OBVIOUS
    <3>4. /\ <<q, j - numLdes[s]>> \in Queries \X rest /\ numLdes[s] + (j - numLdes[s]) = j
          /\ Load(Store(scratch, ScratchAddr(rest), v), ScratchAt(s, q, j)) = v[<<q, j - numLdes[s]>>]
      BY <1>5, <3>2, ScratchRead
    <3> QED
      BY <2>1, <3>1, <3>3, <3>4
  <2>3. val[<<q, d>>] = PolyAt(fp[FpSlot(s, j)], x[q])
    BY <2>2
  <2>4. PolyAt(fp[FpSlot(s, j)], x[q]) = LeafOf(n, s, j, x[q], fp[FpSlot(s, j)].sum)
    BY <1>1, <1>2, PolyLeaf
  <2> QED
    BY <1>5, <2>2, <2>3, <2>4 DEF ReducedLeaf, ScratchOf, OpenSum
<1> QED
  BY <1>4, <1>5

---------------------------------------------------------------------------
(* What the query phase has achieved.                                       *)
LeavesRight(mem, n) ==
    \A r \in 1..n : \A q \in Queries : \A j \in Index(SegmentOrder[r]) :
        j < numLdes[SegmentOrder[r]] \/ ScratchFits =>
            mem[SegmentOrder[r]][q * Count[SegmentOrder[r]] + j]
                = LeafOf(proves, SegmentOrder[r], j, XIndex(q), OpenSum(SegmentOrder[r], j))

Beside(q, r, l) ==
    Node(SegmentOrder[r], 0, NodeAt(NumLayers + CapHeight, l, Flip(XIndex(q) \div Two[l])))

SiblingsRight(mem, n) ==
    \A r \in 1..n : \A q \in Queries : \A l \in 0..(NumLayers - 1) :
        mem[q * (4 * NumLayers) + (r - 1) * NumLayers + l] = Beside(q, r, l)

Memories ==
    /\ DOMAIN scratch = 0..(ScratchLen - 1) /\ DOMAIN initLeaves = Segments
    /\ \A s \in Segments : DOMAIN initLeaves[s] = 0..(NumQueries * Count[s] - 1)
    /\ DOMAIN initSiblings = 0..(NumQueries * (4 * NumLayers) - 1)

QueryTypes ==
    /\ arities \in Reductions /\ Memories
    /\ friPhase \in {"final_poly", "commit", "initial", "steps", "assemble"}
    /\ friPhase # "final_poly" => phase = "open"
    /\ sampled \in [Queries -> Nat] /\ xIndexes \in [Queries -> Nat] /\ round \in Nat \ {0}

InitialInv ==
    friPhase = "initial" =>
        /\ round \in 1..5 /\ \A q \in Queries : xIndexes[q] % Two[LdeBits] = XIndex(q)
        /\ LeavesRight(initLeaves, round - 1) /\ SiblingsRight(initSiblings, round - 1)

QueriedInv ==
    friPhase \in {"steps", "assemble"}
        => LeavesRight(initLeaves, 4) /\ SiblingsRight(initSiblings, 4)

QueryInv == QueryTypes /\ InitialInv /\ QueriedInv

LEMMA LayersType ==
    ASSUME NEW list \in Reductions
    PROVE  /\ list \in [1..Len(list) -> Nat \ {0}] /\ Len(list) \in Nat \ {0}
           /\ NumLayers \in Nat /\ NumLayers <= LdeBits /\ NumLayers + CapHeight = LdeBits
           /\ BitsFolded(list, Len(list)) \in Nat /\ BitsFolded(list, Len(list)) <= NumLayers
<1>1. list \in Seq(Nat \ {0}) /\ list # <<>> /\ BitsFolded(list, Len(list)) <= NumLayers
  BY FriAssumption, SMTT(30)
<1>2. PICK n \in Nat \ {0} : n = Len(list) /\ list \in [1..n -> Nat \ {0}]
  <2>1. Len(list) \in Nat /\ list \in [1..Len(list) -> Nat \ {0}] /\ Len(list) # 0
    BY <1>1, LenProperties, EmptySeq
  <2> QED
    BY <2>1
<1>3. list \in [1..n -> Nat]
  BY <1>2
<1>4. PICK b \in Nat : b = BitsFolded(list, n)
  <2>1. n \in 0..n
    OBVIOUS
  <2> QED
    BY <1>3, <2>1, SumsUnfold DEF BitsFolded
<1>5. LdeBits \in Nat /\ CapHeight \in Nat /\ NumLayers = LdeBits - CapHeight
  BY FriTypes DEF NumLayers
<1>6. PICK y \in Int : y = NumLayers /\ b <= y
  BY <1>1, <1>2, <1>4, <1>5
<1> QED
  BY <1>2, <1>4, <1>5, <1>6

LEMMA InitQueries == ASSUME ProofInit PROVE QueryInv
<1>1. NumQueries * 4 * NumLayers = NumQueries * (4 * NumLayers) /\ NumQueries \in Nat \ {0}
  <2>1. PICK n, y \in Nat : n = NumQueries /\ y = NumLayers /\ n # 0
    BY LayersType, FriTypes DEF ProofInit
  <2> QED
    BY <2>1
<1>2. Memories
  BY <1>1 DEF ProofInit, Memories, Filled
<1>3. sampled \in [Queries -> Nat] /\ xIndexes \in [Queries -> Nat]
  BY DEF ProofInit, Filled, Queries
<1> QED
  BY <1>2, <1>3 DEF ProofInit, QueryInv, QueryTypes, InitialInv, QueriedInv

LeafMemory(mem, s, addr) ==
    /\ s \in Segments /\ DOMAIN mem = 0..(NumQueries * Count[s] - 1)
    /\ addr = [i \in Queries \X Index(s) |-> i[1] * Count[s] + i[2]]

LEMMA LeavesStored ==
    ASSUME NEW old, NEW s, NEW addr, LeafMemory(old, s, addr), NEW val,
           NEW q \in Queries, NEW j \in Index(s), NEW a, a = q * Count[s] + j
    PROVE  Store(old, addr, val)[a] = val[<<q, j>>]
<1> USE DEF LeafMemory
<1>1. PICK n, w \in Nat : n = NumQueries /\ w = Count[s]
  BY FriTypes, CountType
<1>2. Queries = 0..(n - 1) /\ Index(s) = 0..(w - 1)
  BY <1>1 DEF Queries, Index
<1>3. addr = Rows(n, w, 0, w)
  <2>1. ASSUME NEW i \in (0..(n - 1)) \X (0..(w - 1)) PROVE i[1] * w + 0 + i[2] = i[1] * w + i[2]
    OBVIOUS
  <2> QED
    BY <1>1, <1>2, <2>1 DEF Rows
<1>4. RowFits(old, n, w, 0, w)
  BY <1>1 DEF RowFits
<1>5. q \in 0..(n - 1) /\ j \in 0..(w - 1)
  BY <1>2
<1>6. Store(old, Rows(n, w, 0, w), val)[q * w + 0 + j] = val[<<q, j>>]
  BY <1>4, <1>5, RowWritten
<1>7. q * w + 0 + j = q * w + j
  BY <1>5
<1> QED
  BY <1>1, <1>3, <1>6, <1>7

(* Row of the siblings of the four segments.                                *)
SiblingRow(r) == Rows(NumQueries, 4 * NumLayers, (r - 1) * NumLayers, NumLayers)

LEMMA SiblingRowOf ==
    ASSUME NumLayers \in Nat, NEW r \in 1..4, NEW addr,
           addr = [i \in Queries \X (0..(NumLayers - 1)) |-> (i[1] * 4 + r - 1) * NumLayers + i[2]]
    PROVE  addr = SiblingRow(r)
<1>1. PICK n, y \in Nat : n = NumQueries /\ y = NumLayers
  BY FriTypes
<1>2. ASSUME NEW i \in (0..(n - 1)) \X (0..(y - 1))
      PROVE  (i[1] * 4 + r - 1) * y + i[2] = i[1] * (4 * y) + (r - 1) * y + i[2]
  <2>1. PICK u, v \in Nat : u = i[1] /\ v = i[2]
    OBVIOUS
  <2>2. PICK p \in Nat : p = r - 1
    OBVIOUS
  <2>3. (u * 4 + r - 1) = u * 4 + p
    BY <2>2
  <2>4. (u * 4 + p) * y = u * (4 * y) + p * y
    OBVIOUS
  <2> QED
    BY <2>1, <2>2, <2>3, <2>4
<1> QED
  BY <1>1, <1>2 DEF SiblingRow, Rows, Queries

SiblingMemory(mem) == DOMAIN mem = 0..(NumQueries * (4 * NumLayers) - 1)

LEMMA SiblingsStored ==
    ASSUME NumLayers \in Nat, NEW r \in 1..4, NEW old, SiblingMemory(old), NEW val,
           NEW q \in Queries, NEW l \in 0..(NumLayers - 1)
    PROVE  /\ Store(old, SiblingRow(r), val)[q * (4 * NumLayers) + (r - 1) * NumLayers + l] = val[<<q, l>>]
           /\ \A i \in 1..(r - 1) :
                 Store(old, SiblingRow(r), val)[q * (4 * NumLayers) + (i - 1) * NumLayers + l]
                    = old[q * (4 * NumLayers) + (i - 1) * NumLayers + l]
<1>1. PICK n, y \in Nat : n = NumQueries /\ y = NumLayers
  BY FriTypes
<1>2. PICK w, b \in Nat : w = 4 * y /\ b = (r - 1) * y /\ b + y <= w
  <2>1. PICK p \in Nat : p = r - 1 /\ p \in {0, 1, 2, 3}
    OBVIOUS
  <2>2. p * y \in Nat /\ p * y + y <= 4 * y /\ 4 * y \in Nat
    BY <2>1
  <2> QED
    BY <2>1, <2>2
<1>3. RowFits(old, n, w, b, y)
  BY <1>1, <1>2 DEF RowFits, SiblingMemory
<1>4. q \in 0..(n - 1) /\ l \in 0..(y - 1)
  BY <1>1 DEF Queries
<1>5. Store(old, Rows(n, w, b, y), val)[q * w + b + l] = val[<<q, l>>]
  BY <1>3, <1>4, RowWritten
<1>6. ASSUME NEW i \in 1..(r - 1)
      PROVE  Store(old, Rows(n, w, b, y), val)[q * w + (i - 1) * y + l] = old[q * w + (i - 1) * y + l]
  <2>1. PICK p, k \in Nat : p = r - 1 /\ k = i - 1 /\ p \in {0, 1, 2, 3} /\ k \in {0, 1, 2} /\ k + 1 <= p
    BY <1>6
  <2>2. PICK e \in Nat : e = k * y + l /\ e < b /\ e \in 0..(w - 1)
    <3>1. l \in Nat /\ l < y
      BY <1>4
    <3>2. k * y + l \in Nat /\ k * y + l < p * y
      BY <2>1, <3>1
    <3>3. PICK c \in Nat : c = p * y /\ c = b
      BY <1>2, <2>1
    <3> QED
      BY <1>2, <3>2, <3>3
  <2>6. PICK a : a = q * w + e
    OBVIOUS
  <2>5. OutsideRow(old, n, w, b, y, a, q, e)
    BY <1>3, <1>4, <2>2, <2>6 DEF OutsideRow
  <2>3. Store(old, Rows(n, w, b, y), val)[a] = old[a]
    BY <2>5, RowKept
  <2>4. q * w + (i - 1) * y + l = q * w + e
    <3>1. PICK t, f \in Nat : t = q * w /\ f = k * y
      BY <1>2, <1>4, <2>1
    <3>2. l \in Nat
      BY <1>4
    <3> QED
      BY <2>1, <2>2, <3>1, <3>2
  <2> QED
    BY <2>3, <2>4, <2>6
<1> QED
  BY <1>1, <1>2, <1>5, <1>6 DEF SiblingRow

(* The steps.                                                               *)
LEMMA IndexReduced ==
    ASSUME QueryTypes, NEW x, x = [q \in Queries |-> xIndexes[q] % Two[LdeBits]]
    PROVE  InDomain(x) /\ x \in [Queries -> Nat] /\ \A q \in Queries : x[q] % Two[LdeBits] = x[q]
<1>1. PICK t \in Nat \ {0} : t = Two[LdeBits]
  BY FriTypes
<1>2. ASSUME NEW q \in Queries
      PROVE  xIndexes[q] % t \in 0..(t - 1) /\ xIndexes[q] % t \in Nat /\ (xIndexes[q] % t) % t = xIndexes[q] % t
  <2>1. PICK z \in Nat : z = xIndexes[q]
    BY DEF QueryTypes
  <2>2. PICK k, m \in Nat : m = z % t /\ m < t
    BY Division
  <2>3. m % t = m
    <3>1. Split(m, t, 0, m)
      BY <2>2 DEF Split
    <3> QED
      BY <3>1, Divides
  <2> QED
    BY <2>1, <2>2, <2>3
<1> QED
  BY <1>1, <1>2 DEF InDomain

InitialLeaves(s, x) ==
    [i \in Queries \X Index(s) |-> ReducedLeaf(s, x, ScratchOf(s, x), i[1], i[2])]

InitialNodes(s, x) ==
    [i \in Queries \X (0..(NumLayers - 1)) |-> Node(s, 0, SiblingAt(x[i[1]], NumLayers, i[2]))]

LeafAddr(s) == [i \in Queries \X Index(s) |-> i[1] * Count[s] + i[2]]

LeavesAfter(s, x) ==
    [initLeaves EXCEPT ![s] = Store(initLeaves[s], LeafAddr(s), InitialLeaves(s, x))]

SiblingsAfter(r, x) == Store(initSiblings, SiblingRow(r), InitialNodes(SegmentOrder[r], x))

LEMMA InitialProofParts ==
    ASSUME InitialProof, round \in 1..4, NumLayers \in Nat
    PROVE  \E s, x :
              /\ s = SegmentOrder[round] /\ x = [q \in Queries |-> xIndexes[q] % Two[LdeBits]]
              /\ xIndexes' = x /\ scratch' = ScratchOf(s, x)
              /\ initLeaves' = LeavesAfter(s, x) /\ initSiblings' = SiblingsAfter(round, x)
<1>1. PICK s, x : s = SegmentOrder[round] /\ x = [q \in Queries |-> xIndexes[q] % Two[LdeBits]]
  OBVIOUS
<1>3. PICK as : as = [i \in Queries \X (0..(NumLayers - 1)) |-> (i[1] * 4 + round - 1) * NumLayers + i[2]]
  OBVIOUS
<1>4. PICK mem : mem = ScratchOf(s, x) /\ scratch' = mem /\ xIndexes' = x
  BY <1>1 DEF InitialProof, ScratchOf, ScratchAddr, Rest
<1>5. initLeaves' = LeavesAfter(s, x)
  BY <1>1 DEF InitialProof, LeavesAfter, LeafAddr, InitialLeaves, ReducedLeaf, ScratchOf, ScratchAddr, Rest
<1>6. initSiblings' = Store(initSiblings, as, InitialNodes(s, x))
  BY <1>1, <1>3 DEF InitialProof, InitialNodes
<1>7. as = SiblingRow(round)
  BY <1>3, SiblingRowOf
<1>8. initSiblings' = SiblingsAfter(round, x)
  BY <1>1, <1>6, <1>7 DEF SiblingsAfter
<1> QED
  BY <1>1, <1>4, <1>5, <1>8

(* The indices the verifier derives.                                        *)
Indexed(x) == InDomain(x) /\ \A q \in Queries : x[q] = XIndex(q)

LEMMA LeavesShape ==
    ASSUME Memories, NEW s \in Segments, NEW x
    PROVE  /\ DOMAIN LeavesAfter(s, x) = Segments
           /\ \A t \in Segments : DOMAIN LeavesAfter(s, x)[t] = 0..(NumQueries * Count[t] - 1)
<1>1. DOMAIN initLeaves = Segments
  BY DEF Memories
<1>2. PICK new : new = Store(initLeaves[s], LeafAddr(s), InitialLeaves(s, x))
  OBVIOUS
<1>3. DOMAIN new = 0..(NumQueries * Count[s] - 1)
  BY <1>2, StoreDomain DEF Memories
<1>6. PICK I2 : I2 = LeavesAfter(s, x)
  OBVIOUS
<1>4. DOMAIN I2 = Segments /\ I2[s] = new /\ \A t \in Segments : t # s => I2[t] = initLeaves[t]
  BY <1>1, <1>2, <1>6 DEF LeavesAfter
<1>5. ASSUME NEW t \in Segments PROVE DOMAIN I2[t] = 0..(NumQueries * Count[t] - 1)
  <2>1. CASE t = s
    BY <1>3, <1>4, <2>1
  <2>2. CASE t # s
    BY <1>4, <2>2 DEF Memories
  <2> QED
    BY <2>1, <2>2
<1> QED
  BY <1>4, <1>5, <1>6

(* The leaves and siblings of round r.                                      *)
LEMMA LeavesAdded ==
    ASSUME LdesFit(numLdes), Memories, NEW r \in 1..4, NEW s, s = SegmentOrder[r],
           Ready(proves, numLdes, fp, lde, tree, s, <<0, 0>>), NEW x, Indexed(x), LeavesRight(initLeaves, r - 1)
    PROVE  LeavesRight(LeavesAfter(s, x), r)
<1>1. s \in Segments /\ DOMAIN initLeaves = Segments /\ DOMAIN scratch = 0..(ScratchLen - 1)
  BY SegmentOrderOf DEF Memories
<1>2. PICK old : old = initLeaves[s]
  OBVIOUS
<1>3. LeafMemory(old, s, LeafAddr(s))
  BY <1>1, <1>2 DEF Memories, LeafMemory, LeafAddr
<1>4. PICK new : new = Store(old, LeafAddr(s), InitialLeaves(s, x))
  OBVIOUS
<1>5. PICK I2 : I2 = LeavesAfter(s, x)
  OBVIOUS
<1>6. DOMAIN I2 = Segments /\ I2[s] = new /\ \A t \in Segments : t # s => I2[t] = initLeaves[t]
  BY <1>1, <1>2, <1>4, <1>5 DEF LeavesAfter
<1>8. ASSUME NEW q \in Queries, NEW j \in Index(s), j < numLdes[s] \/ ScratchFits
      PROVE  new[q * Count[s] + j] = LeafOf(proves, s, j, XIndex(q), OpenSum(s, j))
  <2>1. PICK val : val = InitialLeaves(s, x)
    OBVIOUS
  <2>5. PICK a : a = q * Count[s] + j
    OBVIOUS
  <2>7. Store(old, LeafAddr(s), val)[a] = val[<<q, j>>]
    BY <1>3, <2>5, LeavesStored
  <2>2. new[q * Count[s] + j] = val[<<q, j>>]
    BY <1>4, <2>1, <2>5, <2>7
  <2>3. val[<<q, j>>] = ReducedLeaf(s, x, ScratchOf(s, x), q, j)
    BY <2>1 DEF InitialLeaves
  <2>4. ReducedLeaf(s, x, ScratchOf(s, x), q, j) = LeafOf(proves, s, j, x[q], OpenSum(s, j))
    BY <1>1, <1>8, LeafRead DEF Indexed
  <2> QED
    BY <2>2, <2>3, <2>4 DEF Indexed
<1>9. ASSUME NEW k \in 1..r, NEW q \in Queries, NEW j \in Index(SegmentOrder[k]),
             j < numLdes[SegmentOrder[k]] \/ ScratchFits
      PROVE  I2[SegmentOrder[k]][q * Count[SegmentOrder[k]] + j]
                 = LeafOf(proves, SegmentOrder[k], j, XIndex(q), OpenSum(SegmentOrder[k], j))
  <2>1. CASE k = r
    <3>1. SegmentOrder[k] = s
      BY <2>1
    <3> QED
      BY <1>6, <1>8, <1>9, <3>1
  <2>2. CASE k # r
    <3>1. k \in 1..(r - 1) /\ k \in 1..4
      BY <2>2
    <3>2. SegmentOrder[k] \in Segments /\ SegmentOrder[k] # s
      BY <2>2, <3>1, SegmentOrderOf
    <3>3. I2[SegmentOrder[k]] = initLeaves[SegmentOrder[k]]
      BY <1>6, <3>2
    <3>4. initLeaves[SegmentOrder[k]][q * Count[SegmentOrder[k]] + j]
              = LeafOf(proves, SegmentOrder[k], j, XIndex(q), OpenSum(SegmentOrder[k], j))
      BY <1>9, <3>1 DEF LeavesRight
    <3> QED
      BY <3>3, <3>4
  <2> QED
    BY <2>1, <2>2
<1> QED
  BY <1>5, <1>9 DEF LeavesRight

LEMMA SiblingsAdded ==
    ASSUME Memories, NumLayers \in Nat, NumLayers <= LdeBits, NEW r \in 1..4, NEW x, Indexed(x),
           SiblingsRight(initSiblings, r - 1)
    PROVE  SiblingsRight(SiblingsAfter(r, x), r)
<1>1. SiblingMemory(initSiblings)
  BY DEF Memories, SiblingMemory
<1>2. PICK s : s = SegmentOrder[r]
  OBVIOUS
<1>3. PICK old, val, I2 : old = initSiblings /\ val = InitialNodes(s, x) /\ I2 = SiblingsAfter(r, x)
  OBVIOUS
<1>4. ASSUME NEW k \in 1..r, NEW q \in Queries, NEW l \in 0..(NumLayers - 1)
      PROVE  I2[q * (4 * NumLayers) + (k - 1) * NumLayers + l] = Beside(q, k, l)
  <2>1. /\ I2[q * (4 * NumLayers) + (r - 1) * NumLayers + l] = val[<<q, l>>]
        /\ \A i \in 1..(r - 1) : I2[q * (4 * NumLayers) + (i - 1) * NumLayers + l]
                                    = old[q * (4 * NumLayers) + (i - 1) * NumLayers + l]
    BY <1>1, <1>2, <1>3, SiblingsStored DEF SiblingsAfter
  <2>2. CASE k = r
    <3>1. val[<<q, l>>] = Node(s, 0, SiblingAt(x[q], NumLayers, l))
      BY <1>3 DEF InitialNodes
    <3>2. x[q] = XIndex(q) /\ x[q] \in Nat
      BY FriTypes DEF Indexed, InDomain
    <3>3. SiblingAt(x[q], NumLayers, l) = NodeAt(NumLayers + CapHeight, l, Flip(x[q] \div Two[l]))
      BY <3>2, FriTypes, SiblingBeside
    <3> QED
      BY <1>2, <2>1, <2>2, <3>1, <3>2, <3>3 DEF Beside
  <2>3. CASE k # r
    <3>1. k \in 1..(r - 1)
      BY <2>3
    <3> QED
      BY <1>3, <2>1, <3>1 DEF SiblingsRight
  <2> QED
    BY <2>2, <2>3
<1> QED
  BY <1>3, <1>4 DEF SiblingsRight

LEMMA OpenReady ==
    ASSUME BufferInv, phase = "open", NEW s \in Segments
    PROVE  LdesFit(numLdes) /\ Ready(proves, numLdes, fp, lde, tree, s, <<0, 0>>)
<1>1. s \in Committed
  BY DEF Committed
<1> QED
  BY <1>1, CommittedReady DEF BufferInv

(* Nothing of what the results are compared with changes.                   *)
LEMMA RightKept ==
    ASSUME UNCHANGED <<numLdes, fp, lde, proves, sampled>>, NEW I, NEW n, LeavesRight(I, n),
           NEW J, SiblingsRight(J, n)
    PROVE  LeavesRight(I, n)' /\ SiblingsRight(J, n)'
<1>1. \A q : XIndex(q)' = XIndex(q)
  BY DEF XIndex
<1>2. ScratchFits' = ScratchFits
  BY DEF ScratchFits
<1>3. \A s, j : OpenSum(s, j)' = OpenSum(s, j)
  BY DEF OpenSum
<1>4. LeavesRight(I, n)'
  BY <1>1, <1>2, <1>3 DEF LeavesRight
<1>5. SiblingsRight(J, n)'
  BY <1>1 DEF SiblingsRight, Beside
<1> QED
  BY <1>4, <1>5

LEMMA InitialStep ==
    ASSUME BufferInv, QueryInv, phase = "open", InitialProof, UNCHANGED vars
    PROVE  QueryInv'
<1>1. /\ friPhase = "initial" /\ round \in 1..4 /\ Memories /\ QueryTypes /\ arities \in Reductions
      /\ \A q \in Queries : xIndexes[q] % Two[LdeBits] = XIndex(q)
      /\ LeavesRight(initLeaves, round - 1) /\ SiblingsRight(initSiblings, round - 1)
  BY DEF QueryInv, QueryTypes, InitialInv, InitialProof
<1>2. NumLayers \in Nat /\ NumLayers <= LdeBits
  BY <1>1, LayersType
<1>3. PICK s, x :
              /\ s = SegmentOrder[round] /\ x = [q \in Queries |-> xIndexes[q] % Two[LdeBits]]
              /\ xIndexes' = x /\ scratch' = ScratchOf(s, x)
              /\ initLeaves' = LeavesAfter(s, x) /\ initSiblings' = SiblingsAfter(round, x)
  BY <1>1, <1>2, InitialProofParts
<1>4. Indexed(x) /\ x \in [Queries -> Nat] /\ \A q \in Queries : x[q] % Two[LdeBits] = x[q]
  BY <1>1, <1>3, IndexReduced DEF Indexed
<1>5. s \in Segments
  BY <1>1, <1>3, SegmentOrderOf
<1>6. /\ UNCHANGED <<arities, sampled, friPhase>> /\ round' = round + 1 /\ phase' = phase
      /\ UNCHANGED <<numLdes, fp, lde, proves, sampled>>
  BY DEF InitialProof, vars
<1>7. Memories'
  <2>1. PICK I2 : I2 = initLeaves' /\ I2 = LeavesAfter(s, x)
    BY <1>3
  <2>4. DOMAIN I2 = Segments /\ \A t \in Segments : DOMAIN I2[t] = 0..(NumQueries * Count[t] - 1)
    BY <1>1, <1>5, <2>1, LeavesShape
  <2>2. DOMAIN scratch' = DOMAIN scratch
    BY <1>3, StoreDomain DEF ScratchOf
  <2>3. DOMAIN initSiblings' = DOMAIN initSiblings
    BY <1>3, StoreDomain DEF SiblingsAfter
  <2> QED
    BY <1>1, <2>1, <2>2, <2>3, <2>4 DEF Memories
<1>8. QueryTypes'
  BY <1>1, <1>3, <1>4, <1>6, <1>7 DEF QueryTypes
<1>9. ASSUME NEW q \in Queries PROVE xIndexes'[q] % Two[LdeBits] = XIndex(q)'
  BY <1>3, <1>4, <1>6 DEF XIndex, Indexed
<1>10. LeavesRight(initLeaves, round - 1)' /\ SiblingsRight(initSiblings, round - 1)'
  <2>1. LdesFit(numLdes) /\ Ready(proves, numLdes, fp, lde, tree, s, <<0, 0>>)
    BY <1>5, OpenReady
  <2>2. PICK r \in 1..4 : r = round /\ r = round' - 1
    BY <1>1, <1>6
  <2>3. LeavesRight(LeavesAfter(s, x), r)
    BY <1>1, <1>3, <1>4, <2>1, <2>2, LeavesAdded
  <2>4. SiblingsRight(SiblingsAfter(r, x), r)
    BY <1>1, <1>2, <1>4, <2>2, SiblingsAdded
  <2>5. PICK I, J : I = LeavesAfter(s, x) /\ J = SiblingsAfter(r, x)
    OBVIOUS
  <2>6. LeavesRight(I, r)' /\ SiblingsRight(J, r)'
    BY <1>6, <2>3, <2>4, <2>5, RightKept
  <2>7. I = initLeaves' /\ J = initSiblings'
    BY <1>3, <2>2, <2>5
  <2> QED
    BY <2>2, <2>6, <2>7 DEF LeavesRight, SiblingsRight
<1>11. InitialInv'
  BY <1>1, <1>6, <1>9, <1>10 DEF InitialInv
<1> QED
  BY <1>1, <1>6, <1>8, <1>11 DEF QueryInv, QueriedInv

LEMMA SampleStep ==
    ASSUME QueryInv, phase = "open", SampleQueries, UNCHANGED vars
    PROVE  QueryInv'
<1>1. PICK x : x = sampled' /\ x = xIndexes' /\ x \in QueryChallenges
  BY DEF SampleQueries
<1>2. x \in [Queries -> Nat]
  BY <1>1, FriAssumption
<1>3. /\ friPhase' = "initial" /\ round' = 1 /\ phase' = phase /\ arities' = arities
      /\ UNCHANGED <<scratch, initLeaves, initSiblings>>
  BY DEF SampleQueries, vars
<1>4. Memories'
  BY <1>3 DEF QueryInv, QueryTypes, Memories
<1>5. QueryTypes'
  BY <1>1, <1>2, <1>3, <1>4 DEF QueryInv, QueryTypes
<1>6. LeavesRight(initLeaves, round - 1)' /\ SiblingsRight(initSiblings, round - 1)'
  <2>1. round' - 1 = 0 /\ 1..0 = {}
    BY <1>3
  <2> QED
    BY <2>1 DEF LeavesRight, SiblingsRight
<1>7. InitialInv'
  BY <1>1, <1>3, <1>6 DEF InitialInv, XIndex
<1> QED
  BY <1>3, <1>5, <1>7 DEF QueryInv, QueriedInv

(* The steps that leave the results of the initial queries alone.           *)
LEMMA QuietStep ==
    ASSUME QueryInv, phase = "open", UNCHANGED vars,
           FinalPoly \/ CommitRound \/ InitialDone \/ QueryStep \/ QueriesDone
    PROVE  QueryInv'
<1>1. /\ UNCHANGED <<arities, sampled, scratch, initLeaves, initSiblings>> /\ phase' = phase
      /\ UNCHANGED <<numLdes, fp, lde, proves, sampled>>
  BY DEF FinalPoly, CommitRound, InitialDone, QueryStep, QueriesDone, queryVars, vars
<1>2. QueryTypes /\ Memories /\ Memories'
  BY <1>1 DEF QueryInv, QueryTypes, Memories
<1>3. xIndexes' \in [Queries -> Nat]
  <2>1. xIndexes \in [Queries -> Nat] /\ arities \in Reductions
    BY <1>2 DEF QueryTypes
  <2>2. CASE FinalPoly \/ CommitRound \/ InitialDone \/ QueriesDone
    BY <2>1, <2>2 DEF FinalPoly, CommitRound, InitialDone, QueriesDone, queryVars
  <2>3. CASE QueryStep
    <3>1. PICK n \in Nat \ {0} : n = Len(arities) /\ arities \in [1..n -> Nat \ {0}]
      BY <2>1, LayersType
    <3>2. round \in 1..n
      <4>1. round \in Nat /\ round # 0
        BY <2>3 DEF QueryInv, QueryTypes
      <4> QED
        BY <2>3, <3>1, <4>1 DEF QueryStep, NumRounds
    <3>3. PICK t \in Nat \ {0} : t = Two[arities[round]]
      BY <3>1, <3>2, TwoPositive
    <3>4. xIndexes' = [q \in Queries |-> xIndexes[q] \div t]
      BY <2>3, <3>3 DEF QueryStep
    <3>5. ASSUME NEW q \in Queries PROVE xIndexes[q] \div t \in Nat
      <4>1. PICK z \in Nat : z = xIndexes[q]
        BY <2>1
      <4> QED
        BY <4>1
    <3> QED
      BY <3>4, <3>5
  <2> QED
    BY <2>2, <2>3
<1>4. friPhase' \in {"commit", "steps", "assemble"} /\ round' \in Nat \ {0}
  <2>1. friPhase' \in {"commit", "steps", "assemble"}
    BY DEF FinalPoly, CommitRound, InitialDone, QueryStep, QueriesDone
  <2>2. round' = 1 \/ round' = round \/ round' = round + 1
    BY DEF FinalPoly, CommitRound, InitialDone, QueryStep, QueriesDone
  <2>3. PICK n \in Nat \ {0} : n = round
    BY <1>2 DEF QueryTypes
  <2> QED
    BY <2>1, <2>2, <2>3
<1>5. QueryTypes'
  BY <1>1, <1>2, <1>3, <1>4 DEF QueryTypes
<1>6. ASSUME friPhase' \in {"steps", "assemble"}
      PROVE  LeavesRight(initLeaves, 4) /\ SiblingsRight(initSiblings, 4)
  <2>1. CASE InitialDone
    <3>1. round - 1 = 4 /\ friPhase = "initial"
      BY <2>1 DEF QueryInv, InitialInv, InitialDone
    <3> QED
      BY <1>6, <3>1 DEF QueryInv, InitialInv
  <2>2. CASE FinalPoly \/ CommitRound \/ QueryStep \/ QueriesDone
    <3>1. friPhase \in {"steps", "assemble"}
      BY <1>6, <2>2 DEF FinalPoly, CommitRound, QueryStep, QueriesDone
    <3> QED
      BY <1>6, <3>1 DEF QueryInv, QueriedInv
  <2> QED
    BY <2>1, <2>2
<1>7. QueriedInv'
  <2> SUFFICES ASSUME friPhase' \in {"steps", "assemble"}
               PROVE  LeavesRight(initLeaves, 4)' /\ SiblingsRight(initSiblings, 4)'
    BY <1>1 DEF QueriedInv
  <2>1. PICK I, J : I = initLeaves /\ J = initSiblings
    OBVIOUS
  <2>2. LeavesRight(I, 4)' /\ SiblingsRight(J, 4)'
    BY <1>1, <1>6, <2>1, RightKept
  <2>3. I = initLeaves' /\ J = initSiblings'
    BY <1>1, <2>1
  <2> QED
    BY <2>2, <2>3 DEF LeavesRight, SiblingsRight
<1> QED
  BY <1>4, <1>5, <1>7 DEF QueryInv, InitialInv

LEMMA BufferPhases == ASSUME BufferStep PROVE phase # "open"
BY DEF BufferStep, Upload, Intt, Extend, TreePart, TreeDone, Build, Scatter, Zp, QuotientPart, QuotientDone

LEMMA QueryKept ==
    ASSUME BufferInv, QueryInv, [ProofNext]_proofVars
    PROVE  QueryInv'
<1>1. CASE UNCHANGED proofVars
  <2>1. UNCHANGED <<arities, sampled, xIndexes, scratch, initLeaves, initSiblings, friPhase, round, phase,
                    proves, numLdes, fp, lde>>
    BY <1>1 DEF proofVars, vars, friVars, queryVars
  <2>2. QueryTypes'
    BY <2>1 DEF QueryInv, QueryTypes, Memories
  <2>3. ASSUME NEW q PROVE XIndex(q)' = XIndex(q)
    BY <2>1 DEF XIndex
  <2>4. ASSUME NEW n, LeavesRight(initLeaves, n), SiblingsRight(initSiblings, n)
        PROVE  LeavesRight(initLeaves, n)' /\ SiblingsRight(initSiblings, n)'
    <3>1. PICK I, J : I = initLeaves /\ J = initSiblings
      OBVIOUS
    <3>2. LeavesRight(I, n)' /\ SiblingsRight(J, n)'
      BY <2>1, <2>4, <3>1, RightKept
    <3>3. I = initLeaves' /\ J = initSiblings'
      BY <2>1, <3>1
    <3> QED
      BY <3>2, <3>3 DEF LeavesRight, SiblingsRight
  <2>5. InitialInv'
    <3> SUFFICES ASSUME friPhase = "initial" PROVE InitialInv'
      BY <2>1 DEF InitialInv
    <3>1. PICK n : n = round - 1 /\ n = round' - 1
      BY <2>1
    <3>2. LeavesRight(initLeaves, round - 1)' /\ SiblingsRight(initSiblings, round - 1)'
      <4>1. LeavesRight(initLeaves, n)' /\ SiblingsRight(initSiblings, n)'
        BY <2>4, <3>1 DEF QueryInv, InitialInv
      <4> QED
        BY <3>1, <4>1 DEF LeavesRight, SiblingsRight
    <3> QED
      BY <2>1, <2>3, <3>2 DEF QueryInv, InitialInv
  <2>6. QueriedInv'
    BY <2>1, <2>4 DEF QueryInv, QueriedInv
  <2> QED
    BY <2>2, <2>5, <2>6 DEF QueryInv
<1>2. CASE BufferStep /\ UNCHANGED friVars
  <2>1. friPhase = "final_poly"
    BY <1>2, BufferPhases DEF QueryInv, QueryTypes
  <2> QED
    BY <1>2, <2>1 DEF friVars, queryVars, QueryInv, QueryTypes, Memories, InitialInv, QueriedInv
<1>3. CASE phase = "open" /\ FriStep /\ UNCHANGED vars
  BY <1>3, SampleStep, InitialStep, QuietStep DEF FriStep
<1>4. CASE ReturnProof
  BY <1>4 DEF ReturnProof, queryVars, QueryInv, QueryTypes, Memories, InitialInv, QueriedInv
<1> QED
  BY <1>1, <1>2, <1>3, <1>4 DEF ProofNext

(* What commit_* hashed and what is opened differ at most in the tail.      *)
LEMMA LeafUpToTail ==
    ASSUME NEW n, NEW s \in Segments, LdesFit(numLdes), Ready(n, numLdes, fp, lde, tree, s, <<0, 0>>),
           NEW j \in Index(s), NEW x \in 0..(Two[LdeBits] - 1), NEW opened, NEW hashed, NEW zero,
           opened = LeafOf(n, s, j, x, OpenSum(s, j))[1],
           hashed = tree[s][x \div Two[DegreeBits]][j],
           zero = (Partial(s) \/ j >= numLdes[s] \/ FoundZero("ldes", Nth(n, s)))
    PROVE  hashed.rep = "values" /\ UpToTail(opened, hashed, zero)
<1>1. PICK c, y, z : /\ c = <<1, Rev(x \div Two[DegreeBits])>> /\ y = OpenSum(s, j)
                     /\ z = LeafSum(fp, lde, numLdes, s, j)
  OBVIOUS
<1>2. hashed = LeafOf(n, s, j, x, z)[1]
  BY <1>1, TreeLeaf DEF Ready
<1>3. hashed = Form(s, j, Nth(n, s), "values", "bitrev", c, z)
  BY <1>1, <1>2 DEF LeafOf
<1>4. opened = Form(s, j, Nth(n, s), "values", "bitrev", c, y)
  BY <1>1 DEF LeafOf
<1>5. j \in Nat /\ numLdes[s] \in Nat /\ (j < numLdes[s] <=> j \in 0..(numLdes[s] - 1))
  BY IndexLdes
<1>6. z \subseteq y /\ y \subseteq z \union (IF zero THEN {} ELSE {"tail"})
  <2>1. CASE Partial(s) \/ ~(j < numLdes[s])
    <3>1. y = z
      BY <1>1, <2>1 DEF OpenSum, LeafSum
    <3> QED
      BY <3>1
  <2>2. CASE ~Partial(s) /\ j < numLdes[s]
    <3>1. zero = FoundZero("ldes", Nth(n, s))
      BY <1>5, <2>2 DEF FoundZero
    <3>2. WithTail(z, y, Nth(n, s))
      BY <1>1, <1>5, <2>2 DEF Ready, Extended, Extension, OpenSum, LeafSum
    <3> QED
      BY <3>1, <3>2 DEF WithTail
  <2> QED
    BY <2>1, <2>2
<1>7. hashed.rep = "values"
  BY <1>3 DEF Form
<1> QED
  BY <1>3, <1>4, <1>6, <1>7, FormUpToTail

LEMMA InitialVerified == ASSUME BufferInv, QueryInv PROVE InitialProofsVerify
<1> SUFFICES ASSUME friPhase = "assemble", NEW q \in Queries, NEW r \in 0..3,
                    NEW s, s = SegmentOrder[r + 1], NEW x, x = XIndex(q)
             PROVE  /\ PathOk(InitialSiblings(q, r), s, 0, x, NumLayers)
                    /\ \A j \in Index(s) :
                         j < numLdes[s] \/ ScratchFits =>
                           /\ tree[s][x \div Two[DegreeBits]][j].rep = "values"
                           /\ UpToTail(InitialEvals(q, s)[j][1], tree[s][x \div Two[DegreeBits]][j],
                                       NoTail(s, j))
                           /\ InitialEvals(q, s)[j][2] = x % Two[DegreeBits]
  BY DEF InitialProofsVerify
<1>1. LeavesRight(initLeaves, 4) /\ SiblingsRight(initSiblings, 4) /\ phase = "open" /\ QueryTypes
  BY DEF QueryInv, QueriedInv, QueryTypes
<1>2. r + 1 \in 1..4 /\ (r + 1) - 1 = r /\ s \in Segments
  <2>1. r + 1 \in 1..4 /\ (r + 1) - 1 = r
    OBVIOUS
  <2> QED
    BY <2>1, SegmentOrderOf
<1>3. /\ LdesFit(numLdes) /\ Ready(proves, numLdes, fp, lde, tree, s, <<0, 0>>)
      /\ ProveOf(s) = Nth(proves, s)
  BY <1>1, <1>2, OpenReady DEF ProveOf, Nth
<1>4. x \in 0..(Two[LdeBits] - 1)
  <2>1. PICK t \in Nat \ {0}, z \in Nat : t = Two[LdeBits] /\ z = sampled[q] /\ x = z % t
    BY <1>1, FriTypes DEF QueryTypes, XIndex
  <2>2. PICK k, m \in Nat : m = z % t /\ m < t
    BY Division
  <2> QED
    BY <2>1, <2>2
<1>5. ASSUME NEW j \in Index(s), j < numLdes[s] \/ ScratchFits
      PROVE  /\ tree[s][x \div Two[DegreeBits]][j].rep = "values"
             /\ UpToTail(InitialEvals(q, s)[j][1], tree[s][x \div Two[DegreeBits]][j],
                         NoTail(s, j))
             /\ InitialEvals(q, s)[j][2] = x % Two[DegreeBits]
  <2>1. PICK opened, hashed, y : /\ opened = InitialEvals(q, s)[j] /\ y = OpenSum(s, j)
                                 /\ hashed = tree[s][x \div Two[DegreeBits]][j]
    OBVIOUS
  <2>2. opened = LeafOf(proves, s, j, x, y)
    BY <1>1, <1>2, <1>5, <2>1 DEF LeavesRight, InitialEvals
  <2>3. opened[2] = x % Two[DegreeBits]
    BY <2>2 DEF LeafOf
  <2>4. PICK o, zero : /\ o = opened[1]
                       /\ zero = NoTail(s, j)
    OBVIOUS
  <2>5. hashed.rep = "values" /\ UpToTail(o, hashed, zero)
    <3>1. zero = (Partial(s) \/ j >= numLdes[s] \/ FoundZero("ldes", Nth(proves, s)))
      BY <1>3, <2>4 DEF NoTail
    <3> QED
      BY <1>2, <1>3, <1>4, <2>1, <2>2, <2>4, <3>1, LeafUpToTail
  <2> QED
    BY <1>3, <2>1, <2>3, <2>4, <2>5
<1>6. PICK y \in Nat : y = NumLayers
  BY <1>1, LayersType DEF QueryTypes
<1>7. ASSUME NEW l \in 0..(NumLayers - 1)
      PROVE  initSiblings[q * 4 * NumLayers + r * NumLayers + l]
                = Node(s, 0, NodeAt(NumLayers + CapHeight, l, Flip(x \div Two[l])))
  <2>1. initSiblings[q * (4 * NumLayers) + ((r + 1) - 1) * NumLayers + l] = Beside(q, r + 1, l)
    BY <1>1, <1>2 DEF SiblingsRight
  <2>2. q * 4 * NumLayers = q * (4 * NumLayers)
    <3>1. q \in Nat
      BY FriTypes DEF Queries
    <3> QED
      BY <1>6, <3>1
  <2> QED
    BY <1>2, <2>1, <2>2 DEF Beside
<1>8. PathOk(InitialSiblings(q, r), s, 0, x, NumLayers)
  BY <1>7 DEF InitialSiblings, PathOk
<1> QED
  BY <1>5, <1>8

(* In every prove, for every layout, degree, number of extensions, list of  *)
(* reductions and choice of queries, and on whatever memory held: the paths *)
(* of every query round lead to the leaves that commit_* hashed, and each   *)
(* leaf is the one hashed there, although all queries share the scratch and *)
(* the result memory.  The tail of an extension shows in the leaf just if   *)
(* the tree was built in place and the leaf is read from ldes; only leaves  *)
(* without an extension depend on the size of the scratch.                  *)
THEOREM InitialProofsPass == ProofSpec => []InitialProofsVerify
<1>1. ProofInit => BufferInv /\ QueryInv
  BY BufferInit, InitQueries
<1>2. BufferInv /\ QueryInv /\ [ProofNext]_proofVars => (BufferInv /\ QueryInv)'
  BY BufferKept, QueryKept
<1>3. BufferInv /\ QueryInv => InitialProofsVerify
  BY InitialVerified
<1> QED
  BY <1>1, <1>2, <1>3, PTL DEF ProofSpec

---------------------------------------------------------------------------
(* The commit phase: what each round commits to and leaves for the next.    *)
LEMMA ListFacts ==
    ASSUME NEW list \in Reductions, NEW n, n = Len(list)
    PROVE  /\ n \in Nat \ {0} /\ list \in [1..n -> Nat \ {0}] /\ BitsFolded(list, 0) = 0
           /\ \A k \in 1..n : BitsFolded(list, k) = BitsFolded(list, k - 1) + list[k]
           /\ \A k \in 0..n : BitsFolded(list, k) \in Nat /\ BitsFolded(list, k) <= NumLayers
           /\ \A k \in 1..n : TileBits <= list[k] + 1
           /\ \A k \in 1..(n - 1) : TileBits <= DegreeBits - BitsFolded(list, k)
<1>1. n \in Nat \ {0} /\ list \in [1..n -> Nat \ {0}] /\ BitsFolded(list, n) <= NumLayers /\ NumLayers \in Nat
  BY LayersType
<1>2. list \in [1..n -> Nat] /\ n \in 0..n /\ \A k \in 0..n : k <= n
  BY <1>1
<1>3. /\ BitsFolded(list, 0) = 0 /\ \A k \in 0..n : BitsFolded(list, k) \in Nat
      /\ \A k \in 1..n : BitsFolded(list, k) = BitsFolded(list, k - 1) + list[k]
  <2>1. PICK f : f = Sums(list)
    OBVIOUS
  <2>2. f \in [0..n -> Nat] /\ f[0] = 0 /\ \A k \in 1..n : f[k] = f[k - 1] + list[k]
    BY <1>1, <1>2, <2>1, SumsUnfold
  <2>3. \A k : BitsFolded(list, k) = f[k]
    BY <2>1 DEF BitsFolded
  <2> QED
    BY <2>2, <2>3
<1>4. ASSUME NEW k \in 0..n PROVE BitsFolded(list, k) <= NumLayers
  <2>1. BitsFolded(list, k) <= BitsFolded(list, n)
    BY <1>1, <1>2, SumsGrow DEF BitsFolded
  <2>2. PICK a, b, y \in Nat : a = BitsFolded(list, k) /\ b = BitsFolded(list, n) /\ y = NumLayers
    BY <1>1, <1>2, <1>3
  <2> QED
    BY <1>1, <2>1, <2>2
<1>5. DOMAIN list = 1..n
  BY <1>1
<1>6. /\ \A k \in 1..n : TileBits <= list[k] + 1
      /\ \A k \in 1..(n - 1) : TileBits <= DegreeBits - BitsFolded(list, k)
  BY <1>5, FriAssumption
<1> QED
  BY <1>1, <1>3, <1>4, <1>6

(* The batched polynomial after k reductions, a layer of round k whatever   *)
(* its memory held, and the cap of the tree of round k.                     *)
Folds(list, k) == [i \in 1..k |-> <<list[i], i>>]
PolyOf(B, list, k) == ExtPoly(B, Folds(list, k))
LayerOf(rep, B, list, k) ==
    Layer(rep, PolyOf(B, list, k - 1), Two[BitsFolded(list, k - 1)], LdeBits - BitsFolded(list, k - 1))
IsLayer(L, B, list, k) == \E rep \in {"lde", "overlaid"} : L = LayerOf(rep, B, list, k)
CapOf(dg, list, k) == [layer |-> dg[k], first |-> CapOffset(LdeBits - BitsFolded(list, k))]

LEMMA FoldsReplaced ==
    ASSUME NEW B, NEW f, NEW g
    PROVE  [[batches |-> B, folds |-> f] EXCEPT !.folds = g] = [batches |-> B, folds |-> g]
OBVIOUS

LEMMA FoldPoly ==
    ASSUME NEW B, NEW list, NEW k \in Nat \ {0}
    PROVE  Fold(PolyOf(B, list, k - 1), list[k], k) = PolyOf(B, list, k)
<1>1. PICK S : S = {<<list[i], i>> : i \in 1..k}
  OBVIOUS
<1>2. PICK f : f = Folds(list, k - 1)
  OBVIOUS
<1>3. k - 1 \in Nat /\ 1..(k - 1) \subseteq 1..k
  OBVIOUS
<1>4. f \in [1..(k - 1) -> S] /\ <<list[k], k>> \in S
  BY <1>1, <1>2, <1>3 DEF Folds
<1>5. f \in Seq(S) /\ Len(f) = k - 1
  BY <1>3, <1>4, LenProperties
<1>6. PICK g : g = Append(f, <<list[k], k>>)
  OBVIOUS
<1>7. /\ g \in Seq(S) /\ Len(g) = k /\ g[k] = <<list[k], k>>
      /\ \A i \in 1..(k - 1) : g[i] = f[i]
  <2>1. (k - 1) + 1 = k
    OBVIOUS
  <2> QED
    BY <1>4, <1>5, <1>6, <2>1, AppendProperties
<1>8. g = Folds(list, k)
  <2>1. DOMAIN g = 1..k /\ g = [i \in 1..k |-> g[i]]
    BY <1>7, LenProperties
  <2>2. ASSUME NEW i \in 1..k PROVE g[i] = <<list[i], i>>
    <3>1. CASE i = k
      BY <1>7, <3>1
    <3>2. CASE i # k
      <4>1. i \in 1..(k - 1)
        BY <3>2
      <4> QED
        BY <1>2, <1>7, <4>1 DEF Folds
    <3> QED
      BY <3>1, <3>2
  <2> QED
    BY <2>1, <2>2 DEF Folds
<1>9. Fold(ExtPoly(B, f), list[k], k) = ExtPoly(B, g)
  <2>1. ExtPoly(B, f).folds = f
    BY DEF ExtPoly
  <2>2. [ExtPoly(B, f) EXCEPT !.folds = g] = ExtPoly(B, g)
    BY FoldsReplaced, Zenon DEF ExtPoly
  <2> QED
    BY <1>6, <2>1, <2>2, Zenon DEF Fold
<1> QED
  BY <1>2, <1>8, <1>9, Zenon DEF PolyOf

LEMMA NoFolds == ASSUME NEW B, NEW list PROVE PolyOf(B, list, 0) = ExtPoly(B, <<>>)
<1>1. Folds(list, 0) = <<>>
  BY DEF Folds
<1> QED
  BY <1>1 DEF PolyOf

LEMMA NextLayer ==
    ASSUME NEW list \in Reductions, NEW k \in 1..Len(list)
    PROVE  /\ Two[BitsFolded(list, k - 1)] * Two[list[k]] = Two[BitsFolded(list, k)]
           /\ (LdeBits - BitsFolded(list, k - 1)) - list[k] = LdeBits - BitsFolded(list, k)
           /\ (DegreeBits - BitsFolded(list, k)) + RateBits = LdeBits - BitsFolded(list, k)
<1>1. PICK n \in Nat \ {0} : n = Len(list) /\ list \in [1..n -> Nat \ {0}]
  BY ListFacts
<1>2. k \in 1..n /\ k \in 0..n /\ k - 1 \in 0..n
  BY <1>1
<1>3. PICK a, b, c \in Nat : a = BitsFolded(list, k - 1) /\ b = list[k] /\ c = BitsFolded(list, k) /\ c = a + b
  <2>1. /\ \A i \in 0..n : BitsFolded(list, i) \in Nat
        /\ \A i \in 1..n : BitsFolded(list, i) = BitsFolded(list, i - 1) + list[i]
    BY <1>1, ListFacts
  <2>2. list[k] \in Nat
    BY <1>1, <1>2
  <2> QED
    BY <1>2, <2>1, <2>2
<1>4. LdeBits \in Nat /\ DegreeBits \in Nat /\ RateBits \in Nat /\ LdeBits = DegreeBits + RateBits
  BY FriTypes DEF LdeBits
<1>5. Two[a] * Two[b] = Two[a + b]
  BY TwoSum
<1> QED
  BY <1>3, <1>4, <1>5

(* The buffers of the commit phase after r - 1 of its rounds.               *)
CommittedTo(B, list, n, r, c, lv, dg, fd, sh) ==
    /\ c = PolyOf(B, list, 0)
    /\ DOMAIN lv = 1..n /\ DOMAIN dg = 1..n /\ DOMAIN fd = 1..n
    /\ \A k \in 1..n : k <= r => IsLayer(lv[k], B, list, k)
    /\ \A k \in 1..(r - 1) : dg[k] = lv[k] /\ fd[k] = PolyOf(B, list, k)
    /\ r <= n => sh = Two[BitsFolded(list, r - 1)]

(* One round: the tree of a layer, the fold, and the next layer.            *)
LEMMA LayerExtended ==
    ASSUME NEW B, NEW list \in Reductions, NEW n, n = Len(list), NEW r \in 1..(n - 1), NEW old
    PROVE  IsLayer(CosetFft(PolyOf(B, list, r), Two[BitsFolded(list, r)], DegreeBits - BitsFolded(list, r),
                            old), B, list, r + 1)
<1>1. n \in Nat \ {0} /\ TileBits <= DegreeBits - BitsFolded(list, r)
  BY ListFacts
<1>2. r \in 1..Len(list) /\ (r + 1) - 1 = r
  BY <1>1
<1>3. (DegreeBits - BitsFolded(list, r)) + RateBits = LdeBits - BitsFolded(list, r)
  BY <1>2, NextLayer
<1>4. PICK rep \in {"lde", "overlaid"} : rep = IF old.rep = "zero" THEN "lde" ELSE "overlaid"
  OBVIOUS
<1>5. CosetFft(PolyOf(B, list, r), Two[BitsFolded(list, r)], DegreeBits - BitsFolded(list, r), old)
        = LayerOf(rep, B, list, r + 1)
  BY <1>1, <1>2, <1>3, <1>4 DEF CosetFft, LayerOf
<1> QED
  BY <1>4, <1>5 DEF IsLayer

LEMMA FirstLayer ==
    ASSUME NEW B, NEW list \in Reductions, NEW old
    PROVE  IsLayer(CosetFft(ExtPoly(B, <<>>), 1, DegreeBits, old), B, list, 1)
<1>1. BitsFolded(list, 0) = 0 /\ 1 - 1 = 0
  <2>1. PICK m : m = Len(list)
    OBVIOUS
  <2> QED
    BY <2>1, ListFacts
<1>2. LdeBits - 0 = DegreeBits + RateBits /\ TileBits <= DegreeBits /\ Two[0] = 1
  BY FriTypes, FriAssumption, TwoUnfolds DEF LdeBits
<1>3. PICK rep \in {"lde", "overlaid"} : rep = IF old.rep = "zero" THEN "lde" ELSE "overlaid"
  OBVIOUS
<1>4. CosetFft(ExtPoly(B, <<>>), 1, DegreeBits, old) = LayerOf(rep, B, list, 1)
  BY <1>1, <1>2, <1>3, NoFolds DEF CosetFft, LayerOf
<1> QED
  BY <1>3, <1>4 DEF IsLayer

Commits(list, n, r, c, lv, dg, fd, sh, tr, out, lv2, dg2, fd2, sh2) ==
    /\ tr = (IF TileBits <= list[r] + 1 THEN lv[r] ELSE BlankLayer("junk"))
    /\ out = Fold(IF r = 1 THEN c ELSE fd[r - 1], list[r], r)
    /\ dg2 = [dg EXCEPT ![r] = tr] /\ fd2 = [fd EXCEPT ![r] = out]
    /\ IF r = n THEN sh2 = sh /\ lv2 = lv
       ELSE /\ sh2 = NextShift(sh, list[r])
            /\ lv2 = [lv EXCEPT ![r + 1] = CosetFft(out, sh2, DegreeBits - BitsFolded(list, r), lv[r + 1])]

LEMMA CommitNext ==
    ASSUME NEW B, NEW list \in Reductions, NEW n, n = Len(list), NEW r \in 1..n, NEW c, NEW lv, NEW dg, NEW fd,
           NEW sh, CommittedTo(B, list, n, r, c, lv, dg, fd, sh),
           NEW tr, NEW out, NEW lv2, NEW dg2, NEW fd2, NEW sh2,
           Commits(list, n, r, c, lv, dg, fd, sh, tr, out, lv2, dg2, fd2, sh2)
    PROVE  CommittedTo(B, list, n, r + 1, c, lv2, dg2, fd2, sh2)
<1>0. /\ tr = (IF TileBits <= list[r] + 1 THEN lv[r] ELSE BlankLayer("junk"))
      /\ out = Fold(IF r = 1 THEN c ELSE fd[r - 1], list[r], r)
      /\ dg2 = [dg EXCEPT ![r] = tr] /\ fd2 = [fd EXCEPT ![r] = out]
      /\ IF r = n THEN sh2 = sh /\ lv2 = lv
         ELSE /\ sh2 = NextShift(sh, list[r])
              /\ lv2 = [lv EXCEPT ![r + 1] = CosetFft(out, sh2, DegreeBits - BitsFolded(list, r), lv[r + 1])]
  BY DEF Commits
<1>1. n \in Nat \ {0} /\ TileBits <= list[r] + 1
  BY ListFacts
<1>2. r \in Nat \ {0} /\ (r + 1) - 1 = r /\ r <= n /\ r \in 1..n /\ r \in 1..Len(list)
  BY <1>1
<1>3. /\ c = PolyOf(B, list, 0) /\ DOMAIN lv = 1..n /\ DOMAIN dg = 1..n /\ DOMAIN fd = 1..n
      /\ \A k \in 1..n : k <= r => IsLayer(lv[k], B, list, k)
      /\ \A k \in 1..(r - 1) : dg[k] = lv[k] /\ fd[k] = PolyOf(B, list, k)
      /\ sh = Two[BitsFolded(list, r - 1)]
  BY <1>2 DEF CommittedTo
<1>4. out = PolyOf(B, list, r)
  <2>1. (IF r = 1 THEN c ELSE fd[r - 1]) = PolyOf(B, list, r - 1)
    <3>1. CASE r = 1
      BY <1>3, <3>1
    <3>2. CASE r # 1
      <4>1. r - 1 \in 1..(r - 1)
        BY <1>2, <3>2
      <4> QED
        BY <1>3, <3>2, <4>1
    <3> QED
      BY <3>1, <3>2
  <2> QED
    BY <1>0, <1>2, <2>1, FoldPoly
<1>5. DOMAIN lv2 = 1..n /\ \A k \in 1..r : lv2[k] = lv[k]
  <2>1. \A k \in 1..r : k # r + 1
    BY <1>2
  <2> QED
    BY <1>0, <1>3, <2>1
<1>6. DOMAIN dg2 = 1..n /\ DOMAIN fd2 = 1..n
  BY <1>0, <1>3
<1>7. ASSUME NEW k \in 1..r PROVE dg2[k] = lv2[k] /\ fd2[k] = PolyOf(B, list, k)
  <2>1. k \in 1..n /\ (k # r => k \in 1..(r - 1))
    BY <1>1, <1>2
  <2>2. tr = lv[r]
    BY <1>0, <1>1
  <2>3. dg2[k] = lv[k]
    BY <1>0, <1>3, <2>1, <2>2
  <2>4. fd2[k] = PolyOf(B, list, k)
    BY <1>0, <1>3, <1>4, <2>1
  <2> QED
    BY <1>5, <2>3, <2>4
<1>8. CASE r = n
  <2>1. \A k \in 1..n : k <= r
    BY <1>1, <1>8
  <2>2. ~(r + 1 <= n)
    BY <1>1, <1>8
  <2>3. lv2 = lv
    BY <1>0, <1>8
  <2> QED
    BY <1>2, <1>3, <1>5, <1>6, <1>7, <2>1, <2>2, <2>3 DEF CommittedTo
<1>9. CASE r # n
  <2>1. r \in 1..(n - 1) /\ r + 1 \in 1..n
    BY <1>1, <1>9
  <2>2. sh2 = Two[BitsFolded(list, r)]
    BY <1>0, <1>2, <1>3, <1>9, NextLayer DEF NextShift
  <2>3. PICK old, v : old = lv[r + 1] /\ v = CosetFft(out, sh2, DegreeBits - BitsFolded(list, r), old)
    OBVIOUS
  <2>4. IsLayer(v, B, list, r + 1)
    BY <1>4, <2>1, <2>2, <2>3, LayerExtended
  <2>5. lv2[r + 1] = v
    BY <1>0, <1>3, <1>9, <2>1, <2>3
  <2>6. ASSUME NEW k \in 1..n, k <= r + 1 PROVE IsLayer(lv2[k], B, list, k)
    <3>1. CASE k = r + 1
      BY <2>4, <2>5, <3>1
    <3>2. CASE k # r + 1
      <4>1. k \in 1..r /\ k <= r
        BY <1>2, <2>6, <3>2
      <4> QED
        BY <1>3, <1>5, <4>1
    <3> QED
      BY <3>1, <3>2
  <2> QED
    BY <1>2, <1>3, <1>5, <1>6, <1>7, <2>2, <2>6 DEF CommittedTo
<1> QED
  BY <1>8, <1>9

---------------------------------------------------------------------------
(* The final polynomial: what the buffers hold is what is opened.           *)
LEMMA SlotCover ==
    ASSUME NEW p \in Slots PROVE \E s \in Segments : \E j \in Index(s) : p = FpSlot(s, j)
<1>1. PICK a, b, c, d \in Nat : /\ a = Count["ConstantsSigmas"] /\ b = Count["Wires"]
                                /\ c = Count["PartialProducts"] /\ d = Count["Quotients"]
  BY CountType DEF Segments
<1>2. p \in 0..(a + b + c + d - 1)
  BY <1>1 DEF Slots, NumPolys, Offset
<1>3. /\ \A j : FpSlot("ConstantsSigmas", j) = 0 + j
      /\ \A j : FpSlot("Wires", j) = a + j
      /\ \A j : FpSlot("PartialProducts", j) = a + b + j
      /\ \A j : FpSlot("Quotients", j) = a + b + c + j
  BY <1>1 DEF FpSlot, Offset
<1>4. {"ConstantsSigmas", "Wires", "PartialProducts", "Quotients"} \subseteq Segments
  BY DEF Segments
<1>5. CASE p < a
  <2>1. p \in Index("ConstantsSigmas") /\ p = 0 + p
    BY <1>1, <1>2, <1>5 DEF Index
  <2> QED
    BY <1>3, <1>4, <2>1
<1>6. CASE p >= a /\ p < a + b
  <2>1. p - a \in Index("Wires") /\ p = a + (p - a)
    BY <1>1, <1>2, <1>6 DEF Index
  <2> QED
    BY <1>3, <1>4, <2>1
<1>7. CASE p >= a + b /\ p < a + b + c
  <2>1. p - (a + b) \in Index("PartialProducts") /\ p = a + b + (p - (a + b))
    BY <1>1, <1>2, <1>7 DEF Index
  <2> QED
    BY <1>3, <1>4, <2>1
<1>8. CASE p >= a + b + c
  <2>1. p - (a + b + c) \in Index("Quotients") /\ p = a + b + c + (p - (a + b + c))
    BY <1>1, <1>2, <1>8 DEF Index
  <2> QED
    BY <1>3, <1>4, <2>1
<1> QED
  BY <1>2, <1>5, <1>6, <1>7, <1>8

LEMMA OpenPlain ==
    ASSUME BufferInv, phase = "open", NEW p \in Slots
    PROVE  fp[p].rep = "coeffs" /\ fp[p].order = "natural" /\ fp[p].coset = <<0, 0>>
<1>1. PICK s \in Segments : \E j \in Index(s) : p = FpSlot(s, j)
  BY SlotCover
<1>2. PICK j \in Index(s) : p = FpSlot(s, j)
  BY <1>1
<1>3. Moved(fp, s, Nth(proves, s), numLdes[s], <<0, 0>>)
  BY OpenReady DEF Ready
<1>4. Is(fp[p], s, j, Nth(proves, s), "coeffs", "natural", <<0, 0>>)
  BY <1>2, <1>3 DEF Moved
<1> QED
  BY <1>4, IsFields

LEMMA OpenReduced ==
    ASSUME BufferInv, phase = "open"
    PROVE  /\ Reduced(0, NumPolys, "zeta") = [first |-> 0, num |-> NumPolys, point |-> "zeta"]
           /\ Reduced(FpSlot("PartialProducts", 0), NumChallenges, "g * zeta")
                = [first |-> FpSlot("PartialProducts", 0), num |-> NumChallenges, point |-> "g * zeta"]
<1>1. PICK a, b, c, d, m \in Nat : /\ a = Count["ConstantsSigmas"] /\ b = Count["Wires"]
                                   /\ c = Count["PartialProducts"] /\ d = Count["Quotients"]
                                   /\ m = NumChallenges /\ m <= d
  <2>1. PICK m, r \in Nat \ {0} : m = NumChallenges /\ r = Rate /\ Count["Quotients"] = m * r
    BY CountType
  <2>2. m <= m * r /\ m * r \in Nat
    BY <2>1
  <2> QED
    BY <2>1, <2>2, CountType DEF Segments
<1>2. NumPolys = a + b + c + d /\ FpSlot("PartialProducts", 0) = a + b
  BY <1>1 DEF NumPolys, FpSlot, Offset
<1>3. 0..(0 + NumPolys - 1) \subseteq Slots
  BY <1>1, <1>2 DEF Slots
<1>4. FpSlot("PartialProducts", 0)..(FpSlot("PartialProducts", 0) + NumChallenges - 1) \subseteq Slots
  BY <1>1, <1>2 DEF Slots
<1> QED
  BY <1>3, <1>4, OpenPlain DEF Reduced

(* What the final polynomial may be: the openings on top of what was there. *)
Opened(B) == \E held \in {<<>>, <<Stale>>} : B = held \o Instance.batches

LEMMA FinalRight ==
    ASSUME BufferInv, phase = "open", FinalPoly
    PROVE  /\ shift' = 1 /\ friPhase' = "commit" /\ round' = 1
           /\ \E B : /\ Opened(B) /\ coefficients' = ExtPoly(B, <<>>)
                     /\ leaves' = [leaves EXCEPT ![1] = CosetFft(ExtPoly(B, <<>>), 1, DegreeBits, leaves[1])]
<1>1. PICK x, y : /\ x = Reduced(0, NumPolys, "zeta")
                  /\ y = Reduced(FpSlot("PartialProducts", 0), NumChallenges, "g * zeta")
  OBVIOUS
<1>2. Instance.batches = <<x, y>>
  BY <1>1, OpenReduced DEF Instance, ExtPoly
<1>3. PICK held \in {<<>>, <<Stale>>} :
          held = IF coefficients = NoPoly /\ "final_poly" \in Cleared THEN <<>> ELSE <<Stale>>
  OBVIOUS
<1>4. PICK B : B = held \o <<x, y>>
  OBVIOUS
<1>5. Opened(B)
  BY <1>2, <1>3, <1>4 DEF Opened
<1>6. /\ coefficients' = ExtPoly(B, <<>>)
      /\ leaves' = [leaves EXCEPT ![1] = CosetFft(ExtPoly(B, <<>>), 1, DegreeBits, leaves[1])]
      /\ shift' = 1 /\ friPhase' = "commit" /\ round' = 1
  BY <1>1, <1>3, <1>4 DEF FinalPoly
<1> QED
  BY <1>5, <1>6

CommitNow(B, r) == CommittedTo(B, arities, NumRounds, r, coefficients, leaves, digests, folded, shift)
CommitAt(r) == \E B : Opened(B) /\ CommitNow(B, r)
CommitInv ==
    /\ DOMAIN leaves = 1..NumRounds /\ DOMAIN digests = 1..NumRounds /\ DOMAIN folded = 1..NumRounds
    /\ friPhase = "commit" => round \in 1..(NumRounds + 1) /\ CommitAt(round)
    /\ friPhase \in {"initial", "steps", "assemble"} => CommitAt(NumRounds + 1)

LEMMA InitCommit == ASSUME ProofInit PROVE CommitInv
<1>1. PICK n : n = NumRounds /\ n \in Nat \ {0} /\ DOMAIN arities = 1..n
  <2>1. arities \in Reductions
    BY DEF ProofInit
  <2>2. PICK n : n = Len(arities)
    OBVIOUS
  <2>3. n \in Nat \ {0} /\ arities \in [1..n -> Nat \ {0}]
    BY <2>1, <2>2, ListFacts
  <2> QED
    BY <2>2, <2>3 DEF NumRounds
<1>2. /\ DOMAIN leaves = 1..n /\ DOMAIN digests = 1..n /\ DOMAIN folded = 1..n /\ friPhase = "final_poly"
  BY <1>1 DEF ProofInit, Rounds
<1> QED
  BY <1>1, <1>2 DEF CommitInv

LEMMA ListOf ==
    ASSUME QueryInv
    PROVE  /\ arities \in Reductions /\ NumRounds = Len(arities) /\ NumRounds \in Nat \ {0}
           /\ Rounds = 1..NumRounds
<1>1. arities \in Reductions
  BY DEF QueryInv, QueryTypes
<1>2. PICK n : n = Len(arities)
  OBVIOUS
<1>3. n \in Nat \ {0} /\ arities \in [1..n -> Nat \ {0}]
  BY <1>1, <1>2, ListFacts
<1> QED
  BY <1>1, <1>2, <1>3 DEF NumRounds, Rounds

(* The steps of the commit phase.                                           *)
LEMMA FinalStep ==
    ASSUME BufferInv, QueryInv, CommitInv, phase = "open", FinalPoly PROVE CommitInv'
<1>1. arities' = arities /\ digests' = digests /\ folded' = folded /\ friPhase' = "commit" /\ round' = 1
  BY DEF FinalPoly
<1>2. PICK list \in Reductions, n \in Nat \ {0} : list = arities /\ n = NumRounds /\ n = Len(arities)
  BY ListOf
<1>3. list = arities' /\ n = NumRounds'
  BY <1>1, <1>2 DEF NumRounds
<1>4. PICK B : /\ Opened(B) /\ coefficients' = ExtPoly(B, <<>>)
               /\ leaves' = [leaves EXCEPT ![1] = CosetFft(ExtPoly(B, <<>>), 1, DegreeBits, leaves[1])]
  BY FinalRight
<1>5. shift' = 1
  BY FinalRight
<1>6. PICK c, lv, dg, fd, sh : c = coefficients' /\ lv = leaves' /\ dg = digests' /\ fd = folded' /\ sh = shift'
  OBVIOUS
<1>7. PICK old, v : old = leaves[1] /\ v = CosetFft(ExtPoly(B, <<>>), 1, DegreeBits, old)
  OBVIOUS
<1>8. DOMAIN lv = 1..n /\ DOMAIN dg = 1..n /\ DOMAIN fd = 1..n /\ lv[1] = v
  <2>1. DOMAIN leaves = 1..n /\ DOMAIN digests = 1..n /\ DOMAIN folded = 1..n /\ 1 \in 1..n
    BY <1>2 DEF CommitInv
  <2> QED
    BY <1>1, <1>4, <1>6, <1>7, <2>1
<1>9. IsLayer(v, B, list, 1)
  BY <1>7, FirstLayer
<1>10. c = PolyOf(B, list, 0) /\ sh = Two[BitsFolded(list, 0)]
  <2>1. BitsFolded(list, 0) = 0
    BY <1>2, ListFacts
  <2>2. Two[0] = 1
    BY TwoUnfolds
  <2> QED
    BY <1>4, <1>5, <1>6, <2>1, <2>2, NoFolds
<1>11. CommittedTo(B, list, n, 1, c, lv, dg, fd, sh)
  <2>1. 1 - 1 = 0 /\ 1..0 = {} /\ \A k \in 1..n : k <= 1 => k = 1
    OBVIOUS
  <2> QED
    BY <1>8, <1>9, <1>10, <2>1 DEF CommittedTo
<1>12. CommitNow(B, round)'
  BY <1>1, <1>3, <1>6, <1>11 DEF CommitNow
<1>13. CommitAt(round)'
  BY <1>4, <1>12 DEF CommitAt, Opened
<1>14. 1 \in 1..(n + 1)
  OBVIOUS
<1> QED
  BY <1>1, <1>3, <1>6, <1>8, <1>13, <1>14 DEF CommitInv

LEMMA RoundStep ==
    ASSUME QueryInv, CommitInv, CommitRound PROVE CommitInv'
<1>1. /\ arities' = arities /\ friPhase' = "commit" /\ friPhase = "commit"
      /\ round <= NumRounds /\ round' = round + 1 /\ coefficients' = coefficients
  BY DEF CommitRound
<1>2. PICK list \in Reductions, n \in Nat \ {0} : list = arities /\ n = NumRounds /\ n = Len(list)
  BY ListOf
<1>3. list = arities' /\ n = NumRounds'
  BY <1>1, <1>2 DEF NumRounds
<1>4. PICK r : r = round
  OBVIOUS
<1>5. r \in 1..n /\ r + 1 \in 1..(n + 1)
  <2>1. r \in 1..(n + 1) /\ r <= n
    BY <1>1, <1>2, <1>4 DEF CommitInv
  <2> QED
    BY <2>1
<1>6. PICK c, lv, dg, fd, sh : c = coefficients /\ lv = leaves /\ dg = digests /\ fd = folded /\ sh = shift
  OBVIOUS
<1>7. PICK B : Opened(B) /\ CommittedTo(B, list, n, r, c, lv, dg, fd, sh)
  BY <1>1, <1>2, <1>4, <1>6 DEF CommitInv, CommitAt, CommitNow
<1>8. PICK lv2, dg2, fd2, sh2 : lv2 = leaves' /\ dg2 = digests' /\ fd2 = folded' /\ sh2 = shift'
  OBVIOUS
<1>9. PICK tr : tr = (IF TileBits <= list[r] + 1 THEN lv[r] ELSE BlankLayer("junk"))
  OBVIOUS
<1>10. PICK out : out = Fold(IF r = 1 THEN c ELSE fd[r - 1], list[r], r)
  OBVIOUS
<1>11. dg2 = [dg EXCEPT ![r] = tr]
  BY <1>2, <1>4, <1>6, <1>8, <1>9 DEF CommitRound, CommitTree
<1>12. out = Fold(ReduceInput(round), arities[round], beta')
  BY <1>2, <1>4, <1>6, <1>10 DEF CommitRound, ReduceInput
<1>13. fd2 = [fd EXCEPT ![r] = out]
  BY <1>4, <1>6, <1>8, <1>12 DEF CommitRound
<1>14. IF r = n THEN sh2 = sh /\ lv2 = lv
       ELSE /\ sh2 = NextShift(sh, list[r])
            /\ lv2 = [lv EXCEPT ![r + 1] = CosetFft(out, sh2, DegreeBits - BitsFolded(list, r), lv[r + 1])]
  BY <1>2, <1>4, <1>6, <1>8, <1>12 DEF CommitRound
<1>15. CommittedTo(B, list, n, r + 1, c, lv2, dg2, fd2, sh2)
  <2>1. Commits(list, n, r, c, lv, dg, fd, sh, tr, out, lv2, dg2, fd2, sh2)
    BY <1>9, <1>10, <1>11, <1>13, <1>14 DEF Commits
  <2> QED
    BY <1>2, <1>5, <1>7, <2>1, CommitNext
<1>16. CommitNow(B, round)'
  BY <1>1, <1>3, <1>4, <1>6, <1>8, <1>15 DEF CommitNow
<1>17. CommitAt(round)'
  BY <1>7, <1>16 DEF CommitAt, Opened
<1>18. DOMAIN lv2 = 1..n /\ DOMAIN dg2 = 1..n /\ DOMAIN fd2 = 1..n
  BY <1>15 DEF CommittedTo
<1> QED
  BY <1>1, <1>3, <1>4, <1>5, <1>8, <1>17, <1>18 DEF CommitInv

LEMMA CommitAtKept ==
    ASSUME UNCHANGED <<arities, commitVars>>, NEW r, CommitAt(r)
    PROVE  CommitAt(r)'
<1>1. UNCHANGED <<arities, coefficients, leaves, digests, folded, shift>>
  BY DEF commitVars
<1>2. PICK B : Opened(B) /\ CommitNow(B, r)
  BY DEF CommitAt
<1>3. CommitNow(B, r)' /\ Opened(B)'
  BY <1>1, <1>2 DEF CommitNow, NumRounds, Opened
<1> QED
  BY <1>3 DEF CommitAt

LEMMA CommitQuiet ==
    ASSUME QueryInv, CommitInv, UNCHANGED <<arities, commitVars>>,
           \/ friPhase' = friPhase /\ round' = round
           \/ friPhase = "commit" /\ round > NumRounds /\ friPhase' = "initial"
           \/ friPhase \in {"initial", "steps"} /\ friPhase' \in {"initial", "steps", "assemble"}
           \/ friPhase' = "final_poly"
    PROVE  CommitInv'
<1>1. UNCHANGED <<arities, leaves, digests, folded>>
  BY DEF commitVars
<1>2. NumRounds' = NumRounds
  BY <1>1 DEF NumRounds
<1>3. ASSUME friPhase' \in {"initial", "steps", "assemble"} PROVE CommitAt(NumRounds + 1)
  <2>1. CASE friPhase \in {"initial", "steps", "assemble"}
    BY <1>3, <2>1 DEF CommitInv
  <2>2. CASE friPhase = "commit" /\ round > NumRounds
    <3>1. PICK n \in Nat : n = NumRounds
      BY ListOf
    <3>2. round \in 1..(n + 1) /\ round > n /\ CommitAt(round)
      BY <2>2, <3>1 DEF CommitInv
    <3>3. round = n + 1
      BY <3>2
    <3> QED
      BY <3>1, <3>2, <3>3
  <2> QED
    BY <1>3, <2>1, <2>2
<1>4. PICK m : m = NumRounds + 1 /\ m = NumRounds' + 1
  BY <1>2
<1>5. ASSUME friPhase' \in {"initial", "steps", "assemble"} PROVE CommitAt(NumRounds + 1)'
  <2>1. CommitAt(m)'
    BY <1>3, <1>4, <1>5, CommitAtKept
  <2> QED
    BY <1>4, <2>1 DEF CommitAt, CommitNow
<1>6. ASSUME friPhase' = "commit" PROVE round' \in 1..(NumRounds' + 1) /\ CommitAt(round)'
  <2>1. friPhase = "commit" /\ round' = round
    BY <1>6
  <2>2. PICK r : r = round /\ r = round'
    BY <2>1
  <2>3. r \in 1..(NumRounds + 1) /\ CommitAt(r)
    BY <1>6, <2>1, <2>2 DEF CommitInv
  <2>4. CommitAt(r)'
    BY <2>3, CommitAtKept
  <2> QED
    BY <1>2, <2>2, <2>3, <2>4 DEF CommitAt, CommitNow
<1> QED
  BY <1>1, <1>2, <1>5, <1>6 DEF CommitInv

LEMMA CommitKept ==
    ASSUME BufferInv, QueryInv, CommitInv, [ProofNext]_proofVars
    PROVE  CommitInv'
<1>1. CASE UNCHANGED proofVars \/ UNCHANGED friVars
  <2>1. UNCHANGED <<arities, commitVars>> /\ friPhase' = friPhase /\ round' = round
    BY <1>1 DEF proofVars, friVars
  <2> QED
    BY <2>1, CommitQuiet
<1>2. CASE phase = "open" /\ FriStep
  <2>1. CASE FinalPoly
    BY <1>2, <2>1, FinalStep
  <2>2. CASE CommitRound
    BY <2>2, RoundStep
  <2>3. CASE SampleQueries
    BY <2>3, CommitQuiet DEF SampleQueries
  <2>4. CASE InitialProof \/ InitialDone
    BY <2>4, CommitQuiet DEF InitialProof, InitialDone
  <2>5. CASE QueryStep \/ QueriesDone
    BY <2>5, CommitQuiet DEF QueryStep, QueriesDone
  <2> QED
    BY <1>2, <2>1, <2>2, <2>3, <2>4, <2>5 DEF FriStep
<1>3. CASE ReturnProof
  BY <1>3, CommitQuiet DEF ReturnProof
<1> QED
  BY <1>1, <1>2, <1>3 DEF ProofNext

---------------------------------------------------------------------------
(* The caps of the first prove; those of a later one are added to them.     *)
FirstWay == proves = 0 \/ (proves = 1 /\ phase \notin {"done", "scatter"})
CapsTo(dg, list, r) == [k \in 1..r |-> CapOf(dg, list, k)]
CapsNow(r) == caps = CapsTo(digests, arities, r - 1)
CapInv ==
    /\ friPhase = "final_poly" /\ FirstWay => caps = <<>>
    /\ friPhase = "commit" /\ proves = 1 => CapsNow(round)
    /\ friPhase \in {"initial", "steps", "assemble"} /\ proves = 1 => CapsNow(NumRounds + 1)

LEMMA Appending ==
    ASSUME NEW S, NEW m \in Nat, NEW cp \in Seq(S), Len(cp) = m, NEW c \in S
    PROVE  LET g == Append(cp, c)
           IN  /\ g = [i \in 1..(m + 1) |-> g[i]] /\ g[m + 1] = c
               /\ \A i \in 1..m : g[i] = cp[i]
<1>1. PICK g : g = Append(cp, c)
  OBVIOUS
<1>2. g \in Seq(S) /\ Len(g) = m + 1 /\ g[m + 1] = c /\ \A i \in 1..m : g[i] = cp[i]
  BY <1>1, AppendProperties
<1>3. g = [i \in 1..(m + 1) |-> g[i]]
  BY <1>2, LenProperties
<1> QED
  BY <1>1, <1>2, <1>3

CapAdding(list, n, r, dg, cp, tr, dg2) ==
    /\ n \in Nat /\ r \in 1..n /\ DOMAIN dg = 1..n
    /\ cp = CapsTo(dg, list, r - 1) /\ dg2 = [dg EXCEPT ![r] = tr]

LEMMA CapAdded ==
    ASSUME NEW list, NEW n, NEW r, NEW dg, NEW cp, NEW tr, NEW dg2, CapAdding(list, n, r, dg, cp, tr, dg2)
    PROVE  Append(cp, CapOf(dg2, list, r)) = CapsTo(dg2, list, r)
<1>0. /\ n \in Nat /\ r \in 1..n /\ DOMAIN dg = 1..n
      /\ cp = CapsTo(dg, list, r - 1) /\ dg2 = [dg EXCEPT ![r] = tr]
  BY DEF CapAdding
<1>1. PICK S : S = {CapOf(dg2, list, k) : k \in 1..r}
  OBVIOUS
<1>2. r - 1 \in Nat /\ 1..(r - 1) \subseteq 1..r /\ (r - 1) + 1 = r /\ r \in Nat
  BY <1>0
<1>3. PICK m \in Nat : m = r - 1 /\ m + 1 = r
  BY <1>2
<1>4. \A k \in 1..m : CapOf(dg, list, k) = CapOf(dg2, list, k)
  <2>1. \A k \in 1..m : k # r
    BY <1>3
  <2>2. \A k \in 1..m : dg2[k] = dg[k]
    <3>1. ASSUME NEW k \in 1..m PROVE dg2[k] = dg[k]
      <4>1. k \in 1..n
        BY <1>0, <1>2, <1>3
      <4> QED
        BY <1>0, <2>1, <4>1
    <3> QED
      BY <3>1
  <2> QED
    BY <2>2 DEF CapOf
<1>5. cp \in [1..m -> S] /\ CapOf(dg2, list, r) \in S
  <2>1. r \in 1..r /\ 1..m \subseteq 1..r
    BY <1>2, <1>3
  <2>2. CapOf(dg2, list, r) \in S /\ \A k \in 1..m : CapOf(dg2, list, k) \in S
    BY <1>1, <2>1
  <2>3. cp = [k \in 1..m |-> CapOf(dg, list, k)]
    BY <1>0, <1>3 DEF CapsTo
  <2> QED
    BY <1>4, <2>2, <2>3
<1>6. cp \in Seq(S) /\ Len(cp) = m
  BY <1>3, <1>5, LenProperties
<1>7. PICK c \in S : c = CapOf(dg2, list, r)
  BY <1>5
<1>8. PICK g : g = Append(cp, c)
  OBVIOUS
<1>9. g[r] = c /\ \A i \in 1..m : g[i] = cp[i]
  BY <1>3, <1>6, <1>7, <1>8, Appending
<1>10. g = [i \in 1..r |-> g[i]]
  BY <1>3, <1>6, <1>7, <1>8, Appending
<1>11. ASSUME NEW i \in 1..r PROVE g[i] = CapOf(dg2, list, i)
  <2>1. CASE i = r
    BY <1>7, <1>9, <2>1
  <2>2. CASE i # r
    <3>1. i \in 1..m
      BY <1>2, <1>3, <2>2
    <3>2. cp[i] = CapOf(dg, list, i)
      BY <1>0, <1>3, <3>1 DEF CapsTo
    <3> QED
      BY <1>4, <1>9, <3>1, <3>2
  <2> QED
    BY <2>1, <2>2
<1> QED
  BY <1>7, <1>8, <1>10, <1>11 DEF CapsTo

LEMMA ProvesType ==
    ASSUME BufferInv, phase # "done" PROVE proves \in Nat /\ (phase = "open" => proves # 0)
<1>1. PICK pv \in Nat : FirstProve(pv, numLdes, fp, lde, tree, phase, seg, part, mul, proves)
  BY DEF BufferInv, FirstNow
<1>2. proves = FirstCount(pv, phase, seg) /\ pv \in Nat \ {0}
  BY <1>1, FirstParts
<1> QED
  BY <1>2 DEF FirstCount, Committing

LEMMA FirstWayBack == ASSUME BufferInv, BufferStep, FirstWay' PROVE FirstWay
<1>0. phase # "done" /\ (phase = "scatter" => proves' = proves + 1)
  BY DEF BufferStep, Upload, Intt, Extend, TreePart, TreeDone, Build, Scatter, Zp, QuotientPart, QuotientDone
<1>1. PICK p \in Nat : p = proves
  BY <1>0, ProvesType
<1>2. proves' = proves \/ (proves' = proves + 1 /\ phase = "scatter")
  BY DEF BufferStep, Upload, Intt, Extend, TreePart, TreeDone, Build, Scatter, Zp, QuotientPart, QuotientDone
<1>3. CASE proves' = proves + 1 /\ phase = "scatter"
  BY <1>1, <1>3 DEF FirstWay
<1>4. CASE proves' = proves
  <2>1. phase # "scatter"
    BY <1>0, <1>1, <1>4
  <2> QED
    BY <1>0, <1>4, <2>1 DEF FirstWay
<1> QED
  BY <1>2, <1>3, <1>4

LEMMA InitCaps == ASSUME ProofInit PROVE CapInv
BY DEF ProofInit, CapInv

LEMMA CapsBegin == ASSUME CapInv, phase = "open", FinalPoly, UNCHANGED vars PROVE CapInv'
<1>1. friPhase = "final_poly" /\ friPhase' = "commit" /\ round' = 1 /\ caps' = caps /\ proves' = proves
  BY DEF FinalPoly, vars
<1>2. ASSUME proves = 1 PROVE CapsNow(round)'
  <2>1. caps' = <<>>
    BY <1>1, <1>2 DEF CapInv, FirstWay
  <2>2. 1..(1 - 1) = {}
    OBVIOUS
  <2>3. \A dg, list : CapsTo(dg, list, 1 - 1) = <<>>
    BY <2>2 DEF CapsTo
  <2> QED
    BY <1>1, <2>1, <2>3 DEF CapsNow
<1> QED
  BY <1>1, <1>2 DEF CapInv

LEMMA CapsNext == ASSUME QueryInv, CommitInv, CapInv, CommitRound, UNCHANGED vars PROVE CapInv'
<1>1. /\ arities' = arities /\ friPhase' = "commit" /\ friPhase = "commit" /\ proves' = proves
      /\ round <= NumRounds /\ round' = round + 1
  BY DEF CommitRound, vars
<1>2. ASSUME proves = 1 PROVE CapsNow(round)'
  <2>1. PICK list \in Reductions, n \in Nat \ {0} : list = arities /\ n = NumRounds
    BY ListOf
  <2>2. PICK r : r = round
    OBVIOUS
  <2>3. r \in 1..n /\ r \in Nat \ {0} /\ (r + 1) - 1 = r
    <3>1. r \in 1..(n + 1) /\ r <= n
      BY <1>1, <2>1, <2>2 DEF CommitInv
    <3> QED
      BY <3>1
  <2>4. PICK dg, cp, tr, dg2, cp2 : dg = digests /\ cp = caps /\ tr = CommitTree(round) /\ dg2 = digests' /\ cp2 = caps'
    OBVIOUS
  <2>5. DOMAIN dg = 1..n /\ dg2 = [dg EXCEPT ![r] = tr]
    BY <2>1, <2>2, <2>4 DEF CommitInv, CommitRound
  <2>6. cp = CapsTo(dg, list, r - 1)
    BY <1>1, <1>2, <2>1, <2>2, <2>4 DEF CapInv, CapsNow
  <2>7. cp2 = Append(cp, CapOf(dg2, list, r))
    BY <2>1, <2>2, <2>4 DEF CommitRound, CopyCap, CapOf
  <2>8. cp2 = CapsTo(dg2, list, r)
    <3>1. n \in Nat /\ r \in 1..n
      BY <2>3
    <3>2. CapAdding(list, n, r, dg, cp, tr, dg2)
      BY <2>5, <2>6, <3>1 DEF CapAdding
    <3>3. Append(cp, CapOf(dg2, list, r)) = CapsTo(dg2, list, r)
      BY <3>2, CapAdded
    <3> QED
      BY <2>7, <3>3
  <2> QED
    BY <1>1, <2>1, <2>2, <2>3, <2>4, <2>8 DEF CapsNow
<1> QED
  BY <1>1, <1>2 DEF CapInv

LEMMA CapsQuiet ==
    ASSUME QueryInv, CommitInv, CapInv, UNCHANGED <<arities, commitVars>>, UNCHANGED proves,
           \/ friPhase' = friPhase /\ round' = round /\ phase' = phase
           \/ friPhase = "commit" /\ round > NumRounds /\ friPhase' = "initial"
           \/ friPhase \in {"initial", "steps"} /\ friPhase' \in {"initial", "steps", "assemble"}
    PROVE  CapInv'
<1>1. UNCHANGED <<arities, digests, caps, proves>>
  BY DEF commitVars
<1>2. NumRounds' = NumRounds /\ \A r : CapsNow(r)' = CapsNow(r)
  BY <1>1 DEF NumRounds, CapsNow
<1>3. ASSUME friPhase' \in {"initial", "steps", "assemble"}, proves = 1 PROVE CapsNow(NumRounds + 1)
  <2>1. CASE friPhase \in {"initial", "steps", "assemble"}
    BY <1>3, <2>1 DEF CapInv
  <2>2. CASE friPhase = "commit" /\ round > NumRounds
    <3>1. PICK n \in Nat : n = NumRounds
      BY ListOf
    <3>2. round \in 1..(n + 1) /\ round > n /\ CapsNow(round)
      BY <1>3, <2>2, <3>1 DEF CommitInv, CapInv
    <3>3. round = n + 1
      BY <3>2
    <3> QED
      BY <3>1, <3>2, <3>3
  <2> QED
    BY <1>3, <2>1, <2>2
<1>4. ASSUME friPhase' \in {"initial", "steps", "assemble"}, proves' = 1 PROVE CapsNow(NumRounds + 1)'
  <2>1. PICK m : m = NumRounds + 1 /\ m = NumRounds' + 1
    BY <1>2
  <2>2. CapsNow(m)
    BY <1>1, <1>3, <1>4, <2>1
  <2> QED
    BY <1>1, <2>1, <2>2 DEF CapsNow
<1>5. ASSUME friPhase' = "commit", proves' = 1 PROVE CapsNow(round)'
  <2>1. friPhase = "commit" /\ round' = round /\ CapsNow(round)
    BY <1>1, <1>5 DEF CapInv
  <2> QED
    BY <1>1, <2>1 DEF CapsNow
<1>6. ASSUME friPhase' = "final_poly", FirstWay' PROVE caps' = <<>>
  BY <1>1, <1>6 DEF CapInv, FirstWay
<1> QED
  BY <1>4, <1>5, <1>6 DEF CapInv

LEMMA CapsKept ==
    ASSUME BufferInv, QueryInv, CommitInv, CapInv, [ProofNext]_proofVars PROVE CapInv'
<1>1. CASE UNCHANGED proofVars
  <2>1. UNCHANGED <<arities, commitVars>> /\ UNCHANGED proves /\ friPhase' = friPhase /\ round' = round /\ phase' = phase
    BY <1>1 DEF proofVars, friVars, vars
  <2> QED
    BY <2>1, CapsQuiet
<1>2. CASE BufferStep /\ UNCHANGED friVars
  <2>1. friPhase = "final_poly" /\ friPhase' = "final_poly" /\ caps' = caps
    BY <1>2, BufferPhases DEF QueryInv, QueryTypes, friVars, commitVars
  <2>2. FirstWay' => FirstWay
    BY <1>2, FirstWayBack
  <2> QED
    BY <2>1, <2>2 DEF CapInv
<1>3. CASE phase = "open" /\ FriStep /\ UNCHANGED vars
  <2>0. UNCHANGED proves
    BY <1>3 DEF vars
  <2>1. CASE FinalPoly
    BY <1>3, <2>1, CapsBegin
  <2>2. CASE CommitRound
    BY <1>3, <2>2, CapsNext
  <2>3. CASE SampleQueries
    BY <2>0, <2>3, CapsQuiet DEF SampleQueries
  <2>4. CASE InitialProof \/ InitialDone
    BY <2>0, <2>4, CapsQuiet DEF InitialProof, InitialDone
  <2>5. CASE QueryStep \/ QueriesDone
    BY <2>0, <2>5, CapsQuiet DEF QueryStep, QueriesDone
  <2> QED
    BY <1>3, <2>1, <2>2, <2>3, <2>4, <2>5 DEF FriStep
<1>4. CASE ReturnProof
  <2>1. friPhase' = "final_poly" /\ proves' = proves /\ phase = "open" /\ phase' \in {"scatter", "done"}
    BY <1>4 DEF ReturnProof, ProveEnd
  <2>2. ~FirstWay'
    BY <2>1, ProvesType DEF FirstWay
  <2> QED
    BY <2>1, <2>2 DEF CapInv
<1> QED
  BY <1>1, <1>2, <1>3, <1>4 DEF ProofNext

---------------------------------------------------------------------------
(* The step queries.                                                        *)
LEMMA DivDiv ==
    ASSUME NEW a \in Nat \ {0}, NEW b \in Nat \ {0}, NEW x \in Nat
    PROVE  (x \div a) \div b = x \div (a * b)
<1>1. PICK q, m \in Nat : q = x \div a /\ m < a /\ x = q * a + m
  BY Division
<1>2. PICK p, s \in Nat : p = q \div b /\ s < b /\ q = p * b + s
  BY Division
<1>3. PICK c \in Nat \ {0} : c = a * b
  OBVIOUS
<1>4. PICK z \in Nat : z = s * a + m
  OBVIOUS
<1>5. z < c
  <2>1. s + 1 <= b
    BY <1>2
  <2>2. (s + 1) * a <= b * a
    <3>1. PICK d \in Nat : b = (s + 1) + d
      <4>1. b - (s + 1) \in Nat /\ b = (s + 1) + (b - (s + 1))
        BY <2>1
      <4> QED
        BY <4>1
    <3>2. b * a = (s + 1) * a + d * a /\ d * a \in Nat
      BY <3>1
    <3> QED
      BY <3>2
  <2>3. (s + 1) * a = s * a + a /\ b * a = a * b
    OBVIOUS
  <2>4. PICK u, v \in Nat : u = s * a /\ v = b * a
    OBVIOUS
  <2> QED
    BY <1>1, <1>3, <1>4, <2>2, <2>3, <2>4
<1>6. x = p * c + z
  <2>1. q * a = p * (a * b) + s * a
    BY <1>2
  <2>2. PICK u, v, w \in Nat : u = q * a /\ v = p * (a * b) /\ w = s * a
    BY <1>3
  <2> QED
    BY <1>1, <1>3, <1>4, <2>1, <2>2
<1>7. Split(x, c, p, z)
  <2>1. z \in 0..(c - 1)
    BY <1>5
  <2> QED
    BY <1>6, <2>1 DEF Split
<1>8. x \div c = p
  BY <1>7, Divides
<1> QED
  BY <1>1, <1>2, <1>3, <1>8

(* A row of each query's results, divided among the rounds by their sizes.  *)
RowsBySize(mem, nq, sizes, n) ==
    /\ n \in Nat /\ sizes \in [1..n -> Nat] /\ nq \in Nat
    /\ DOMAIN mem = 0..(nq * Sums(sizes)[n] - 1)
RoundRow(nq, sizes, n, k) == Rows(nq, Sums(sizes)[n], Sums(sizes)[k - 1], sizes[k])

LEMMA RoundFits ==
    ASSUME NEW mem, NEW nq, NEW sizes, NEW n, RowsBySize(mem, nq, sizes, n), NEW k \in 1..n
    PROVE  RowFits(mem, nq, Sums(sizes)[n], Sums(sizes)[k - 1], sizes[k])
<1>1. n \in Nat /\ sizes \in [1..n -> Nat] /\ nq \in Nat
  BY DEF RowsBySize
<1>2. k \in 0..n /\ k - 1 \in 0..n /\ n \in 0..n /\ k <= n /\ sizes[k] \in Nat
  BY <1>1
<1>3. Sums(sizes)[k] = Sums(sizes)[k - 1] + sizes[k]
  BY <1>1, SumsUnfold
<1>4. Sums(sizes)[k] <= Sums(sizes)[n] /\ Sums(sizes)[n] \in Nat
  BY <1>1, <1>2, SumsGrow
<1>5. Sums(sizes)[k - 1] \in Nat
  BY <1>1, <1>2, SumsUnfold
<1> QED
  BY <1>1, <1>2, <1>3, <1>4, <1>5 DEF RowFits, RowsBySize

LEMMA RoundWritten ==
    ASSUME NEW mem, NEW nq, NEW sizes, NEW n, RowsBySize(mem, nq, sizes, n), NEW k \in 1..n, NEW val,
           NEW x \in 0..(nq - 1), NEW y \in 0..(sizes[k] - 1)
    PROVE  Store(mem, RoundRow(nq, sizes, n, k), val)[x * Sums(sizes)[n] + Sums(sizes)[k - 1] + y]
               = val[<<x, y>>]
<1>1. PICK w, b, m : w = Sums(sizes)[n] /\ b = Sums(sizes)[k - 1] /\ m = sizes[k]
  OBVIOUS
<1>2. RowFits(mem, nq, w, b, m)
  BY <1>1, RoundFits
<1>3. y \in 0..(m - 1)
  BY <1>1
<1>4. Store(mem, Rows(nq, w, b, m), val)[x * w + b + y] = val[<<x, y>>]
  BY <1>2, <1>3, RowWritten
<1> QED
  BY <1>1, <1>4 DEF RoundRow

LEMMA RoundKept ==
    ASSUME NEW mem, NEW nq, NEW sizes, NEW n, RowsBySize(mem, nq, sizes, n), NEW k \in 1..n, NEW val,
           NEW i \in 1..(k - 1), NEW x \in 0..(nq - 1), NEW y \in 0..(sizes[i] - 1), NEW a,
           a = x * Sums(sizes)[n] + Sums(sizes)[i - 1] + y
    PROVE  Store(mem, RoundRow(nq, sizes, n, k), val)[a] = mem[a]
<1>1. PICK w, b, m : w = Sums(sizes)[n] /\ b = Sums(sizes)[k - 1] /\ m = sizes[k]
  OBVIOUS
<1>2. RowFits(mem, nq, w, b, m)
  BY <1>1, RoundFits
<1>3. n \in Nat /\ sizes \in [1..n -> Nat] /\ nq \in Nat
  BY DEF RowsBySize
<1>4. i \in 1..n /\ i \in 0..n /\ i - 1 \in 0..n /\ k - 1 \in 0..n /\ i <= k - 1 /\ sizes[i] \in Nat
  BY <1>3
<1>5. Sums(sizes)[i] = Sums(sizes)[i - 1] + sizes[i] /\ Sums(sizes)[i - 1] \in Nat
  BY <1>3, <1>4, SumsUnfold
<1>6. Sums(sizes)[i] <= b /\ b \in Nat
  BY <1>1, <1>3, <1>4, SumsGrow
<1>7. PICK c, d, e \in Nat : c = Sums(sizes)[i - 1] /\ d = sizes[i] /\ e = c + y
  BY <1>4, <1>5
<1>8. e < b
  BY <1>4, <1>5, <1>6, <1>7
<1>9. w \in Nat /\ b + m <= w /\ m \in Nat
  BY <1>2 DEF RowFits
<1>10. e \in 0..(w - 1)
  BY <1>6, <1>8, <1>9
<1>11. a = x * w + e
  <2>1. x * w \in Nat
    BY <1>3, <1>9
  <2>2. PICK z \in Nat : z = x * w
    BY <2>1
  <2> QED
    BY <1>1, <1>7, <2>2
<1>12. OutsideRow(mem, nq, w, b, m, a, x, e)
  BY <1>2, <1>8, <1>10, <1>11 DEF OutsideRow
<1> QED
  BY <1>1, <1>12, RowKept DEF RoundRow

(* The sizes of the rounds' results.                                        *)
StepSizes(list) == [k \in DOMAIN list |-> Two[list[k]]]
PathSizes(list) == [k \in DOMAIN list |-> StepLayers(list, k)]

LEMMA SizesOf ==
    ASSUME NEW list \in Reductions, NEW n, n = Len(list)
    PROVE  /\ n \in Nat \ {0} /\ StepSizes(list) \in [1..n -> Nat] /\ PathSizes(list) \in [1..n -> Nat]
           /\ \A k \in 1..n : /\ StepSizes(list)[k] = Two[list[k]] /\ Two[list[k]] \in Nat \ {0}
                              /\ PathSizes(list)[k] = StepLayers(list, k) /\ StepLayers(list, k) \in Nat
                              /\ StepLayers(list, k) <= LdeBits
           /\ ArityEnds(list) = Sums(StepSizes(list)) /\ AritySum(list) = Sums(StepSizes(list))[n]
           /\ SiblingEnds(list) = Sums(PathSizes(list)) /\ TotalStepSiblings(list) = Sums(PathSizes(list))[n]
<1>1. n \in Nat \ {0} /\ list \in [1..n -> Nat \ {0}]
  BY ListFacts
<1>2. DOMAIN list = 1..n
  BY <1>1
<1>3. ASSUME NEW k \in 1..n
      PROVE  Two[list[k]] \in Nat \ {0} /\ StepLayers(list, k) \in Nat /\ StepLayers(list, k) <= LdeBits
  <2>1. list[k] \in Nat /\ k \in 0..n
    BY <1>1
  <2>2. Two[list[k]] \in Nat \ {0}
    BY <2>1, TwoPositive
  <2>3. BitsFolded(list, k) \in Nat /\ BitsFolded(list, k) <= NumLayers
    BY <2>1, ListFacts
  <2>4. NumLayers \in Nat /\ NumLayers <= LdeBits /\ LdeBits \in Nat
    BY LayersType, FriTypes
  <2>5. PICK a, b, c \in Nat : a = BitsFolded(list, k) /\ b = NumLayers /\ c = LdeBits /\ a <= b /\ b <= c
    BY <2>3, <2>4
  <2> QED
    BY <2>2, <2>5 DEF StepLayers
<1>4. /\ StepSizes(list) = [k \in 1..n |-> Two[list[k]]]
      /\ PathSizes(list) = [k \in 1..n |-> StepLayers(list, k)]
  BY <1>2 DEF StepSizes, PathSizes
<1>5. StepSizes(list) \in [1..n -> Nat]
  <2>1. \A k \in 1..n : Two[list[k]] \in Nat
    BY <1>3
  <2> QED
    BY <1>4, <2>1
<1>6. PathSizes(list) \in [1..n -> Nat]
  <2>1. \A k \in 1..n : StepLayers(list, k) \in Nat
    BY <1>3
  <2> QED
    BY <1>4, <2>1
<1>7. \A k \in 1..n : StepSizes(list)[k] = Two[list[k]] /\ PathSizes(list)[k] = StepLayers(list, k)
  BY <1>4
<1>8. /\ ArityEnds(list) = Sums(StepSizes(list)) /\ AritySum(list) = Sums(StepSizes(list))[n]
      /\ SiblingEnds(list) = Sums(PathSizes(list)) /\ TotalStepSiblings(list) = Sums(PathSizes(list))[n]
  BY DEF ArityEnds, AritySum, SiblingEnds, TotalStepSiblings, StepSizes, PathSizes
<1> QED
  BY <1>1, <1>3, <1>5, <1>6, <1>7, <1>8

(* What round k of the queries stores for query q at index X[q], of the     *)
(* layers D the trees are of.                                               *)
Below(X, list, q, k) == X[q] \div Two[BitsFolded(list, k)]
EvalOf(D, X, list, q, k, e) == At(D[k], Below(X, list, q, k) * Two[list[k]] + e)
PathOf(X, list, q, k, l) ==
    Node("step", k, NodeAt(StepLayers(list, k) + CapHeight, l, Flip(Below(X, list, q, k) \div Two[l])))
EvalsTo(D, X, list, mem, r) ==
    \A k \in 1..(r - 1) : \A q \in Queries : \A e \in 0..(Two[list[k]] - 1) :
        mem[q * AritySum(list) + ArityEnds(list)[k - 1] + e] = EvalOf(D, X, list, q, k, e)
PathsTo(X, list, mem, r) ==
    \A k \in 1..(r - 1) : \A q \in Queries : \A l \in 0..(StepLayers(list, k) - 1) :
        mem[q * TotalStepSiblings(list) + SiblingEnds(list)[k - 1] + l] = PathOf(X, list, q, k, l)

EvalsStored(D, X, list, n, r, mem, val, mem2) ==
    /\ RowsBySize(mem, NumQueries, StepSizes(list), n) /\ EvalsTo(D, X, list, mem, r)
    /\ mem2 = Store(mem, RoundRow(NumQueries, StepSizes(list), n, r), val)
    /\ \A q \in Queries : \A e \in 0..(Two[list[r]] - 1) : val[<<q, e>>] = EvalOf(D, X, list, q, r, e)
PathsStored(X, list, n, r, mem, val, mem2) ==
    /\ RowsBySize(mem, NumQueries, PathSizes(list), n) /\ PathsTo(X, list, mem, r)
    /\ mem2 = Store(mem, RoundRow(NumQueries, PathSizes(list), n, r), val)
    /\ \A q \in Queries : \A l \in 0..(StepLayers(list, r) - 1) : val[<<q, l>>] = PathOf(X, list, q, r, l)

LEMMA EvalsAdded ==
    ASSUME NEW list \in Reductions, NEW n, n = Len(list), NEW r \in 1..n, NEW D, NEW X, NEW mem, NEW val, NEW mem2,
           EvalsStored(D, X, list, n, r, mem, val, mem2)
    PROVE  EvalsTo(D, X, list, mem2, r + 1)
<1>1. PICK sizes : sizes = StepSizes(list)
  OBVIOUS
<1>2. /\ n \in Nat \ {0} /\ \A k \in 1..n : sizes[k] = Two[list[k]]
      /\ ArityEnds(list) = Sums(sizes) /\ AritySum(list) = Sums(sizes)[n]
  BY <1>1, SizesOf
<1>3. RowsBySize(mem, NumQueries, sizes, n)
  BY <1>1 DEF EvalsStored
<1>4. mem2 = Store(mem, RoundRow(NumQueries, sizes, n, r), val)
  BY <1>1 DEF EvalsStored
<1>5. (r + 1) - 1 = r
  BY <1>2
<1> SUFFICES ASSUME NEW k \in 1..r, NEW q \in Queries, NEW e \in 0..(Two[list[k]] - 1)
             PROVE  mem2[q * AritySum(list) + ArityEnds(list)[k - 1] + e] = EvalOf(D, X, list, q, k, e)
  BY <1>5 DEF EvalsTo
<1>6. k \in 1..n /\ e \in 0..(sizes[k] - 1) /\ q \in 0..(NumQueries - 1)
  BY <1>2 DEF Queries
<1>7. PICK a : a = q * Sums(sizes)[n] + Sums(sizes)[k - 1] + e
  OBVIOUS
<1>8. CASE k = r
  <2>1. Store(mem, RoundRow(NumQueries, sizes, n, k), val)[q * Sums(sizes)[n] + Sums(sizes)[k - 1] + e]
           = val[<<q, e>>]
    BY <1>3, <1>6, RoundWritten
  <2>2. val[<<q, e>>] = EvalOf(D, X, list, q, k, e)
    BY <1>8 DEF EvalsStored
  <2> QED
    BY <1>2, <1>4, <1>8, <2>1, <2>2
<1>9. CASE k # r
  <2>1. k \in 1..(r - 1)
    BY <1>2, <1>9
  <2>2. mem2[a] = mem[a]
    BY <1>3, <1>4, <1>6, <1>7, <2>1, RoundKept
  <2>3. mem[q * AritySum(list) + ArityEnds(list)[k - 1] + e] = EvalOf(D, X, list, q, k, e)
    BY <2>1 DEF EvalsStored, EvalsTo
  <2> QED
    BY <1>2, <1>7, <2>2, <2>3
<1> QED
  BY <1>8, <1>9

LEMMA PathsAdded ==
    ASSUME NEW list \in Reductions, NEW n, n = Len(list), NEW r \in 1..n, NEW X, NEW mem, NEW val, NEW mem2,
           PathsStored(X, list, n, r, mem, val, mem2)
    PROVE  PathsTo(X, list, mem2, r + 1)
<1>1. PICK sizes : sizes = PathSizes(list)
  OBVIOUS
<1>2. /\ n \in Nat \ {0} /\ \A k \in 1..n : sizes[k] = StepLayers(list, k)
      /\ SiblingEnds(list) = Sums(sizes) /\ TotalStepSiblings(list) = Sums(sizes)[n]
  BY <1>1, SizesOf
<1>3. RowsBySize(mem, NumQueries, sizes, n)
  BY <1>1 DEF PathsStored
<1>4. mem2 = Store(mem, RoundRow(NumQueries, sizes, n, r), val)
  BY <1>1 DEF PathsStored
<1>5. (r + 1) - 1 = r
  BY <1>2
<1> SUFFICES ASSUME NEW k \in 1..r, NEW q \in Queries, NEW l \in 0..(StepLayers(list, k) - 1)
             PROVE  mem2[q * TotalStepSiblings(list) + SiblingEnds(list)[k - 1] + l] = PathOf(X, list, q, k, l)
  BY <1>5 DEF PathsTo
<1>6. k \in 1..n /\ l \in 0..(sizes[k] - 1) /\ q \in 0..(NumQueries - 1)
  BY <1>2 DEF Queries
<1>7. PICK a : a = q * Sums(sizes)[n] + Sums(sizes)[k - 1] + l
  OBVIOUS
<1>8. CASE k = r
  <2>1. Store(mem, RoundRow(NumQueries, sizes, n, k), val)[q * Sums(sizes)[n] + Sums(sizes)[k - 1] + l]
           = val[<<q, l>>]
    BY <1>3, <1>6, RoundWritten
  <2>2. val[<<q, l>>] = PathOf(X, list, q, k, l)
    BY <1>8 DEF PathsStored
  <2> QED
    BY <1>2, <1>4, <1>8, <2>1, <2>2
<1>9. CASE k # r
  <2>1. k \in 1..(r - 1)
    BY <1>2, <1>9
  <2>2. mem2[a] = mem[a]
    BY <1>3, <1>4, <1>6, <1>7, <2>1, RoundKept
  <2>3. mem[q * TotalStepSiblings(list) + SiblingEnds(list)[k - 1] + l] = PathOf(X, list, q, k, l)
    BY <2>1 DEF PathsStored, PathsTo
  <2> QED
    BY <1>2, <1>7, <2>2, <2>3
<1> QED
  BY <1>8, <1>9

(* The indices the verifier derives, and what the step queries achieved.    *)
Points == [q \in Queries |-> XIndex(q)]
StepMemory ==
    /\ RowsBySize(evaluations, NumQueries, StepSizes(arities), NumRounds)
    /\ RowsBySize(stepSiblings, NumQueries, PathSizes(arities), NumRounds)
StepsNow(r) ==
    EvalsTo(digests, Points, arities, evaluations, r) /\ PathsTo(Points, arities, stepSiblings, r)
StepInv ==
    /\ StepMemory
    /\ friPhase = "initial" /\ round > 1 => \A q \in Queries : xIndexes[q] = XIndex(q)
    /\ friPhase = "steps"
         => /\ round \in 1..(NumRounds + 1) /\ StepsNow(round)
            /\ \A q \in Queries : xIndexes[q] = Below(Points, arities, q, round - 1)
    /\ friPhase = "assemble" => StepsNow(NumRounds + 1)

LEMMA InitSteps == ASSUME ProofInit PROVE StepInv
<1>1. PICK list, n : list \in Reductions /\ list = arities /\ n = Len(list) /\ n = NumRounds
  BY DEF ProofInit, NumRounds
<1>2. /\ n \in Nat \ {0} /\ StepSizes(list) \in [1..n -> Nat] /\ PathSizes(list) \in [1..n -> Nat]
      /\ AritySum(list) = Sums(StepSizes(list))[n] /\ TotalStepSiblings(list) = Sums(PathSizes(list))[n]
  BY <1>1, SizesOf
<1>3. /\ DOMAIN evaluations = 0..(NumQueries * Sums(StepSizes(list))[n] - 1)
      /\ DOMAIN stepSiblings = 0..(NumQueries * Sums(PathSizes(list))[n] - 1)
  BY <1>1, <1>2 DEF ProofInit, Filled
<1>4. StepMemory
  BY <1>1, <1>2, <1>3, FriTypes DEF StepMemory, RowsBySize
<1> QED
  BY <1>4 DEF StepInv, ProofInit

LEMMA PointsType == ASSUME QueryTypes PROVE Points \in [Queries -> Nat] /\ \A q \in Queries : Points[q] = XIndex(q)
<1>1. ASSUME NEW q \in Queries PROVE XIndex(q) \in Nat
  <2>1. PICK t \in Nat \ {0}, z \in Nat : t = Two[LdeBits] /\ z = sampled[q]
    BY FriTypes DEF QueryTypes
  <2>2. z % t \in Nat
    BY <2>1, Division
  <2> QED
    BY <2>1, <2>2 DEF XIndex
<1> QED
  BY <1>1 DEF Points

LEMMA MemoryKept ==
    ASSUME StepMemory, arities' = arities, DOMAIN evaluations' = DOMAIN evaluations,
           DOMAIN stepSiblings' = DOMAIN stepSiblings
    PROVE  StepMemory'
BY DEF StepMemory, RowsBySize, NumRounds

LEMMA BelowNext ==
    ASSUME NEW list \in Reductions, NEW n, n = Len(list), NEW r \in 1..n, NEW X, NEW q, X[q] \in Nat
    PROVE  /\ Below(X, list, q, r - 1) \div Two[list[r]] = Below(X, list, q, r)
           /\ Below(X, list, q, r) \in Nat /\ Below(X, list, q, 0) = X[q]
<1>1. n \in Nat \ {0} /\ r \in 1..Len(list) /\ r \in 0..n /\ r - 1 \in 0..n
  BY ListFacts
<1>2. /\ BitsFolded(list, r - 1) \in Nat /\ BitsFolded(list, r) \in Nat /\ BitsFolded(list, 0) = 0
  BY <1>1, ListFacts
<1>3. Two[BitsFolded(list, r - 1)] * Two[list[r]] = Two[BitsFolded(list, r)]
  BY <1>1, NextLayer
<1>4. PICK a, b, c \in Nat \ {0}, x \in Nat : /\ a = Two[BitsFolded(list, r - 1)] /\ b = Two[list[r]]
                                             /\ c = Two[BitsFolded(list, r)] /\ x = X[q]
  BY <1>2, TwoPositive, SizesOf
<1>5. (x \div a) \div b = x \div (a * b)
  BY DivDiv
<1>6. x \div c \in Nat /\ x \div 1 = x
  <2>1. Split(x, 1, x, 0)
    BY <1>4 DEF Split
  <2>2. x \div 1 = x
    BY <2>1, Divides
  <2>3. x \div c \in Nat
    BY <1>4, Division
  <2> QED
    BY <2>2, <2>3
<1>7. Two[0] = 1
  BY TwoUnfolds
<1> QED
  BY <1>2, <1>3, <1>4, <1>5, <1>6, <1>7 DEF Below

(* One round of the step queries.                                           *)
QueryStepped(list, n, r, x) ==
    /\ x = [q \in Queries |-> xIndexes[q] \div Two[list[r]]] /\ xIndexes' = x
    /\ evaluations' = Store(evaluations, RoundRow(NumQueries, StepSizes(list), n, r),
          [i \in Queries \X (0..(Two[list[r]] - 1)) |-> At(leaves[r], x[i[1]] * Two[list[r]] + i[2])])
    /\ stepSiblings' = Store(stepSiblings, RoundRow(NumQueries, PathSizes(list), n, r),
          [i \in Queries \X (0..(StepLayers(list, r) - 1)) |->
             Node("step", r, SiblingAt(x[i[1]], StepLayers(list, r), i[2]))])

LEMMA QueryStepParts ==
    ASSUME QueryInv, QueryStep, NEW list, NEW n, NEW r, list = arities, n = NumRounds, r = round, r \in 1..n
    PROVE  \E x : QueryStepped(list, n, r, x)
<1>0. PICK x : x = [q \in Queries |-> xIndexes[q] \div Two[list[r]]]
  OBVIOUS
<1>1. list \in Reductions /\ n = Len(list)
  BY ListOf
<1>2. /\ StepSizes(list)[r] = Two[list[r]] /\ PathSizes(list)[r] = StepLayers(list, r)
      /\ ArityEnds(list) = Sums(StepSizes(list)) /\ AritySum(list) = Sums(StepSizes(list))[n]
      /\ SiblingEnds(list) = Sums(PathSizes(list)) /\ TotalStepSiblings(list) = Sums(PathSizes(list))[n]
  BY <1>1, SizesOf
<1>3. PICK t, y, w, b, u, d : /\ t = Two[list[r]] /\ y = StepLayers(list, r)
                              /\ w = AritySum(list) /\ b = ArityEnds(list)[r - 1]
                              /\ u = TotalStepSiblings(list) /\ d = SiblingEnds(list)[r - 1]
  OBVIOUS
<1>4. /\ RoundRow(NumQueries, StepSizes(list), n, r)
            = [i \in Queries \X (0..(t - 1)) |-> i[1] * w + b + i[2]]
      /\ RoundRow(NumQueries, PathSizes(list), n, r)
            = [i \in Queries \X (0..(y - 1)) |-> i[1] * u + d + i[2]]
  BY <1>2, <1>3 DEF RoundRow, Rows, Queries
<1>5. xIndexes' = x
  BY <1>0 DEF QueryStep
<1>6. evaluations' = Store(evaluations, [i \in Queries \X (0..(t - 1)) |-> i[1] * w + b + i[2]],
                           [i \in Queries \X (0..(t - 1)) |-> At(leaves[r], x[i[1]] * t + i[2])])
  BY <1>0, <1>3 DEF QueryStep, ArityAcc
<1>7. stepSiblings' = Store(stepSiblings, [i \in Queries \X (0..(y - 1)) |-> i[1] * u + d + i[2]],
                            [i \in Queries \X (0..(y - 1)) |-> Node("step", r, SiblingAt(x[i[1]], y, i[2]))])
  BY <1>0, <1>3 DEF QueryStep, SiblingsAcc
<1>8. QueryStepped(list, n, r, x)
  BY <1>0, <1>3, <1>4, <1>5, <1>6, <1>7 DEF QueryStepped
<1> QED
  BY <1>8

LEMMA QueryStepRight ==
    ASSUME BufferInv, QueryInv, CommitInv, StepInv, QueryStep PROVE StepInv'
<1>1. /\ friPhase = "steps" /\ friPhase' = "steps" /\ round <= NumRounds /\ round' = round + 1
      /\ arities' = arities /\ sampled' = sampled /\ digests' = digests
  BY DEF QueryStep, commitVars
<1>a. PICK list \in Reductions, n \in Nat \ {0} : list = arities /\ n = NumRounds /\ n = Len(list)
  BY ListOf
<1>2. PICK D, X : D = digests /\ X = Points /\ list = arities /\ n = NumRounds /\ n = Len(list)
  BY <1>a
<1>3. list = arities' /\ n = NumRounds' /\ X = Points' /\ D = digests'
  BY <1>1, <1>2 DEF NumRounds, Points, XIndex
<1>4. PICK r : r = round
  OBVIOUS
<1>5. r \in 1..n /\ r + 1 \in 1..(n + 1) /\ (r + 1) - 1 = r
  <2>1. r \in Nat \ {0} /\ r <= n
    BY <1>1, <1>2, <1>4 DEF QueryInv, QueryTypes
  <2> QED
    BY <2>1
<1>6. PICK x : QueryStepped(list, n, r, x)
  BY <1>2, <1>4, <1>5, QueryStepParts
<1>7. PICK lv, ev, sb, ev2, sb2 : /\ lv = leaves /\ ev = evaluations /\ sb = stepSiblings
                                  /\ ev2 = evaluations' /\ sb2 = stepSiblings'
  OBVIOUS
<1>8. PICK ve, vs : /\ ve = [i \in Queries \X (0..(Two[list[r]] - 1)) |-> At(lv[r], x[i[1]] * Two[list[r]] + i[2])]
                    /\ vs = [i \in Queries \X (0..(StepLayers(list, r) - 1)) |->
                               Node("step", r, SiblingAt(x[i[1]], StepLayers(list, r), i[2]))]
  OBVIOUS
<1>9. /\ xIndexes' = x /\ ev2 = Store(ev, RoundRow(NumQueries, StepSizes(list), n, r), ve)
      /\ sb2 = Store(sb, RoundRow(NumQueries, PathSizes(list), n, r), vs)
  BY <1>6, <1>7, <1>8 DEF QueryStepped
<1>10. StepMemory'
  <2>1. DOMAIN ev2 = DOMAIN ev /\ DOMAIN sb2 = DOMAIN sb
    BY <1>9, StoreDomain
  <2> QED
    BY <1>1, <1>7, <2>1, MemoryKept DEF StepInv
<1> SUFFICES /\ round' \in 1..(NumRounds' + 1) /\ StepsNow(round)'
             /\ \A q \in Queries : xIndexes'[q] = Below(Points, arities, q, round - 1)'
  BY <1>1, <1>10 DEF StepInv
<1>11. ASSUME NEW q \in Queries PROVE x[q] = Below(X, list, q, r) /\ x[q] \in Nat
  <2>1. X[q] \in Nat
    BY <1>2, PointsType DEF QueryInv
  <2>2. xIndexes[q] = Below(X, list, q, r - 1)
    BY <1>1, <1>2, <1>4 DEF StepInv
  <2>3. Below(X, list, q, r - 1) \div Two[list[r]] = Below(X, list, q, r) /\ Below(X, list, q, r) \in Nat
    BY <1>2, <1>5, <2>1, BelowNext
  <2> QED
    BY <1>6, <2>2, <2>3 DEF QueryStepped
<1>12. lv[r] = D[r]
  <2>1. PICK B : CommittedTo(B, list, n, n + 1, coefficients, leaves, digests, folded, shift)
    BY <1>1, <1>2 DEF CommitInv, CommitAt, CommitNow
  <2>2. r \in 1..((n + 1) - 1)
    BY <1>5
  <2> QED
    BY <1>2, <1>7, <2>1, <2>2 DEF CommittedTo
<1>13. EvalsTo(D, X, list, ev2, r + 1)
  <2>1. ASSUME NEW q \in Queries, NEW e \in 0..(Two[list[r]] - 1) PROVE ve[<<q, e>>] = EvalOf(D, X, list, q, r, e)
    <3>1. ve[<<q, e>>] = At(lv[r], x[q] * Two[list[r]] + e)
      BY <1>8
    <3> QED
      BY <1>11, <1>12, <3>1 DEF EvalOf
  <2>2. RowsBySize(ev, NumQueries, StepSizes(list), n) /\ EvalsTo(D, X, list, ev, r)
    BY <1>1, <1>2, <1>4, <1>7 DEF StepInv, StepMemory, StepsNow
  <2>3. EvalsStored(D, X, list, n, r, ev, ve, ev2)
    BY <1>9, <2>1, <2>2 DEF EvalsStored
  <2> QED
    BY <1>2, <1>5, <2>3, EvalsAdded
<1>14. PathsTo(X, list, sb2, r + 1)
  <2>1. PICK y \in Nat : y = StepLayers(list, r) /\ y <= LdeBits
    BY <1>2, <1>5, SizesOf
  <2>2. ASSUME NEW q \in Queries, NEW l \in 0..(StepLayers(list, r) - 1) PROVE vs[<<q, l>>] = PathOf(X, list, q, r, l)
    <3>1. vs[<<q, l>>] = Node("step", r, SiblingAt(x[q], StepLayers(list, r), l))
      BY <1>8
    <3>2. PICK z \in Nat : z = x[q]
      BY <1>11
    <3>3. SiblingAt(z, y, l) = NodeAt(y + CapHeight, l, Flip(z \div Two[l]))
      BY <2>1, FriTypes, SiblingBeside
    <3> QED
      BY <1>11, <2>1, <3>1, <3>2, <3>3 DEF PathOf
  <2>3. RowsBySize(sb, NumQueries, PathSizes(list), n) /\ PathsTo(X, list, sb, r)
    BY <1>1, <1>2, <1>4, <1>7 DEF StepInv, StepMemory, StepsNow
  <2>4. PathsStored(X, list, n, r, sb, vs, sb2)
    BY <1>9, <2>2, <2>3 DEF PathsStored
  <2> QED
    BY <1>2, <1>5, <2>4, PathsAdded
<1>15. r + 1 = round'
  BY <1>1, <1>4
<1>16. StepsNow(round)'
  BY <1>3, <1>7, <1>13, <1>14, <1>15 DEF StepsNow
<1>17. ASSUME NEW q \in Queries PROVE xIndexes'[q] = Below(Points, arities, q, round - 1)'
  BY <1>3, <1>5, <1>9, <1>11, <1>15 DEF Below
<1> QED
  BY <1>3, <1>5, <1>15, <1>16, <1>17

LEMMA StepsNowKept ==
    ASSUME UNCHANGED <<arities, sampled, digests, evaluations, stepSiblings>>, NEW r, StepsNow(r) PROVE StepsNow(r)'
<1>1. Points' = Points
  BY DEF Points, XIndex
<1> QED
  BY <1>1 DEF StepsNow

LEMMA InitialReduced ==
    ASSUME QueryInv, InitialProof, NEW q \in Queries PROVE xIndexes'[q] = XIndex(q)'
<1>1. xIndexes'[q] = xIndexes[q] % Two[LdeBits] /\ friPhase = "initial" /\ sampled' = sampled
  BY DEF InitialProof
<1>2. xIndexes[q] % Two[LdeBits] = XIndex(q)
  BY <1>1 DEF QueryInv, InitialInv
<1> QED
  BY <1>1, <1>2 DEF XIndex

LEMMA StepsBegin ==
    ASSUME BufferInv, QueryInv, StepInv, InitialDone PROVE StepInv'
<1>1. /\ friPhase = "initial" /\ round > 4 /\ friPhase' = "steps" /\ round' = 1
      /\ UNCHANGED <<arities, sampled, xIndexes, evaluations, stepSiblings>>
  BY DEF InitialDone, queryVars
<1>a. PICK list \in Reductions, n \in Nat \ {0} : list = arities /\ n = NumRounds /\ n = Len(list)
  BY ListOf
<1>2. PICK X : X = Points /\ list = arities /\ n = NumRounds /\ n = Len(list)
  BY <1>a
<1>3. list = arities' /\ n = NumRounds' /\ X = Points'
  BY <1>1, <1>2 DEF NumRounds, Points, XIndex
<1>4. StepMemory'
  BY <1>1, MemoryKept DEF StepInv
<1>5. \A q \in Queries : xIndexes[q] = XIndex(q)
  <2>1. round \in 1..5
    BY <1>1 DEF QueryInv, InitialInv
  <2>2. round > 1
    BY <1>1, <2>1
  <2> QED
    BY <1>1, <2>2 DEF StepInv
<1>6. ASSUME NEW q \in Queries PROVE xIndexes[q] = Below(X, list, q, 0)
  <2>1. X[q] = XIndex(q) /\ X[q] \in Nat
    BY <1>2, PointsType DEF QueryInv
  <2>2. 1 \in 1..n
    OBVIOUS
  <2>3. Below(X, list, q, 0) = X[q]
    BY <1>2, <2>1, <2>2, BelowNext
  <2> QED
    BY <1>5, <2>1, <2>3
<1>7. 1 - 1 = 0 /\ 1..0 = {} /\ 1 \in 1..(n + 1)
  OBVIOUS
<1>8. StepsNow(1)'
  BY <1>7 DEF StepsNow, EvalsTo, PathsTo
<1>9. StepsNow(round)'
  BY <1>1, <1>8 DEF StepsNow
<1>10. ASSUME NEW q \in Queries PROVE xIndexes'[q] = Below(Points, arities, q, round - 1)'
  BY <1>1, <1>3, <1>6, <1>7 DEF Below
<1> QED
  BY <1>1, <1>3, <1>4, <1>7, <1>9, <1>10 DEF StepInv

LEMMA StepsEnd ==
    ASSUME QueryInv, StepInv, QueriesDone PROVE StepInv'
<1>1. /\ friPhase = "steps" /\ round > NumRounds /\ friPhase' = "assemble"
      /\ UNCHANGED <<arities, sampled, digests, xIndexes, evaluations, stepSiblings>>
  BY DEF QueriesDone, queryVars, commitVars
<1>2. StepMemory'
  BY <1>1, MemoryKept DEF StepInv
<1>3. PICK n \in Nat : n = NumRounds /\ n = NumRounds'
  BY <1>1, ListOf DEF NumRounds
<1>4. StepsNow(NumRounds + 1)'
  <2>1. round \in 1..(n + 1) /\ round > n /\ StepsNow(round)
    BY <1>1, <1>3 DEF StepInv
  <2>2. PICK m : m = n + 1
    OBVIOUS
  <2>3. round = m
    BY <2>1, <2>2
  <2>4. StepsNow(m)'
    BY <1>1, <2>1, <2>3, StepsNowKept
  <2> QED
    BY <1>3, <2>2, <2>4 DEF StepsNow
<1> QED
  BY <1>1, <1>2, <1>4 DEF StepInv

LEMMA StepKept ==
    ASSUME BufferInv, QueryInv, CommitInv, StepInv, [ProofNext]_proofVars PROVE StepInv'
<1>1. CASE UNCHANGED proofVars
  <2>1. UNCHANGED <<arities, sampled, digests, xIndexes, evaluations, stepSiblings, friPhase, round>>
    BY <1>1 DEF proofVars, friVars, queryVars, commitVars
  <2>2. StepMemory'
    BY <2>1, MemoryKept DEF StepInv
  <2>3. NumRounds' = NumRounds /\ Points' = Points /\ \A q : XIndex(q)' = XIndex(q)
    BY <2>1 DEF NumRounds, Points, XIndex
  <2>4. StepsNow(round)' = StepsNow(round) /\ StepsNow(NumRounds + 1)' = StepsNow(NumRounds + 1)
    BY <2>1, <2>3 DEF StepsNow
  <2>5. \A q : Below(Points, arities, q, round - 1)' = Below(Points, arities, q, round - 1)
    BY <2>1, <2>3 DEF Below
  <2> QED
    BY <2>1, <2>2, <2>3, <2>4, <2>5 DEF StepInv
<1>2. CASE BufferStep /\ UNCHANGED friVars
  <2>1. friPhase' = "final_poly" /\ UNCHANGED <<arities, evaluations, stepSiblings>>
    BY <1>2, BufferPhases DEF QueryInv, QueryTypes, friVars, queryVars
  <2>2. StepMemory'
    BY <2>1, MemoryKept DEF StepInv
  <2> QED
    BY <2>1, <2>2 DEF StepInv
<1>3. CASE phase = "open" /\ FriStep /\ UNCHANGED vars
  <2>1. CASE FinalPoly \/ CommitRound \/ SampleQueries
    <3>1. /\ UNCHANGED <<arities, evaluations, stepSiblings>>
          /\ friPhase' = "commit" \/ (friPhase' = "initial" /\ round' = 1)
      BY <2>1 DEF FinalPoly, CommitRound, SampleQueries, queryVars
    <3>2. StepMemory'
      BY <3>1, MemoryKept DEF StepInv
    <3> QED
      BY <3>1, <3>2 DEF StepInv
  <2>2. CASE InitialProof
    <3>1. UNCHANGED <<arities, evaluations, stepSiblings>> /\ friPhase' = "initial"
      BY <2>2 DEF InitialProof
    <3>2. StepMemory'
      BY <3>1, MemoryKept DEF StepInv
    <3>3. \A q \in Queries : xIndexes'[q] = XIndex(q)'
      BY <2>2, InitialReduced
    <3> QED
      BY <3>1, <3>2, <3>3 DEF StepInv
  <2> QED
    BY <1>3, <2>1, <2>2, StepsBegin, StepsEnd, QueryStepRight DEF FriStep
<1>4. CASE ReturnProof
  <2>1. friPhase' = "final_poly" /\ UNCHANGED <<arities, evaluations, stepSiblings>>
    BY <1>4 DEF ReturnProof, queryVars
  <2>2. StepMemory'
    BY <2>1, MemoryKept DEF StepInv
  <2> QED
    BY <2>1, <2>2 DEF StepInv
<1> QED
  BY <1>1, <1>2, <1>3, <1>4 DEF ProofNext

---------------------------------------------------------------------------
(* What get_fri_proof assembles of the rounds.                              *)
LEMMA Refolded ==
    ASSUME NEW B, NEW f, NEW g PROVE [ExtPoly(B, f) EXCEPT !.folds = g] = ExtPoly(B, g)
BY FoldsReplaced, Zenon DEF ExtPoly

LEMMA CapAt ==
    ASSUME NEW under \in Nat, CapHeight \in Nat, CapHeight <= under
    PROVE  CapOffset(under) = NodeAt(under, under - CapHeight, 0)
<1>1. under + 1 \in Nat /\ (under + 1) - 1 = under /\ under + 1 # 0
  OBVIOUS
<1>2. CapHeight + 1 \in Nat /\ (CapHeight + 1) - 1 = CapHeight /\ CapHeight + 1 # 0
  OBVIOUS
<1>3. Two[under + 1] = 2 * Two[under] /\ Two[CapHeight + 1] = 2 * Two[CapHeight]
  BY <1>1, <1>2, TwoUnfolds
<1>4. (under + 1) - (under - CapHeight) = CapHeight + 1
  OBVIOUS
<1>5. PICK a, b \in Nat : a = Two[under] /\ b = Two[CapHeight]
  BY TwoPositive
<1>6. 2 * a - 2 * b = 2 * a - 2 * b + 0
  OBVIOUS
<1> QED
  BY <1>3, <1>4, <1>5, <1>6 DEF CapOffset, NodeAt

(* The evaluations and paths get_fri_proof takes from the results.          *)
StepsTaken(D, X, list, n, q) ==
    \A k \in 1..n :
        /\ StepEvals(q, k) = [e \in 0..(Two[list[k]] - 1) |-> EvalOf(D, X, list, q, k, e)]
        /\ StepPath(q, k) = [l \in 0..(StepLayers(list, k) - 1) |-> PathOf(X, list, q, k, l)]

LEMMA StepsRead ==
    ASSUME QueryInv, StepInv, friPhase = "assemble", NEW q \in Queries,
           NEW list, list = arities, NEW n, n = NumRounds, NEW X, X = Points, NEW D, D = digests
    PROVE  StepsTaken(D, X, list, n, q)
<1>1. n \in Nat
  BY ListOf
<1>2. (n + 1) - 1 = n
  BY <1>1
<1>3. EvalsTo(D, X, list, evaluations, n + 1) /\ PathsTo(X, list, stepSiblings, n + 1)
  BY DEF StepInv, StepsNow
<1>4. ASSUME NEW k \in 1..n
      PROVE  /\ \A e \in 0..(Two[list[k]] - 1) :
                   evaluations[q * AritySum(list) + ArityEnds(list)[k - 1] + e] = EvalOf(D, X, list, q, k, e)
             /\ \A l \in 0..(StepLayers(list, k) - 1) :
                   stepSiblings[q * TotalStepSiblings(list) + SiblingEnds(list)[k - 1] + l]
                      = PathOf(X, list, q, k, l)
  BY <1>2, <1>3 DEF EvalsTo, PathsTo
<1>5. ASSUME NEW k \in 1..n
      PROVE  StepEvals(q, k) = [e \in 0..(Two[list[k]] - 1) |-> EvalOf(D, X, list, q, k, e)]
  BY <1>4 DEF StepEvals, ArityAcc
<1>6. ASSUME NEW k \in 1..n
      PROVE  StepPath(q, k) = [l \in 0..(StepLayers(list, k) - 1) |-> PathOf(X, list, q, k, l)]
  BY <1>4 DEF StepPath, SiblingsAcc
<1> QED
  BY <1>5, <1>6 DEF StepsTaken

(* The layers under a round, as the prover and the verifier count them.     *)
LEMMA Under ==
    ASSUME NEW list \in Reductions, NEW n, n = Len(list), NEW k \in 1..n, NEW under,
           under = LdeBits - BitsFolded(list, k)
    PROVE  /\ under \in Nat /\ CapHeight \in Nat /\ CapHeight <= under
           /\ StepLayers(list, k) = under - CapHeight /\ StepLayers(list, k) + CapHeight = under
<1>1. PICK a, c, h, m \in Nat : /\ a = BitsFolded(list, k) /\ c = LdeBits /\ h = CapHeight
                                /\ m = NumLayers /\ m + h = c /\ a <= m
  <2>1. n \in Nat /\ k \in 0..n
    BY ListFacts
  <2> QED
    BY <2>1, ListFacts, LayersType, FriTypes
<1> QED
  BY <1>1 DEF StepLayers

LEMMA RoundOpened ==
    ASSUME QueryInv, StepInv, friPhase = "assemble", NEW q \in Queries,
           NEW list \in Reductions, list = arities, NEW n, n = NumRounds, n = Len(list), NEW k \in 1..n,
           NEW under, under = LdeBits - BitsFolded(list, k), NEW x, x = StepIndex(q, k) \div Two[list[k]]
    PROVE  /\ PathOk(StepPath(q, k), "step", k, x, under - CapHeight)
           /\ \A e \in 0..(Two[list[k]] - 1) : StepEvals(q, k)[e] = At(digests[k], x * Two[list[k]] + e)
<1>1. PICK D, X : D = digests /\ X = Points
  OBVIOUS
<1>2. X[q] \in Nat /\ X[q] = XIndex(q)
  BY <1>1, PointsType DEF QueryInv
<1>3. x = Below(X, list, q, k)
  <2>1. StepIndex(q, k) = Below(X, list, q, k - 1)
    BY <1>2 DEF StepIndex, Below
  <2> QED
    BY <1>2, <2>1, BelowNext
<1>4. /\ StepEvals(q, k) = [e \in 0..(Two[list[k]] - 1) |-> EvalOf(D, X, list, q, k, e)]
      /\ StepPath(q, k) = [l \in 0..(StepLayers(list, k) - 1) |-> PathOf(X, list, q, k, l)]
  BY <1>1, StepsRead DEF StepsTaken
<1>5. StepLayers(list, k) = under - CapHeight /\ StepLayers(list, k) + CapHeight = under
  BY Under
<1>6. (under - CapHeight) + CapHeight = under
  BY <1>5
<1>7. PathOk(StepPath(q, k), "step", k, x, under - CapHeight)
  BY <1>3, <1>4, <1>5, <1>6 DEF PathOk, PathOf
<1> QED
  BY <1>1, <1>3, <1>4, <1>7 DEF EvalOf

LEMMA FoldsOpened ==
    ASSUME QueryInv, CommitInv, CapInv, StepInv PROVE StepsOpenFolds
<1> SUFFICES ASSUME friPhase = "assemble" PROVE StepsOpenFolds
  BY DEF StepsOpenFolds
<1>1. PICK list \in Reductions, n \in Nat \ {0} : list = arities /\ n = NumRounds /\ n = Len(list) /\ Rounds = 1..n
  BY ListOf
<1>2. PICK c, dg, fd : c = coefficients /\ dg = digests /\ fd = folded
  OBVIOUS
<1>3. PICK B : Opened(B) /\ CommittedTo(B, list, n, n + 1, c, leaves, dg, fd, shift)
  BY <1>1, <1>2 DEF CommitInv, CommitAt, CommitNow
<1>4. c = ExtPoly(B, <<>>)
  BY <1>3, NoFolds DEF CommittedTo
<1>5. \E held \in {<<>>, <<Stale>>} : c = ExtPoly(held \o Instance.batches, <<>>)
  BY <1>3, <1>4 DEF Opened
<1>6. ASSUME NEW k \in 1..(n + 1) PROVE [c EXCEPT !.folds = FoldsBefore(k)] = PolyOf(B, list, k - 1)
  <2>1. FoldsBefore(k) = Folds(list, k - 1)
    BY <1>1 DEF FoldsBefore, Folds
  <2> QED
    BY <1>4, <2>1, Refolded DEF PolyOf
<1>7. fd[n] = [c EXCEPT !.folds = FoldsBefore(n + 1)]
  <2>1. n \in 1..((n + 1) - 1) /\ n + 1 \in 1..(n + 1) /\ (n + 1) - 1 = n
    OBVIOUS
  <2>2. fd[n] = PolyOf(B, list, n)
    BY <1>3, <2>1 DEF CommittedTo
  <2> QED
    BY <1>6, <2>1, <2>2
<1>8. ASSUME NEW k \in 1..n
      PROVE  /\ dg[k].rep \in {"lde", "overlaid"}
             /\ dg[k] = Layer(dg[k].rep, [c EXCEPT !.folds = FoldsBefore(k)], Two[BitsFolded(list, k - 1)],
                              LdeBits - BitsFolded(list, k - 1))
  <2>1. k \in 1..((n + 1) - 1) /\ k <= n + 1 /\ k \in 1..(n + 1)
    OBVIOUS
  <2>2. IsLayer(dg[k], B, list, k)
    BY <1>3, <2>1 DEF CommittedTo
  <2>3. PICK rep \in {"lde", "overlaid"} : dg[k] = LayerOf(rep, B, list, k)
    BY <2>2 DEF IsLayer
  <2>4. dg[k].rep = rep
    BY <2>3 DEF LayerOf, Layer
  <2> QED
    BY <1>6, <2>1, <2>3, <2>4 DEF LayerOf
<1>9. ASSUME NEW k \in 1..n, proves = 1
      PROVE  caps[k] = [layer |-> dg[k], first |-> NodeAt(LdeBits - BitsFolded(list, k),
                                                         (LdeBits - BitsFolded(list, k)) - CapHeight, 0)]
  <2>1. caps = CapsTo(dg, list, (n + 1) - 1) /\ (n + 1) - 1 = n
    BY <1>1, <1>2, <1>9 DEF CapInv, CapsNow
  <2>2. caps[k] = CapOf(dg, list, k)
    BY <2>1 DEF CapsTo
  <2>3. PICK under : under = LdeBits - BitsFolded(list, k)
    OBVIOUS
  <2>4. under \in Nat /\ CapHeight \in Nat /\ CapHeight <= under
    BY <1>1, <2>3, Under
  <2>5. CapOffset(under) = NodeAt(under, under - CapHeight, 0)
    BY <2>4, CapAt
  <2> QED
    BY <2>2, <2>3, <2>5 DEF CapOf
<1>10. ASSUME NEW k \in 1..n, NEW q \in Queries
       PROVE  /\ PathOk(StepPath(q, k), "step", k, StepIndex(q, k) \div Two[list[k]],
                        (LdeBits - BitsFolded(list, k)) - CapHeight)
              /\ \A e \in 0..(Two[list[k]] - 1) :
                   StepEvals(q, k)[e] = At(dg[k], (StepIndex(q, k) \div Two[list[k]]) * Two[list[k]] + e)
  <2>1. PICK under, x : under = LdeBits - BitsFolded(list, k) /\ x = StepIndex(q, k) \div Two[list[k]]
    OBVIOUS
  <2>2. /\ PathOk(StepPath(q, k), "step", k, x, under - CapHeight)
        /\ \A e \in 0..(Two[list[k]] - 1) : StepEvals(q, k)[e] = At(digests[k], x * Two[list[k]] + e)
    BY <1>1, <2>1, RoundOpened
  <2> QED
    BY <1>2, <2>1, <2>2
<1>11. ASSUME NEW k \in Rounds PROVE LayerCommitted(k) /\ \A q \in Queries : LayerOpened(q, k)
  <2>1. LayerCommitted(k)
    BY <1>1, <1>2, <1>8, <1>9 DEF LayerCommitted
  <2>2. ASSUME NEW q \in Queries PROVE LayerOpened(q, k)
    BY <1>1, <1>2, <1>10 DEF LayerOpened
  <2> QED
    BY <2>1, <2>2
<1> QED
  BY <1>1, <1>2, <1>5, <1>7, <1>11 DEF StepsOpenFolds, FinalCoefficients

(* In every prove, for every layout, degree, list of reductions and choice  *)
(* of queries, and on whatever memory held: every tree of the commit phase  *)
(* is of the fold, by the rounds before it, of the polynomial that the      *)
(* openings were accumulated in, on the coset and of the size the verifier  *)
(* takes it for; what the query kernels store, at places they compute from  *)
(* sums over the rounds and in memory all queries share, are its values     *)
(* where the verifier looks and the path beside them; the last fold is what *)
(* is sent, and the caps of a first prove are those of the trees.           *)
THEOREM StepsOpen == ProofSpec => []StepsOpenFolds
<1> DEFINE IInv == BufferInv /\ QueryInv /\ CommitInv /\ CapInv /\ StepInv
<1>1. ProofInit => IInv
  BY BufferInit, InitQueries, InitCommit, InitCaps, InitSteps
<1>2. IInv /\ [ProofNext]_proofVars => IInv'
  BY BufferKept, QueryKept, CommitKept, CapsKept, StepKept
<1>3. IInv => StepsOpenFolds
  BY FoldsOpened
<1> QED
  BY <1>1, <1>2, <1>3, PTL DEF ProofSpec
=============================================================================
