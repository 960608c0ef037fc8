------------------------ MODULE ProverTranscript_proofs ------------------------
(***************************************************************************)
(* Proofs about the prover's transcript, for every configuration and every *)
(* sponge: the host's prediction of the challenger's indices is right at   *)
(* every call, the proof of work is done on the transcript's own state,    *)
(* and every step is a step of the verifier or none.                       *)
(***************************************************************************)
EXTENDS ProverTranscript, DataInduction, SequenceTheorems

-----------------------------------------------------------------------------
(***************************************************************************)
(* What a list of calls does to the host's indices.  Between two calls the *)
(* host is in a mode: at the start; after the first digest, with half a    *)
(* block of input and the outputs counted as full; with any input waiting  *)
(* ("open") or none ("clear"); after the search for the witness; after the *)
(* witness; and past the proof of work.                                    *)
(***************************************************************************)
Mode == {"start", "digest", "open", "clear", "ground", "witness", "end"}

Name ==
  {"circuit_digest", "public_inputs_hash", "wires", "beta", "gamma", "partial_products",
   "alpha", "quotients", "zeta", "opening", "fri_alpha", "fri", "fri_beta", "final_poly",
   "pow_witness", "pow_response", "query"}

Item == Name \X Nat \X Nat

CallSet ==
  [op : {"observe"}, message : Seq(Item), len : Nat]
  \cup [op : {"get"}, name : Name, r : Nat, n : Nat]
  \cup {[op |-> "grind"]}

PowWitness == <<"pow_witness", 0, 1>>

\* A message and its buffer: as long up to a multiple of the rate.
Padded(x) ==
  /\ x.op = "observe"
  /\ Len(x.message) \in Nat \ {0} /\ x.len \in Nat
  /\ x.len >= Len(x.message) /\ x.len % 8 = Len(x.message) % 8

Draws(x) == x.op = "get" /\ x.n \in Nat \ {0}

\* Call x may be made in mode p and leads to mode q.
Takes(x, p, q) ==
  \/ Padded(x) /\ x.len = 4 /\ p = "start" /\ q = "digest"
  \/ Padded(x) /\ x.len = 4 /\ p = "digest" /\ q = "open"
  \/ Padded(x) /\ p = "clear" /\ q = "open"
  \/ Padded(x) /\ x.len >= 8 /\ p = "open" /\ q = "open"
  \/ Padded(x) /\ x.len >= 8 /\ x.len % 8 = 0 /\ p = "clear" /\ q = "clear"
  \/ Draws(x) /\ x.name # "pow_response" /\ p \in {"open", "clear"} /\ q = "clear"
  \/ x.op = "grind" /\ p = "clear" /\ q = "ground"
  \/ Padded(x) /\ x.message = <<PowWitness>> /\ x.len = 1 /\ p = "ground" /\ q = "witness"
  \/ x.op = "get" /\ x.name = "pow_response" /\ x.n = 1 /\ p = "witness" /\ q = "end"
  \/ Draws(x) /\ x.name # "pow_response" /\ p = "end" /\ q = "end"

\* The modes mu lead through the calls s.
Leads(s, mu) ==
  /\ mu \in [0 .. Len(s) -> Mode]
  /\ \A k \in 1 .. Len(s) : Takes(s[k], mu[k - 1], mu[k])

Passes(s, p, q) ==
  /\ s \in Seq(CallSet)
  /\ \E mu : Leads(s, mu) /\ mu[0] = p /\ mu[Len(s)] = q

LEMMA PassesOne ==
  ASSUME NEW x \in CallSet, NEW p \in Mode, NEW q \in Mode, Takes(x, p, q)
  PROVE  Passes(<<x>>, p, q)
<1> DEFINE mu == [k \in 0 .. 1 |-> IF k = 0 THEN p ELSE q]
<1>1. <<x>> \in Seq(CallSet) /\ Len(<<x>>) = 1 /\ <<x>>[1] = x
  OBVIOUS
<1>2. mu \in [0 .. 1 -> Mode] /\ mu[0] = p /\ mu[1] = q
  OBVIOUS
<1>3. \A k \in 1 .. 1 : k = 1 /\ k - 1 = 0
  OBVIOUS
<1> HIDE DEF mu
<1>4. Leads(<<x>>, mu)
  BY <1>1, <1>2, <1>3 DEF Leads
<1> QED
  BY <1>1, <1>2, <1>4 DEF Passes

LEMMA PassesConcat ==
  ASSUME NEW s, NEW t, NEW p, NEW q, NEW r, Passes(s, p, q), Passes(t, q, r)
  PROVE  Passes(s \o t, p, r)
<1>1. PICK mu : Leads(s, mu) /\ mu[0] = p /\ mu[Len(s)] = q
  BY DEF Passes
<1>2. PICK nu : Leads(t, nu) /\ nu[0] = q /\ nu[Len(t)] = r
  BY DEF Passes
<1>3. PICK m, n : m = Len(s) /\ n = Len(t)
  OBVIOUS
<1>4. /\ s \in Seq(CallSet) /\ t \in Seq(CallSet) /\ m \in Nat /\ n \in Nat
      /\ s \o t \in Seq(CallSet) /\ Len(s \o t) = m + n
  BY <1>3, ConcatProperties, LenProperties DEF Passes
<1>5. \A i \in 1 .. m + n : (s \o t)[i] = IF i <= m THEN s[i] ELSE t[i - m]
  BY <1>3, <1>4, ConcatProperties
<1> DEFINE om == [k \in 0 .. m + n |-> IF k <= m THEN mu[k] ELSE nu[k - m]]
<1>6. mu \in [0 .. m -> Mode] /\ nu \in [0 .. n -> Mode] /\ mu[m] = nu[0]
  BY <1>1, <1>2, <1>3 DEF Leads
<1>7. om \in [0 .. m + n -> Mode]
  <2> SUFFICES ASSUME NEW k \in 0 .. m + n
               PROVE  (IF k <= m THEN mu[k] ELSE nu[k - m]) \in Mode
    OBVIOUS
  <2>1. CASE k <= m
    BY <1>4, <1>6, <2>1
  <2>2. CASE ~ (k <= m)
    <3>1. k - m \in 0 .. n
      BY <1>4, <2>2
    <3> QED
      BY <1>6, <2>2, <3>1
  <2> QED
    BY <2>1, <2>2
<1>8. om[0] = p /\ om[m + n] = r
  <2>1. om[0] = mu[0]
    BY <1>4
  <2>2. CASE n = 0
    BY <1>1, <1>2, <1>3, <1>4, <2>1, <2>2
  <2>3. CASE n # 0
    <3>1. ~ (m + n <= m) /\ (m + n) - m = n /\ m + n \in 0 .. m + n
      BY <1>4, <2>3
    <3>2. om[m + n] = nu[n]
      BY <3>1
    <3> QED
      BY <1>1, <1>2, <1>3, <2>1, <3>2
  <2> QED
    BY <2>2, <2>3
<1>9. ASSUME NEW k \in 1 .. m + n PROVE Takes((s \o t)[k], om[k - 1], om[k])
  <2>1. CASE k <= m
    <3>1. k \in 1 .. m /\ om[k] = mu[k] /\ om[k - 1] = mu[k - 1] /\ (s \o t)[k] = s[k]
      BY <1>4, <1>5, <2>1
    <3>2. Takes(s[k], mu[k - 1], mu[k])
      BY <1>1, <1>3, <3>1 DEF Leads
    <3> HIDE DEF om
    <3> QED
      BY <3>1, <3>2
  <2>2. CASE ~ (k <= m)
    <3>1. k - m \in 1 .. n /\ (k - m) - 1 = (k - 1) - m /\ k \in 0 .. m + n /\ k - 1 \in 0 .. m + n
      BY <1>4, <2>2
    <3>2. om[k] = nu[k - m] /\ (s \o t)[k] = t[k - m]
      BY <1>5, <2>2, <3>1
    <3>3. om[k - 1] = nu[(k - m) - 1]
      <4>1. CASE k = m + 1
        <5>1. k - 1 = m /\ k - 1 <= m /\ (k - m) - 1 = 0
          BY <1>4, <4>1
        <5> QED
          BY <1>6, <3>1, <5>1
      <4>2. CASE k # m + 1
        <5>1. ~ (k - 1 <= m)
          BY <1>4, <2>2, <4>2
        <5> QED
          BY <3>1, <5>1
      <4> QED
        BY <4>1, <4>2
    <3>4. Takes(t[k - m], nu[(k - m) - 1], nu[k - m])
      BY <1>2, <1>3, <3>1 DEF Leads
    <3> HIDE DEF om
    <3> QED
      BY <3>2, <3>3, <3>4
  <2> QED
    BY <2>1, <2>2
<1> HIDE DEF om
<1>10. Leads(s \o t, om)
  BY <1>4, <1>7, <1>9 DEF Leads
<1> QED
  BY <1>4, <1>8, <1>10 DEF Passes

LEMMA PassesThree ==
  ASSUME NEW s, NEW t, NEW u, NEW p, NEW q, NEW r, NEW v,
         Passes(s, p, q), Passes(t, q, r), Passes(u, r, v)
  PROVE  Passes(s \o t \o u, p, v)
<1>1. Passes(s \o t, p, r)
  BY PassesConcat
<1> QED
  BY <1>1, PassesConcat

\* A loop whose every turn leads from p back to p does so as a whole.
LEMMA PassesFlatten ==
  ASSUME NEW n \in Nat \ {0}, NEW s \in [1 .. n -> Seq(CallSet)], NEW p,
         \A i \in 1 .. n : Passes(s[i], p, p)
  PROVE  Passes(FlattenSeq(s), p, p)
<1>1. Len(s) = n
  BY LenProperties
<1> DEFINE V == Seq(CallSet)
           Cat(v, i) == v \o s[i]
           g == [x \in (1 .. n) \X V |-> Cat(x[2], x[1])]
<1>2. <<>> \in V /\ \A i \in 1 .. n, v \in V : Cat(v, i) \in V
  BY ConcatProperties
<1>3. Cat(<<>>, 1) = s[1]
  <2>1. s[1] \in Seq(CallSet)
    OBVIOUS
  <2> QED
    BY <2>1, ConcatEmptySeq
<1> DEFINE Flat(h) == h = [i \in 1 .. n |-> IF i = 1 THEN s[i] ELSE Cat(h[i - 1], i)]
           flat == CHOOSE h : Flat(h)
<1>4. FlattenSeq(s) = flat[n]
  BY <1>1, Zenon DEF FlattenSeq
<1>5. \A v, i : Cat(v, i) = v \o s[i]
  OBVIOUS
<1> HIDE DEF V, Cat
<1>6. g \in [(1 .. n) \X V -> V] /\ \A i \in 1 .. n, v \in V : g[<<i, v>>] = Cat(v, i)
  BY <1>2
<1> HIDE DEF g
<1>7. PICK f \in [0 .. n -> V] : Recursion(f, n, <<>>, g)
  BY <1>2, <1>6, RecursionExists
<1>8. f[0] = <<>> /\ \A i \in 1 .. n : f[i] = Cat(f[i - 1], i)
  <2>1. f[0] = <<>> /\ \A i \in 1 .. n : f[i] = g[<<i, f[i - 1]>>]
    BY <1>7, RecursionUnfolds
  <2>2. \A i \in 1 .. n : i - 1 \in 0 .. n /\ f[i - 1] \in V
    BY <1>7
  <2> QED
    BY <1>6, <2>1, <2>2
<1> DEFINE h0 == [i \in 1 .. n |-> f[i]]
<1>9. Flat(h0)
  <2> SUFFICES ASSUME NEW i \in 1 .. n
               PROVE  f[i] = IF i = 1 THEN s[i] ELSE Cat(h0[i - 1], i)
    OBVIOUS
  <2>1. CASE i = 1
    BY <1>3, <1>8, <2>1
  <2>2. CASE i # 1
    <3>1. i - 1 \in 1 .. n
      BY <2>2
    <3>2. h0[i - 1] = f[i - 1]
      BY <3>1
    <3> HIDE DEF h0
    <3> QED
      BY <1>8, <2>2, <3>2
  <2> QED
    BY <2>1, <2>2
<1>10. Flat(flat)
  <2> HIDE DEF Flat, h0
  <2>1. \E h : Flat(h)
    BY <1>9
  <2> QED
    BY <2>1, Zenon
<1> HIDE DEF flat
<1>11. \A i \in 1 .. n : flat[i] = IF i = 1 THEN s[i] ELSE Cat(flat[i - 1], i)
  BY <1>10
<1> DEFINE S == {i \in 0 .. n : i = 0 \/ Passes(flat[i], p, p)}
<1>12. 0 \in S
  OBVIOUS
<1>13. ASSUME NEW i \in 0 .. n - 1, i \in S PROVE i + 1 \in S
  <2>1. i + 1 \in 1 .. n /\ (i + 1) - 1 = i
    OBVIOUS
  <2>2. CASE i = 0
    <3>1. flat[i + 1] = s[i + 1]
      BY <1>11, <2>1, <2>2
    <3> QED
      BY <2>1, <3>1
  <2>3. CASE i # 0
    <3>1. flat[i + 1] = Cat(flat[i], i + 1)
      BY <1>11, <2>1, <2>3
    <3>2. Passes(flat[i], p, p) /\ Passes(s[i + 1], p, p)
      BY <1>13, <2>1, <2>3
    <3>3. Passes(flat[i] \o s[i + 1], p, p)
      BY <3>2, PassesConcat
    <3>4. Passes(flat[i + 1], p, p)
      BY <1>5, <3>1, <3>3
    <3> QED
      BY <2>1, <3>4
  <2> QED
    BY <2>2, <2>3
<1> HIDE DEF S
<1>14. n \in S
  <2>1. n \in Nat /\ n \in 0 .. n
    OBVIOUS
  <2>2. 0 .. n \subseteq S
    BY <1>12, <1>13, <2>1, UpTo
  <2> QED
    BY <2>1, <2>2
<1> QED
  BY <1>4, <1>14 DEF S

-----------------------------------------------------------------------------
(***************************************************************************)
(* The lengths of the prover's messages and buffers.                       *)
(***************************************************************************)
LEMMA NumberedSeq ==
  ASSUME NEW name \in Name, NEW r \in Nat, NEW n \in Nat
  PROVE  Numbered(name, r, n) \in Seq(Item) /\ Len(Numbered(name, r, n)) = n
<1>1. \A j \in 1 .. n : <<name, r, j>> \in Item
  <2> TAKE j \in 1 .. n
  <2>1. name \in Name /\ r \in Nat /\ j \in Nat
    OBVIOUS
  <2> QED
    BY <2>1 DEF Item
<1>2. Numbered(name, r, n) \in [1 .. n -> Item]
  BY <1>1 DEF Numbered
<1> HIDE DEF Numbered
<1>3. Numbered(name, r, n) \in Seq(Item)
  BY <1>2, SeqDef
<1>4. DOMAIN Numbered(name, r, n) = 1 .. n
  BY <1>2
<1>5. PICK s : s = Numbered(name, r, n)
  OBVIOUS
<1>6. s \in Seq(Item) /\ DOMAIN s = 1 .. n
  BY <1>3, <1>4, <1>5
<1>7. Len(s) \in Nat /\ DOMAIN s = 1 .. Len(s)
  BY <1>6
<1>8. Len(s) = n
  BY <1>6, <1>7
<1> QED
  BY <1>3, <1>5, <1>8

\* An observe of n elements in a buffer of len, and a draw of n challenges.
LEMMA ObserveSound ==
  ASSUME NEW name \in Name, NEW r \in Nat, NEW n \in Nat \ {0}, NEW len \in Nat,
         len >= n, len % 8 = n % 8,
         NEW x, x = [op |-> "observe", message |-> Numbered(name, r, n), len |-> len]
  PROVE  /\ x \in CallSet /\ Padded(x) /\ x.len = len
         /\ ObserveCall(Numbered(name, r, n), len) = <<x>>
<1>1. Numbered(name, r, n) \in Seq(Item) /\ Len(Numbered(name, r, n)) = n
  BY NumberedSeq
<1>2. x \in CallSet /\ x.len = len /\ x.op = "observe" /\ x.message = Numbered(name, r, n)
  BY <1>1 DEF CallSet
<1> QED
  BY <1>1, <1>2 DEF Padded, ObserveCall

LEMMA PassesObserve ==
  ASSUME NEW name \in Name, NEW r \in Nat, NEW n \in Nat \ {0}, NEW len \in Nat,
         len >= n, len % 8 = n % 8,
         NEW p \in Mode, NEW q \in Mode,
         \/ len = 4 /\ p = "start" /\ q = "digest"
         \/ len = 4 /\ p = "digest" /\ q = "open"
         \/ p = "clear" /\ q = "open"
         \/ len >= 8 /\ p = "open" /\ q = "open"
         \/ len >= 8 /\ len % 8 = 0 /\ p = "clear" /\ q = "clear"
  PROVE  Passes(ObserveCall(Numbered(name, r, n), len), p, q)
<1>1. PICK x : x = [op |-> "observe", message |-> Numbered(name, r, n), len |-> len]
  OBVIOUS
<1>2. /\ x \in CallSet /\ Padded(x) /\ x.len = len
      /\ ObserveCall(Numbered(name, r, n), len) = <<x>>
  BY <1>1, ObserveSound
<1>3. Takes(x, p, q)
  BY <1>2 DEF Takes
<1> QED
  BY <1>2, <1>3, PassesOne

LEMMA PassesGet ==
  ASSUME NEW name \in Name, NEW r \in Nat, NEW n \in Nat \ {0},
         NEW p \in Mode, NEW q \in Mode,
         \/ name # "pow_response" /\ p \in {"open", "clear"} /\ q = "clear"
         \/ name # "pow_response" /\ p = "end" /\ q = "end"
         \/ name = "pow_response" /\ n = 1 /\ p = "witness" /\ q = "end"
  PROVE  Passes(GetCall(name, r, n), p, q)
<1>1. PICK x : x = [op |-> "get", name |-> name, r |-> r, n |-> n]
  OBVIOUS
<1>2. x \in CallSet /\ x.op = "get" /\ x.name = name /\ x.n = n /\ GetCall(name, r, n) = <<x>>
  BY <1>1 DEF CallSet, GetCall
<1>3. Takes(x, p, q)
  BY <1>2 DEF Takes, Draws
<1> QED
  BY <1>2, <1>3, PassesOne

LEMMA PassesProofOfWork == Passes(ProofOfWork, "clear", "end")
<1>1. Passes(GrindCall, "clear", "ground")
  <2>1. PICK x : x = [op |-> "grind"]
    OBVIOUS
  <2>2. x \in CallSet /\ x.op = "grind" /\ GrindCall = <<x>>
    BY <2>1 DEF CallSet, GrindCall
  <2>3. Takes(x, "clear", "ground")
    BY <2>2 DEF Takes
  <2> QED
    BY <2>2, <2>3, PassesOne DEF Mode
<1>2. Passes(ObserveCall(Numbered("pow_witness", 0, 1), 1), "ground", "witness")
  <2>1. PICK x : x = [op |-> "observe", message |-> Numbered("pow_witness", 0, 1), len |-> 1]
    OBVIOUS
  <2>2. /\ x \in CallSet /\ Padded(x) /\ x.len = 1
        /\ ObserveCall(Numbered("pow_witness", 0, 1), 1) = <<x>>
    <3>1. /\ "pow_witness" \in Name /\ 0 \in Nat /\ 1 \in Nat /\ 1 \in Nat \ {0}
          /\ 1 >= 1 /\ 1 % 8 = 1 % 8
      BY DEF Name
    <3> QED
      BY <2>1, <3>1, ObserveSound
  <2>3. x.message = <<PowWitness>>
    <3>1. Numbered("pow_witness", 0, 1) = <<PowWitness>>
      BY DEF Numbered, PowWitness
    <3> QED
      BY <2>1, <3>1
  <2>4. Takes(x, "ground", "witness")
    BY <2>2, <2>3 DEF Takes
  <2> QED
    BY <2>2, <2>4, PassesOne DEF Mode
<1>3. Passes(GetCall("pow_response", 0, 1), "witness", "end")
  <2>1. /\ "pow_response" \in Name /\ 0 \in Nat /\ 1 \in Nat \ {0}
        /\ "witness" \in Mode /\ "end" \in Mode
    BY DEF Mode, Name
  <2> QED
    BY <2>1, PassesGet
<1>4. Passes(GrindCall \o ObserveCall(Numbered("pow_witness", 0, 1), 1), "clear", "witness")
  BY <1>1, <1>2, PassesConcat
<1> QED
  BY <1>3, <1>4, PassesConcat DEF ProofOfWork

\* Trees and caps are whole blocks, and a tree is no shorter than its cap.
LEMMA TreeLens ==
  ASSUME NEW h \in Nat \ {0}, NEW l \in Nat, h <= l
  PROVE  /\ 4 * Two[h] \in Nat \ {0} /\ 8 * Two[l] \in Nat /\ 8 * Two[l] >= 8
         /\ 8 * Two[l] >= 4 * Two[h]
         /\ (8 * Two[l]) % 8 = 0 /\ (4 * Two[h]) % 8 = 0
<1>1. Two[h] = 2 * Two[h - 1] /\ h - 1 \in Nat /\ l - h \in Nat /\ (l - h) + h = l
  BY TwoUnfolds
<1>2. PICK a, b, d : /\ a = Two[h - 1] /\ b = Two[l - h] /\ d = Two[l]
                     /\ a \in Nat \ {0} /\ b \in Nat \ {0} /\ d \in Nat \ {0}
  BY <1>1, TwoPositive
<1>3. Two[l] = Two[l - h] * Two[h]
  BY <1>1, TwoSum
<1>4. d = b * (2 * a)
  BY <1>1, <1>2, <1>3
<1>5. b * (2 * a) >= 2 * a
  <2>1. PICK k \in Nat : b = k + 1
    <3>1. b - 1 \in Nat /\ b = (b - 1) + 1
      BY <1>2
    <3> QED
      BY <3>1
  <2>2. k * (2 * a) \in Nat
    BY <1>2
  <2>3. (k + 1) * (2 * a) = k * (2 * a) + 2 * a
    <3>1. \A x, y \in Nat : (x + 1) * y = x * y + y
      OBVIOUS
    <3>2. 2 * a \in Nat
      BY <1>2
    <3> QED
      BY <3>1, <3>2
  <2> QED
    BY <1>2, <2>1, <2>2, <2>3
<1>6. 4 * Two[h] = 8 * a
  BY <1>1, <1>2
<1>7. (8 * a) % 8 = 0 /\ (8 * d) % 8 = 0
  BY <1>2
<1>8. 8 * d >= 8 * a /\ 8 * d >= 8 /\ 8 * a \in Nat \ {0} /\ 8 * d \in Nat
  BY <1>2, <1>4, <1>5
<1> QED
  BY <1>2, <1>6, <1>7, <1>8

\* So are the final polynomial and the buffer it comes in.
LEMMA FinalLens ==
  ASSUME NEW k \in Nat, NEW rate \in Nat,
         NEW len, len = 2 * Two[(k + 2) + rate], NEW n, n = len \div Two[rate]
  PROVE  /\ n \in Nat \ {0} /\ len \in Nat /\ len >= n /\ len >= 8
         /\ len % 8 = 0 /\ n % 8 = 0 /\ n = 2 * Two[k + 2]
<1>1. PICK a, b : a = Two[k] /\ b = Two[rate] /\ a \in Nat \ {0} /\ b \in Nat \ {0}
  BY TwoPositive
<1>2. Two[k + 2] = 4 * a
  <2>1. Two[0] = 1
    BY TwoUnfolds
  <2>2. Two[1] = 2
    BY <2>1, TwoUnfolds
  <2>3. Two[2] = 4
    BY <2>2, TwoUnfolds
  <2>4. Two[k + 2] = Two[k] * Two[2]
    BY TwoSum
  <2> QED
    BY <1>1, <2>3, <2>4
<1>3. Two[(k + 2) + rate] = (4 * a) * b
  BY <1>1, <1>2, TwoSum
<1>4. 2 * ((4 * a) * b) = (8 * a) * b /\ (8 * a) * b = 8 * (a * b) /\ a * b \in Nat
  BY <1>1
<1>5. ((8 * a) * b) \div b = 8 * a
  <2>1. \A q \in Nat, d \in Nat \ {0} : (q * d) \div d = q
    OBVIOUS
  <2>2. 8 * a \in Nat
    BY <1>1
  <2> QED
    BY <1>1, <2>1, <2>2
<1>6. (8 * (a * b)) % 8 = 0 /\ (8 * a) % 8 = 0
  BY <1>1, <1>4
<1>7. a * b >= a
  <2>1. PICK m \in Nat : b = m + 1
    <3>1. b - 1 \in Nat /\ b = (b - 1) + 1
      BY <1>1
    <3> QED
      BY <3>1
  <2>2. a * m \in Nat /\ a * (m + 1) = a * m + a
    BY <1>1
  <2> QED
    BY <1>1, <2>1, <2>2
<1>8. 8 * (a * b) >= 8 * a /\ 8 * a >= 8 /\ 8 * (a * b) \in Nat
  BY <1>1, <1>4, <1>7
<1>9. len = (8 * a) * b /\ len = 8 * (a * b)
  BY <1>3, <1>4
<1>10. n = 8 * a /\ 8 * a = 2 * (4 * a)
  BY <1>1, <1>5, <1>9
<1> QED
  BY <1>2, <1>6, <1>8, <1>9, <1>10

-----------------------------------------------------------------------------
(***************************************************************************)
(* The calls of a proof, whatever the configuration.                       *)
(***************************************************************************)
LEMMA ConfigFacts ==
  ASSUME NEW c \in Configs
  PROVE  /\ c.cap_height \in Nat \ {0} /\ c.num_challenges \in Nat \ {0}
         /\ c.num_query_rounds \in Nat \ {0} /\ NumOpenings(c) \in Nat \ {0}
         /\ c.rate_bits \in Nat /\ c.degree_bits \in Nat /\ Bits(c) \in Nat
         /\ c.arity_bits \in Seq(Nat) /\ Len(c.arity_bits) \in Nat \ {0}
         /\ DOMAIN c.arity_bits = 1 .. Len(c.arity_bits)
         /\ \A r \in 1 .. Len(c.arity_bits) :
              ArityBits(c, r) \in Nat /\ ArityBits(c, r) + c.cap_height <= Bits(c)
         /\ ArityBits(c, Len(c.arity_bits)) + 2 <= c.degree_bits
<1>1. /\ c \in Config /\ c.arity_bits # <<>>
      /\ \A r \in DOMAIN c.arity_bits :
           ArityBits(c, r) \in Nat /\ ArityBits(c, r) + c.cap_height <= Bits(c)
      /\ ArityBits(c, Len(c.arity_bits)) + 2 <= c.degree_bits
  BY ConfigsAssumption
<1>2. /\ c.cap_height \in Nat \ {0} /\ c.num_challenges \in Nat \ {0}
      /\ c.num_query_rounds \in Nat \ {0}
      /\ c.rate_bits \in Nat /\ c.degree_bits \in Nat /\ c.arity_bits \in Seq(Nat)
      /\ c.num_constants \in Nat /\ c.num_routed_wires \in Nat /\ c.num_wires \in Nat
      /\ c.num_partial_products \in Nat /\ c.num_quotients \in Nat
  BY <1>1 DEF Config
<1>3. Bits(c) \in Nat
  BY <1>2 DEF Bits
<1>4. NumOpenings(c) \in Nat \ {0}
  <2>1. \A u, v, w, x, y \in Nat, z \in Nat \ {0} : 2 * (u + v + w + x + y + z) \in Nat \ {0}
    OBVIOUS
  <2> QED
    BY <1>2, <2>1 DEF NumOpenings, D
<1>5. /\ Len(c.arity_bits) \in Nat \ {0} /\ DOMAIN c.arity_bits = 1 .. Len(c.arity_bits)
  BY <1>1, <1>2, EmptySeq
<1> QED
  BY <1>1, <1>2, <1>3, <1>4, <1>5

LEMMA PassesCap ==
  ASSUME NEW c \in Configs, NEW name \in Name, NEW r \in Nat, NEW l \in Nat, c.cap_height <= l,
         NEW p \in Mode, NEW q \in Mode,
         \/ p = "open" /\ q = "open"
         \/ p = "clear" /\ q = "open"
  PROVE  Passes(ObserveCap(c, name, r, l), p, q)
<1>1. PICK n, len : n = cap_len(c) /\ len = TreeLen(l)
  OBVIOUS
<1>2. /\ n \in Nat \ {0} /\ len \in Nat /\ len >= 8 /\ len >= n /\ len % 8 = n % 8
  <2>1. c.cap_height \in Nat \ {0}
    BY ConfigFacts
  <2> QED
    BY <1>1, <2>1, TreeLens DEF cap_len, TreeLen
<1>3. Passes(ObserveCall(Numbered(name, r, n), len), p, q)
  BY <1>2, PassesObserve
<1> QED
  BY <1>1, <1>3 DEF ObserveCap

\* A FRI round: the cap of its tree, and the challenge it is folded with.
LEMMA PassesRound ==
  ASSUME NEW c \in Configs, NEW r \in 1 .. Len(c.arity_bits)
  PROVE  Passes(ObserveCap(c, "fri", r, Bits(c) - ArityBits(c, r)) \o GetCall("fri_beta", r, D),
                "clear", "clear")
<1>1. /\ "fri" \in Name /\ "fri_beta" \in Name /\ "fri_beta" # "pow_response"
      /\ "open" \in Mode /\ "clear" \in Mode /\ D \in Nat \ {0}
  BY DEF Name, Mode, D
<1>2. r \in Nat /\ Bits(c) - ArityBits(c, r) \in Nat /\ c.cap_height <= Bits(c) - ArityBits(c, r)
  BY ConfigFacts
<1>3. Passes(ObserveCap(c, "fri", r, Bits(c) - ArityBits(c, r)), "clear", "open")
  BY <1>1, <1>2, PassesCap
<1>4. Passes(GetCall("fri_beta", r, D), "open", "clear")
  BY <1>1, <1>2, PassesGet
<1> QED
  BY <1>3, <1>4, PassesConcat

LEMMA PassesFri ==
  ASSUME NEW c \in Configs
  PROVE  Passes(FriCommittedTrees(c), "clear", "clear")
<1>1. PICK n \in Nat \ {0} : n = Len(c.arity_bits) /\ DOMAIN c.arity_bits = 1 .. n
  BY ConfigFacts
<1> DEFINE Round(r) == ObserveCap(c, "fri", r, Bits(c) - ArityBits(c, r)) \o GetCall("fri_beta", r, D)
           rounds == [r \in 1 .. n |-> Round(r)]
<1>2. \A r \in 1 .. n : Passes(Round(r), "clear", "clear")
  BY <1>1, PassesRound
<1>3. FriCommittedTrees(c) =
        FlattenSeq(rounds)
        \o ObserveCall(Numbered("final_poly", 0, FinalCoefficientsLen(c) \div Two[c.rate_bits]),
                       FinalCoefficientsLen(c))
  BY <1>1 DEF FriCommittedTrees
<1> HIDE DEF Round
<1>4. rounds \in [1 .. n -> Seq(CallSet)] /\ \A r \in 1 .. n : rounds[r] = Round(r)
  BY <1>2 DEF Passes
<1> HIDE DEF rounds
<1>5. Passes(FlattenSeq(rounds), "clear", "clear")
  BY <1>2, <1>4, PassesFlatten
<1>6. PICK k \in Nat : k + 2 = c.degree_bits - ArityBits(c, n)
  <2>1. PICK a \in Nat, d \in Nat : a = ArityBits(c, n) /\ d = c.degree_bits /\ a + 2 <= d
    BY <1>1, ConfigFacts
  <2>2. d - a - 2 \in Nat /\ (d - a - 2) + 2 = d - a
    BY <2>1
  <2> QED
    BY <2>1, <2>2
<1>7. c.rate_bits \in Nat /\ FinalCoefficientsLen(c) = 2 * Two[(k + 2) + c.rate_bits]
  <2>1. Bits(c) - ArityBits(c, n) = (k + 2) + c.rate_bits /\ c.rate_bits \in Nat
    <3>1. ArityBits(c, n) \in Nat /\ c.rate_bits \in Nat /\ c.degree_bits \in Nat
      BY <1>1, ConfigFacts
    <3> QED
      BY <1>6, <3>1 DEF Bits
  <2> QED
    BY <1>1, <2>1 DEF FinalCoefficientsLen, D
<1>8. PICK len, m : len = FinalCoefficientsLen(c) /\ m = len \div Two[c.rate_bits]
  OBVIOUS
<1>9. m \in Nat \ {0} /\ len \in Nat /\ len >= m /\ len >= 8 /\ len % 8 = 0 /\ m % 8 = 0
  <2>1. PICK rate \in Nat : rate = c.rate_bits
    BY <1>7
  <2>2. len = 2 * Two[(k + 2) + rate] /\ m = len \div Two[rate]
    BY <1>7, <1>8, <2>1
  <2> QED
    BY <2>2, FinalLens
<1>10. Passes(ObserveCall(Numbered("final_poly", 0, m), len), "clear", "clear")
  <2>1. "final_poly" \in Name /\ "clear" \in Mode /\ 0 \in Nat
    BY DEF Name, Mode
  <2> QED
    BY <1>9, <2>1, PassesObserve
<1> QED
  BY <1>3, <1>5, <1>8, <1>10, PassesConcat

LEMMA CallsPass ==
  ASSUME NEW c \in Configs
  PROVE  Passes(Calls(c), "start", "end")
<1>1. PICK a1, a2, a3, a4, a5, a6, a7, a8, a9, a10, a11, a12, a13, a14 :
        /\ a1 = ObserveCall(Numbered("circuit_digest", 0, 4), 4)
        /\ a2 = ObserveCall(Numbered("public_inputs_hash", 0, 4), 4)
        /\ a3 = ObserveCap(c, "wires", 0, Bits(c))
        /\ a4 = GetCall("beta", 0, c.num_challenges)
        /\ a5 = GetCall("gamma", 0, c.num_challenges)
        /\ a6 = ObserveCap(c, "partial_products", 0, Bits(c))
        /\ a7 = GetCall("alpha", 0, c.num_challenges)
        /\ a8 = ObserveCap(c, "quotients", 0, Bits(c))
        /\ a9 = GetCall("zeta", 0, D)
        /\ a10 = ObserveCall(Numbered("opening", 0, NumOpenings(c)), NumOpenings(c))
        /\ a11 = GetCall("fri_alpha", 0, D)
        /\ a12 = FriCommittedTrees(c)
        /\ a13 = ProofOfWork
        /\ a14 = GetCall("query", 0, c.num_query_rounds)
  OBVIOUS
<1>2. Calls(c) = a1 \o a2 \o a3 \o a4 \o a5 \o a6 \o a7 \o a8 \o a9 \o a10 \o a11 \o a12 \o a13 \o a14
  BY <1>1 DEF Calls
<1>3. /\ "circuit_digest" \in Name /\ "public_inputs_hash" \in Name /\ "wires" \in Name
      /\ "beta" \in Name /\ "gamma" \in Name /\ "partial_products" \in Name
      /\ "alpha" \in Name /\ "quotients" \in Name /\ "zeta" \in Name /\ "opening" \in Name
      /\ "fri_alpha" \in Name /\ "query" \in Name
  BY DEF Name
<1>4. \A p \in {"start", "digest", "open", "clear", "end"} : p \in Mode
  BY DEF Mode
<1>5. /\ 0 \in Nat /\ D \in Nat \ {0} /\ 4 \in Nat \ {0} /\ 4 % 8 = 4 % 8 /\ 4 >= 4
  BY DEF D
<1>6. /\ c.num_challenges \in Nat \ {0} /\ c.num_query_rounds \in Nat \ {0}
      /\ Bits(c) \in Nat /\ c.cap_height <= Bits(c) /\ NumOpenings(c) \in Nat \ {0}
  <2>1. /\ 1 \in 1 .. Len(c.arity_bits) /\ c.cap_height \in Nat /\ Bits(c) \in Nat
        /\ ArityBits(c, 1) \in Nat /\ ArityBits(c, 1) + c.cap_height <= Bits(c)
    <3>1. 1 \in 1 .. Len(c.arity_bits)
      BY ConfigFacts
    <3> QED
      BY <3>1, ConfigFacts
  <2> QED
    BY <2>1, ConfigFacts
<1>7. Passes(a1, "start", "digest") /\ Passes(a2, "digest", "open")
  BY <1>1, <1>3, <1>4, <1>5, PassesObserve
<1>8. Passes(a3, "open", "open") /\ Passes(a6, "clear", "open") /\ Passes(a8, "clear", "open")
  BY <1>1, <1>3, <1>4, <1>5, <1>6, PassesCap
<1>9. Passes(a4, "open", "clear") /\ Passes(a5, "clear", "clear")
  BY <1>1, <1>3, <1>4, <1>5, <1>6, PassesGet
<1>10. Passes(a7, "open", "clear") /\ Passes(a9, "open", "clear")
  BY <1>1, <1>3, <1>4, <1>5, <1>6, PassesGet
<1>11. Passes(a10, "clear", "open")
  <2>1. NumOpenings(c) \in Nat /\ NumOpenings(c) >= NumOpenings(c)
    BY <1>6
  <2> QED
    BY <1>1, <1>3, <1>4, <1>5, <1>6, <2>1, PassesObserve
<1>12. Passes(a11, "open", "clear") /\ Passes(a14, "end", "end")
  BY <1>1, <1>3, <1>4, <1>5, <1>6, PassesGet
<1>13. Passes(a12, "clear", "clear") /\ Passes(a13, "clear", "end")
  BY <1>1, PassesFri, PassesProofOfWork
<1>14. PICK b1 : b1 = a1 \o a2 \o a3 /\ Passes(b1, "start", "open")
  <2>1. Passes(a1 \o a2 \o a3, "start", "open")
    BY <1>7, <1>8, PassesThree
  <2> QED
    BY <2>1
<1>15. PICK b2 : b2 = b1 \o a4 \o a5 /\ Passes(b2, "start", "clear")
  <2>1. Passes(b1 \o a4 \o a5, "start", "clear")
    BY <1>9, <1>14, PassesThree
  <2> QED
    BY <2>1
<1>16. PICK b3 : b3 = b2 \o a6 \o a7 /\ Passes(b3, "start", "clear")
  <2>1. Passes(b2 \o a6 \o a7, "start", "clear")
    BY <1>8, <1>10, <1>15, PassesThree
  <2> QED
    BY <2>1
<1>17. PICK b4 : b4 = b3 \o a8 \o a9 /\ Passes(b4, "start", "clear")
  <2>1. Passes(b3 \o a8 \o a9, "start", "clear")
    BY <1>8, <1>10, <1>16, PassesThree
  <2> QED
    BY <2>1
<1>18. PICK b5 : b5 = b4 \o a10 \o a11 /\ Passes(b5, "start", "clear")
  <2>1. Passes(b4 \o a10 \o a11, "start", "clear")
    BY <1>11, <1>12, <1>17, PassesThree
  <2> QED
    BY <2>1
<1>19. Passes(b5 \o a12 \o a13 \o a14, "start", "end")
  <2>1. Passes(b5 \o a12 \o a13, "start", "end")
    BY <1>13, <1>18, PassesThree
  <2> QED
    BY <1>12, <2>1, PassesConcat
<1> QED
  BY <1>2, <1>14, <1>15, <1>16, <1>17, <1>18, <1>19

-----------------------------------------------------------------------------
(***************************************************************************)
(* The inductive invariant.  At(m, x): the host is in mode m and x is the  *)
(* last call made.                                                         *)
(***************************************************************************)
HostInv(m) ==
  /\ in_idx \in 0 .. 7 /\ out_idx \in 0 .. 8
  /\ m \in {"start", "clear", "ground", "end"} => in_idx = 0
  /\ m = "digest" => in_idx = 4 /\ out_idx = 8
  /\ m = "witness" => in_idx = 1

\* The kernel under way is the last call's.
KernelInv(x) ==
  \/ kernel = GPU!Idle
  \/ /\ x.op = "observe"
     /\ kernel \in [op : {"observe"}, message : {x.message}, i : Nat,
                    current : 0 .. 7, out : 0 .. 8]
  \/ /\ x.op = "get"
     /\ kernel \in [op : {"get"}, n : {x.n}, i : Nat, in : 0 .. 7, current : 0 .. 8]

\* The response found by the search is the one to come.
PowOwed == pow_response = Squeeze(Absorb(sponge_state, <<PowWitness>>))[8]

NoPow == \A k \in DOMAIN drawn : drawn[k][1] # "pow_response"

\* The witness is in the input buffer, and nothing else is.
WitnessHeld ==
  \/ kernel.op = "observe" /\ kernel.i = 0 /\ kernel.current = 0
  \/ input_buffer[1] = PowWitness /\ (kernel.op = "observe" => kernel.i = 1)

PowInv(m, x) ==
  /\ m # "end" => NoPow
  /\ m = "ground" => PowOwed /\ kernel = GPU!Idle
  /\ m = "witness" => PowOwed /\ WitnessHeld
  /\ m = "end" =>
       \/ /\ PowOwed /\ NoPow /\ input_buffer[1] = PowWitness
          /\ x.name = "pow_response"
          /\ kernel.op = "get" /\ kernel.i = 0 /\ kernel.in = 1
       \/ /\ PowResponseIsTranscripts
          /\ kernel.op = "get" /\ x.name = "pow_response" => kernel.i = 1

At(m, x) ==
  /\ HostInv(m) /\ KernelInv(x) /\ PowInv(m, x)
  /\ DOMAIN input_buffer = 1 .. 8
  /\ \E V : drawn \in Seq(V)

TranscriptInv ==
  /\ calls \in Seq(CallSet) /\ step \in 1 .. Len(calls) + 1
  /\ \E mu :
       /\ Leads(calls, mu) /\ mu[0] = "start"
       /\ step = 1 => kernel = GPU!Idle
       /\ At(mu[step - 1], calls[step - 1])

-----------------------------------------------------------------------------
\* Appending to the challenges drawn.
LEMMA AppendAny ==
  ASSUME NEW V, NEW s \in Seq(V), NEW e
  PROVE  /\ Append(s, e) \in Seq(V \cup {e})
         /\ \A k \in DOMAIN Append(s, e) :
              \/ Append(s, e)[k] = e
              \/ k \in DOMAIN s /\ Append(s, e)[k] = s[k]
<1>1. s \in Seq(V \cup {e})
  BY SeqDef
<1>2. /\ Append(s, e) \in Seq(V \cup {e}) /\ Len(Append(s, e)) = Len(s) + 1
      /\ Append(s, e)[Len(s) + 1] = e /\ \A i \in 1 .. Len(s) : Append(s, e)[i] = s[i]
  BY <1>1, AppendProperties
<1>3. Len(s) \in Nat /\ DOMAIN s = 1 .. Len(s) /\ DOMAIN Append(s, e) = 1 .. Len(s) + 1
  BY <1>1, <1>2, LenProperties
<1> QED
  BY <1>2, <1>3

\* The discipline, from the mode.
LEMMA TakesDisciplined ==
  ASSUME NEW m, NEW q, NEW x, Takes(x, m, q), HostInv(m), x.op = "observe"
  PROVE  GPU!Disciplined(x.message, x.len)
<1>1. Padded(x)
  BY DEF Takes, Draws
<1>2. /\ x.len \in Nat \ {0} /\ x.len >= Len(x.message) /\ x.len % 8 = Len(x.message) % 8
  <2>1. PICK l, n : l = x.len /\ n = Len(x.message)
    OBVIOUS
  <2>2. l \in Nat /\ n \in Nat \ {0} /\ l >= n /\ l % 8 = n % 8
    BY <1>1, <2>1 DEF Padded
  <2>3. l \in Nat \ {0}
    BY <2>2
  <2> QED
    BY <2>1, <2>2, <2>3
<1>3. ASSUME (in_idx + x.len) % 8 = 0 PROVE x.len >= 8 \/ out_idx = 8
  <2>1. CASE x.len >= 8
    BY <2>1
  <2>2. CASE m = "digest"
    BY <2>2 DEF HostInv
  <2>3. CASE ~ (x.len >= 8) /\ m # "digest"
    <3>1. in_idx = 0
      BY <2>3, <1>2 DEF Takes, HostInv, Draws
    <3>2. PICK l \in Nat \ {0} : l = x.len
      BY <1>2
    <3>3. (0 + l) % 8 = 0
      BY <1>3, <3>1, <3>2
    <3>4. l >= 8
      BY <3>3
    <3> QED
      BY <2>3, <3>2, <3>4
  <2> QED
    BY <2>1, <2>2, <2>3
<1> QED
  BY <1>2, <1>3 DEF GPU!Disciplined, GPU!InIdxAfterObserve, GPU!Rate

LEMMA LaunchObserveKeeps ==
  ASSUME NEW m, NEW w, NEW x, NEW q, Takes(x, m, q), At(m, w),
         x.op = "observe", GPU!LaunchObserve(x.message, x.len),
         UNCHANGED <<drawn, pow_response>>
  PROVE  At(q, x)'
<1>1. x.len \in Nat /\ Padded(x)
  BY DEF Takes, Draws, Padded
<1>2. /\ kernel = GPU!Idle
      /\ kernel' = [op |-> "observe", message |-> x.message, i |-> 0, current |-> in_idx,
                    out |-> out_idx]
      /\ in_idx' = (in_idx + x.len) % 8
      /\ out_idx' = IF in_idx' + x.len >= 8 THEN 8 ELSE out_idx
      /\ sponge_state' = sponge_state /\ input_buffer' = input_buffer
  BY DEF GPU!LaunchObserve, GPU!InIdxAfterObserve, GPU!OutIdxAfterObserve, GPU!Rate, GPU!device
<1>3. in_idx \in 0 .. 7 /\ out_idx \in 0 .. 8
  BY DEF At, HostInv
<1>4. HostInv(q)'
  <2>1. in_idx' \in 0 .. 7 /\ out_idx' \in 0 .. 8
    BY <1>1, <1>2, <1>3
  <2>2. CASE q = "digest"
    <3>1. x.len = 4 /\ m = "start"
      BY <2>2 DEF Takes
    <3>2. in_idx = 0
      BY <3>1 DEF At, HostInv
    <3> QED
      BY <1>2, <2>1, <2>2, <3>1, <3>2 DEF HostInv
  <2>3. CASE q = "witness"
    <3>1. x.len = 1 /\ m = "ground"
      BY <2>3 DEF Takes
    <3>2. in_idx = 0
      BY <3>1 DEF At, HostInv
    <3> QED
      BY <1>2, <2>1, <2>3, <3>1, <3>2 DEF HostInv
  <2>4. CASE q = "clear"
    <3>1. x.len % 8 = 0 /\ m = "clear"
      BY <2>4 DEF Takes, Draws
    <3>2. in_idx = 0
      BY <3>1 DEF At, HostInv
    <3> QED
      BY <1>1, <1>2, <2>1, <2>4, <3>1, <3>2 DEF HostInv
  <2>5. q \in {"digest", "witness", "clear", "open"}
    BY DEF Takes, Draws
  <2> QED
    BY <2>1, <2>2, <2>3, <2>4, <2>5 DEF HostInv
<1>5. KernelInv(x)'
  BY <1>2, <1>3 DEF KernelInv
<1>6. m # "end" /\ q # "end" /\ q # "ground" /\ (q = "witness" => m = "ground")
  BY DEF Takes, Draws
<1>7. NoPow'
  BY <1>6 DEF At, PowInv, NoPow
<1>8. q = "witness" => PowOwed' /\ WitnessHeld'
  BY <1>2, <1>6 DEF At, HostInv, PowInv, PowOwed, WitnessHeld
<1> QED
  BY <1>2, <1>4, <1>5, <1>6, <1>7, <1>8 DEF At, PowInv

LEMMA LaunchGetKeeps ==
  ASSUME NEW m, NEW w, NEW x \in CallSet, NEW q, Takes(x, m, q), At(m, w),
         x.op = "get", GPU!LaunchGet(x.n), UNCHANGED <<drawn, pow_response>>
  PROVE  At(q, x)'
<1>1. x.n \in Nat /\ (x.name = "pow_response" => m = "witness" /\ q = "end")
  BY DEF Takes, Draws, Padded
<1>2. /\ kernel = GPU!Idle
      /\ kernel' = [op |-> "get", n |-> x.n, i |-> 0, in |-> in_idx, current |-> out_idx]
      /\ in_idx' = 0
      /\ out_idx' = IF in_idx # 0 THEN (8 - (x.n % 8)) % 8 ELSE (out_idx + 8 - (x.n % 8)) % 8
      /\ sponge_state' = sponge_state /\ input_buffer' = input_buffer
  BY DEF GPU!LaunchGet, GPU!InIdxAfterGet, GPU!OutIdxAfterGet, GPU!Rate, GPU!device
<1>3. in_idx \in 0 .. 7 /\ out_idx \in 0 .. 8
  BY DEF At, HostInv
<1>4. out_idx' \in 0 .. 8
  <2>1. PICK n \in Nat : n = x.n
    BY <1>1
  <2>2. /\ (8 - (n % 8)) % 8 \in 0 .. 8 /\ (out_idx + 8 - (n % 8)) % 8 \in 0 .. 8
    BY <1>3
  <2> QED
    BY <1>2, <2>1, <2>2
<1>5. q \in {"clear", "end"}
  BY DEF Takes, Draws, Padded
<1>6. HostInv(q)'
  BY <1>2, <1>4, <1>5 DEF HostInv
<1>7. KernelInv(x)'
  BY <1>2, <1>3 DEF KernelInv
<1>8. CASE q = "clear"
  <2>1. m # "end"
    BY <1>8 DEF Takes, Draws, Padded
  <2>2. NoPow'
    BY <2>1 DEF At, PowInv, NoPow
  <2> QED
    BY <1>2, <1>6, <1>7, <1>8, <2>2 DEF At, PowInv
<1>9. CASE x.name = "pow_response"
  <2>1. PowOwed /\ NoPow /\ input_buffer[1] = PowWitness /\ in_idx = 1
    BY <1>1, <1>2, <1>9 DEF At, PowInv, WitnessHeld, HostInv, GPU!Idle
  <2>2. PowOwed' /\ NoPow' /\ input_buffer'[1] = PowWitness
    BY <1>2, <2>1 DEF PowOwed, NoPow
  <2> QED
    BY <1>1, <1>2, <1>6, <1>7, <1>9, <2>1, <2>2 DEF At, PowInv
<1>10. CASE q = "end" /\ x.name # "pow_response"
  <2>1. m = "end"
    BY <1>10 DEF Takes, Draws, Padded
  <2>2. PowResponseIsTranscripts
    BY <1>2, <2>1 DEF At, PowInv, GPU!Idle
  <2>3. PowResponseIsTranscripts'
    BY <2>2 DEF PowResponseIsTranscripts
  <2> QED
    BY <1>2, <1>6, <1>7, <1>10, <2>3 DEF At, PowInv
<1> QED
  BY <1>5, <1>8, <1>9, <1>10

LEMMA GrindKeeps ==
  ASSUME NEW m, NEW w, NEW x, NEW q, Takes(x, m, q), At(m, w), GrindWitness(x)
  PROVE  At(q, x)'
<1>1. x.op = "grind" /\ m = "clear" /\ q = "ground"
  BY DEF Takes, Draws, Padded, GrindWitness
<1>2. /\ kernel = GPU!Idle /\ kernel' = kernel
      /\ in_idx' = in_idx /\ out_idx' = out_idx /\ in_idx = 0
      /\ sponge_state' = sponge_state /\ input_buffer' = input_buffer /\ drawn' = drawn
  BY <1>1 DEF GrindWitness, gpu, At, HostInv
<1>3. PowBlock = <<PowWitness>>
  <2>1. GPU!Prefix(input_buffer, 0) = <<>>
    BY DEF GPU!Prefix
  <2>2. PowBlock = Append(<<>>, PowWitness)
    BY <1>2, <2>1 DEF PowBlock, PowWitness
  <2>3. \A e : Append(<<>>, e) = <<e>>
    OBVIOUS
  <2> QED
    BY <2>2, <2>3
<1>4. PowOwed'
  BY <1>2, <1>3 DEF GrindWitness, PowOwed, GPU!Rate
<1>5. NoPow'
  BY <1>1, <1>2 DEF At, PowInv, NoPow
<1>6. HostInv(q)' /\ KernelInv(x)'
  BY <1>1, <1>2 DEF At, HostInv, KernelInv
<1> QED
  BY <1>1, <1>2, <1>4, <1>5, <1>6 DEF At, PowInv

\* A kernel after one more element, or challenge.
LEMMA ObserveTurn ==
  ASSUME NEW message, NEW c \in 0 .. 7,
         NEW k \in [op : {"observe"}, message : {message}, i : Nat,
                    current : 0 .. 7, out : 0 .. 8],
         NEW l, l = [k EXCEPT !.i = k.i + 1, !.current = c]
  PROVE  /\ l \in [op : {"observe"}, message : {message}, i : Nat,
                   current : 0 .. 7, out : 0 .. 8]
         /\ l.op = "observe" /\ l.i = k.i + 1
<1>1. /\ k.op = "observe" /\ k.message = message /\ k.i + 1 \in Nat /\ k.out \in 0 .. 8
  OBVIOUS
<1>2. k = [op |-> k.op, message |-> k.message, i |-> k.i, current |-> k.current, out |-> k.out]
  OBVIOUS
<1>3. l = [op |-> "observe", message |-> message, i |-> k.i + 1, current |-> c, out |-> k.out]
  BY <1>1, <1>2
<1> QED
  BY <1>1, <1>3

LEMMA GetTurn ==
  ASSUME NEW n, NEW c \in 0 .. 8,
         NEW k \in [op : {"get"}, n : {n}, i : Nat, in : 0 .. 7, current : 0 .. 8],
         NEW l, l = [k EXCEPT !.i = k.i + 1, !.current = c]
  PROVE  /\ l \in [op : {"get"}, n : {n}, i : Nat, in : 0 .. 7, current : 0 .. 8]
         /\ l.op = "get" /\ l.i = k.i + 1
<1>1. k.op = "get" /\ k.n = n /\ k.i + 1 \in Nat /\ k.in \in 0 .. 7
  OBVIOUS
<1>2. k = [op |-> k.op, n |-> k.n, i |-> k.i, in |-> k.in, current |-> k.current]
  OBVIOUS
<1>3. l = [op |-> "get", n |-> n, i |-> k.i + 1, in |-> k.in, current |-> c]
  BY <1>1, <1>2
<1> QED
  BY <1>1, <1>3

LEMMA ObserveKeeps ==
  ASSUME NEW p, NEW m, NEW x, Takes(x, p, m), At(m, x), ObserveNext
  PROVE  At(m, x)'
<1>1. /\ kernel.op = "observe" /\ x.op = "observe" /\ kernel.message = x.message
      /\ kernel \in [op : {"observe"}, message : {x.message}, i : Nat,
                     current : 0 .. 7, out : 0 .. 8]
  BY DEF ObserveNext, GPU!KernelObserve, At, KernelInv, GPU!Idle
<1>2. /\ in_idx' = in_idx /\ out_idx' = out_idx /\ drawn' = drawn /\ pow_response' = pow_response
      /\ kernel' = [kernel EXCEPT !.i = kernel.i + 1, !.current = (kernel.current + 1) % 8]
  BY DEF ObserveNext, GPU!KernelObserve, GPU!Rate
<1>3. HostInv(m)'
  BY <1>2 DEF At, HostInv
<1>4. /\ kernel' \in [op : {"observe"}, message : {x.message}, i : Nat,
                      current : 0 .. 7, out : 0 .. 8]
      /\ kernel'.op = "observe" /\ kernel'.i = kernel.i + 1
  <2>1. PICK k : k = kernel
    OBVIOUS
  <2>2. PICK c \in 0 .. 7 : c = (kernel.current + 1) % 8
    BY <1>1
  <2>3. /\ k \in [op : {"observe"}, message : {x.message}, i : Nat, current : 0 .. 7, out : 0 .. 8]
        /\ kernel' = [k EXCEPT !.i = k.i + 1, !.current = c]
    BY <1>1, <1>2, <2>1, <2>2
  <2> QED
    BY <2>1, <2>3, ObserveTurn
<1>5. KernelInv(x)'
  BY <1>1, <1>4 DEF KernelInv
<1>6. DOMAIN input_buffer' = 1 .. 8
  BY DEF ObserveNext, GPU!KernelObserve, GPU!Rate, At
<1>7. m # "end" /\ m # "ground"
  BY <1>1 DEF Takes, Draws
<1>8. NoPow'
  BY <1>2, <1>7 DEF At, PowInv, NoPow
<1>9. CASE m = "witness"
  <2>1. x.message = <<PowWitness>>
    BY <1>9 DEF Takes, Draws
  <2>2. kernel.i = 0 /\ kernel.current = 0
    <3>1. kernel.i < 1
      BY <1>1, <2>1 DEF ObserveNext, GPU!KernelObserve
    <3> QED
      BY <1>1, <1>9, <3>1 DEF At, PowInv, WitnessHeld
  <2>3. (kernel.current + 1) % 8 = 1 /\ kernel.i + 1 = 1 /\ kernel.message[1] = PowWitness
    BY <1>1, <2>1, <2>2
  <2>4. sponge_state' = sponge_state /\ input_buffer' = [input_buffer EXCEPT ![1] = PowWitness]
    BY <2>2, <2>3 DEF ObserveNext, GPU!KernelObserve, GPU!Rate
  <2>5. input_buffer'[1] = PowWitness
    BY <2>4 DEF At
  <2>6. PowOwed' /\ WitnessHeld'
    BY <1>2, <1>4, <1>9, <2>2, <2>4, <2>5 DEF At, PowInv, PowOwed, WitnessHeld
  <2> QED
    BY <1>2, <1>3, <1>5, <1>6, <1>8, <1>9, <2>6 DEF At, PowInv
<1>10. CASE m # "witness"
  BY <1>2, <1>3, <1>5, <1>6, <1>7, <1>8, <1>10 DEF At, PowInv
<1> QED
  BY <1>9, <1>10

\* What a draw does to the kernel and to the buffers, and its first duplexing.
LEMMA DrawFacts ==
  ASSUME NEW m, NEW x, At(m, x), DrawNext
  PROVE  /\ x.op = "get" /\ kernel.op = "get" /\ kernel.n = x.n /\ kernel.i \in Nat
         /\ kernel.i < x.n
         /\ kernel' \in [op : {"get"}, n : {x.n}, i : Nat, in : 0 .. 7, current : 0 .. 8]
         /\ kernel'.op = "get" /\ kernel'.i = kernel.i + 1
         /\ in_idx' = in_idx /\ out_idx' = out_idx /\ pow_response' = pow_response
         /\ DOMAIN input_buffer' = 1 .. 8
         /\ kernel.i = 0 /\ kernel.in = 1 =>
              challenge' = Squeeze(Absorb(sponge_state, <<input_buffer[1]>>))[8]
<1>1. /\ kernel.op = "get" /\ x.op = "get"
      /\ kernel \in [op : {"get"}, n : {x.n}, i : Nat, in : 0 .. 7, current : 0 .. 8]
  BY DEF DrawNext, GPU!KernelGet, At, KernelInv, GPU!Idle
<1>2. kernel.n = x.n /\ kernel.i \in Nat /\ kernel.i < x.n
  BY <1>1 DEF DrawNext, GPU!KernelGet
<1>3. in_idx' = in_idx /\ out_idx' = out_idx /\ pow_response' = pow_response
  BY DEF DrawNext, GPU!KernelGet
<1>4. DOMAIN input_buffer' = 1 .. 8
  BY DEF DrawNext, GPU!KernelGet, GPU!Rate, At
<1>5. PICK c \in 0 .. 8 :
        kernel' = [kernel EXCEPT !.i = kernel.i + 1, !.current = c]
  <2>1. PICK d \in 0 .. 8 :
          kernel' = [kernel EXCEPT !.i = kernel.i + 1, !.current = (d + 7) % 8]
    <3>1. CASE (kernel.i = 0 /\ kernel.in # 0) \/ kernel.current = 0
      <4>1. kernel' = [kernel EXCEPT !.i = kernel.i + 1, !.current = (8 + 7) % 8]
        BY <3>1 DEF DrawNext, GPU!KernelGet, GPU!Rate
      <4> QED
        BY <4>1
    <3>2. CASE ~ ((kernel.i = 0 /\ kernel.in # 0) \/ kernel.current = 0)
      <4>1. kernel.current \in 0 .. 8
        BY <1>1
      <4>2. kernel' = [kernel EXCEPT !.i = kernel.i + 1, !.current = (kernel.current + 7) % 8]
        BY <3>2 DEF DrawNext, GPU!KernelGet, GPU!Rate
      <4> QED
        BY <4>1, <4>2
    <3> QED
      BY <3>1, <3>2
  <2>2. (d + 7) % 8 \in 0 .. 8
    OBVIOUS
  <2> QED
    BY <2>1, <2>2
<1>6. /\ kernel' \in [op : {"get"}, n : {x.n}, i : Nat, in : 0 .. 7, current : 0 .. 8]
      /\ kernel'.op = "get" /\ kernel'.i = kernel.i + 1
  <2>1. PICK k : k = kernel
    OBVIOUS
  <2>2. /\ k \in [op : {"get"}, n : {x.n}, i : Nat, in : 0 .. 7, current : 0 .. 8]
        /\ kernel' = [k EXCEPT !.i = k.i + 1, !.current = c]
    BY <1>1, <1>5, <2>1
  <2> QED
    BY <2>1, <2>2, GetTurn
<1>7. ASSUME kernel.i = 0, kernel.in = 1
      PROVE  challenge' = Squeeze(Absorb(sponge_state, <<input_buffer[1]>>))[8]
  <2>1. GPU!PendingInput = <<input_buffer[1]>>
    BY <1>7 DEF GPU!PendingInput, GPU!Prefix
  <2>2. challenge' = Squeeze(Absorb(sponge_state, GPU!PendingInput))[8]
    BY <1>7 DEF DrawNext, GPU!KernelGet, GPU!Rate
  <2> QED
    BY <2>1, <2>2
<1> QED
  BY <1>1, <1>2, <1>3, <1>4, <1>6, <1>7

LEMMA DrawKeeps ==
  ASSUME NEW p, NEW m, NEW x, Takes(x, p, m), At(m, x), DrawNext, x = calls[step - 1]
  PROVE  At(m, x)'
<1>1. /\ x.op = "get" /\ kernel.op = "get" /\ kernel.n = x.n /\ kernel.i \in Nat
      /\ kernel.i < x.n
      /\ kernel' \in [op : {"get"}, n : {x.n}, i : Nat, in : 0 .. 7, current : 0 .. 8]
      /\ kernel'.op = "get" /\ kernel'.i = kernel.i + 1
      /\ in_idx' = in_idx /\ out_idx' = out_idx /\ pow_response' = pow_response
      /\ DOMAIN input_buffer' = 1 .. 8
      /\ kernel.i = 0 /\ kernel.in = 1 =>
           challenge' = Squeeze(Absorb(sponge_state, <<input_buffer[1]>>))[8]
  BY DrawFacts
<1>2. PICK V, s, e : /\ s = drawn /\ s \in Seq(V) /\ e = <<x.name, x.r, challenge'>>
                     /\ drawn' = Append(s, e)
  BY DEF At, DrawNext
<1>3. /\ drawn' \in Seq(V \cup {e})
      /\ \A k \in DOMAIN drawn' : drawn'[k] = e \/ (k \in DOMAIN s /\ drawn'[k] = s[k])
  BY <1>2, AppendAny
<1>4. e[1] = x.name /\ e[3] = challenge'
  BY <1>2
<1>5. HostInv(m)' /\ KernelInv(x)'
  BY <1>1 DEF At, HostInv, KernelInv
<1>6. CASE m # "end"
  <2>1. m = "clear" /\ x.name # "pow_response"
    BY <1>1, <1>6 DEF Takes, Draws, Padded
  <2>2. NoPow'
    BY <1>2, <1>3, <1>4, <2>1 DEF At, PowInv, NoPow
  <2> QED
    BY <1>1, <1>3, <1>5, <2>1, <2>2 DEF At, PowInv
<1>7. CASE m = "end" /\ x.name # "pow_response"
  <2>1. PowResponseIsTranscripts
    BY <1>7 DEF At, PowInv
  <2>2. PowResponseIsTranscripts'
    BY <1>1, <1>2, <1>3, <1>4, <1>7, <2>1 DEF PowResponseIsTranscripts
  <2> QED
    BY <1>1, <1>3, <1>5, <1>7, <2>2 DEF At, PowInv
<1>8. CASE m = "end" /\ x.name = "pow_response"
  <2>1. x.n = 1
    BY <1>1, <1>8 DEF Takes, Draws, Padded
  <2>2. kernel.i = 0
    BY <1>1, <2>1
  <2>3. PowOwed /\ NoPow /\ input_buffer[1] = PowWitness /\ kernel.in = 1
    BY <1>1, <1>8, <2>2 DEF At, PowInv
  <2>4. challenge' = pow_response
    BY <1>1, <2>2, <2>3 DEF PowOwed
  <2>5. PowResponseIsTranscripts'
    BY <1>1, <1>2, <1>3, <1>4, <2>3, <2>4 DEF PowResponseIsTranscripts, NoPow
  <2> QED
    BY <1>1, <1>3, <1>5, <1>8, <2>2, <2>5 DEF At, PowInv
<1> QED
  BY <1>6, <1>7, <1>8

LEMMA RetireKeeps ==
  ASSUME NEW p, NEW m, NEW x, Takes(x, p, m), At(m, x), Retire
  PROVE  At(m, x)'
<1>1. /\ GPU!KernelDone /\ kernel' = GPU!Idle /\ kernel'.op = "idle"
      /\ in_idx' = in_idx /\ out_idx' = out_idx /\ pow_response' = pow_response
      /\ input_buffer' = input_buffer /\ sponge_state' = sponge_state /\ drawn' = drawn
  BY DEF Retire, GPU!Retire, GPU!device, GPU!Idle
<1>2. HostInv(m)' /\ KernelInv(x)'
  BY <1>1 DEF At, HostInv, KernelInv
<1>3. (NoPow => NoPow') /\ (PowOwed => PowOwed')
  BY <1>1 DEF NoPow, PowOwed
<1>4. (PowResponseIsTranscripts => PowResponseIsTranscripts')
  BY <1>1 DEF PowResponseIsTranscripts
<1>5. CASE m = "witness"
  <2>1. x.message = <<PowWitness>> /\ x.op = "observe"
    BY <1>5 DEF Takes, Draws, Padded
  <2>2. kernel.op = "observe" => kernel.i = 1
    <3>1. kernel.op = "observe" => kernel.message = x.message /\ kernel.i = Len(kernel.message)
      BY <1>1 DEF At, KernelInv, GPU!KernelDone, GPU!Idle
    <3>2. Len(<<PowWitness>>) = 1
      OBVIOUS
    <3> QED
      BY <2>1, <3>1, <3>2
  <2>3. input_buffer[1] = PowWitness
    BY <1>5, <2>2 DEF At, PowInv, WitnessHeld
  <2> QED
    BY <1>1, <1>2, <1>3, <1>5, <2>3 DEF At, PowInv, WitnessHeld
<1>6. CASE m = "end"
  <2>1. x.op = "get" /\ (x.name = "pow_response" => x.n = 1)
    BY <1>6 DEF Takes, Draws, Padded
  <2>2. kernel.op = "get" /\ x.name = "pow_response" => kernel.i = 1
    BY <1>1, <2>1 DEF At, KernelInv, GPU!KernelDone, GPU!Idle
  <2>3. PowResponseIsTranscripts
    BY <1>6, <2>2 DEF At, PowInv
  <2> QED
    BY <1>1, <1>2, <1>4, <1>6, <2>3 DEF At, PowInv
<1>7. CASE m # "witness" /\ m # "end"
  BY <1>1, <1>2, <1>3, <1>7 DEF At, PowInv
<1> QED
  BY <1>5, <1>6, <1>7

-----------------------------------------------------------------------------
LEMMA InitTranscriptInv == Init => TranscriptInv
<1> SUFFICES ASSUME Init PROVE TranscriptInv
  OBVIOUS
<1>1. PICK c \in Configs : calls = Calls(c)
  BY DEF Init
<1>2. /\ calls \in Seq(CallSet)
      /\ \E mu : Leads(calls, mu) /\ mu[0] = "start"
  BY <1>1, CallsPass DEF Passes
<1>3. PICK mu : Leads(calls, mu) /\ mu[0] = "start"
  BY <1>2
<1>4. /\ step = 1 /\ kernel = GPU!Idle /\ drawn = <<>> /\ in_idx = 0 /\ out_idx = 0
      /\ DOMAIN input_buffer = 1 .. 8
  BY DEF Init, GPU!New, GPU!Rate
<1>5. step \in 1 .. Len(calls) + 1
  BY <1>2, <1>4
<1>6. ASSUME NEW x PROVE At("start", x)
  <2>1. HostInv("start") /\ KernelInv(x)
    BY <1>4 DEF HostInv, KernelInv
  <2>2. NoPow
    BY <1>4 DEF NoPow
  <2>3. \E V : drawn \in Seq(V)
    <3>1. drawn \in Seq({})
      BY <1>4
    <3> QED
      BY <3>1
  <2> QED
    BY <1>4, <2>1, <2>2, <2>3 DEF At, PowInv
<1>7. At(mu[step - 1], calls[step - 1])
  BY <1>3, <1>4, <1>6
<1> QED
  BY <1>2, <1>3, <1>4, <1>5, <1>7 DEF TranscriptInv

\* The call about to be made, or just made, in its modes.
LEMMA LeadsAt ==
  ASSUME NEW s \in Seq(CallSet), NEW mu, Leads(s, mu), NEW k \in 1 .. Len(s)
  PROVE  Takes(s[k], mu[k - 1], mu[k]) /\ s[k] \in CallSet
<1>1. s[k] \in CallSet
  BY ElementOfSeq
<1> QED
  BY <1>1 DEF Leads

LEMMA NextTranscriptInv == TranscriptInv /\ [Next]_pvars => TranscriptInv'
<1> SUFFICES ASSUME TranscriptInv, [Next]_pvars PROVE TranscriptInv'
  OBVIOUS
<1>1. PICK mu : /\ Leads(calls, mu) /\ mu[0] = "start"
                /\ step = 1 => kernel = GPU!Idle
                /\ At(mu[step - 1], calls[step - 1])
  BY DEF TranscriptInv
<1>2. PICK s, t, N : /\ N \in Nat /\ s = calls /\ t = step /\ N = Len(s)
                     /\ s \in Seq(CallSet) /\ t \in 1 .. N + 1 /\ Leads(s, mu)
  BY <1>1, LenProperties DEF TranscriptInv
<1>3. PICK m, w : m = mu[t - 1] /\ w = s[t - 1] /\ At(m, w)
  BY <1>1, <1>2
<1>4. CASE UNCHANGED pvars
  <2>1. At(m, w)'
    BY <1>3, <1>4 DEF pvars, gpu, fixed, At, HostInv, KernelInv, PowInv, PowOwed, NoPow,
                      WitnessHeld, PowResponseIsTranscripts
  <2> QED
    BY <1>1, <1>2, <1>3, <1>4, <2>1 DEF TranscriptInv, pvars, gpu, fixed
<1>5. CASE step <= Len(calls) /\ (Call(calls[step]) \/ GrindWitness(calls[step]))
  <2>1. t \in 1 .. N /\ (t + 1) - 1 = t /\ t + 1 \in 1 .. N + 1 /\ t + 1 # 1
    BY <1>2, <1>5
  <2>2. PICK x, q : /\ x = s[t] /\ q = mu[t] /\ x \in CallSet /\ Takes(x, m, q)
    BY <1>2, <1>3, <2>1, LeadsAt
  <2>3. Call(x) \/ GrindWitness(x)
    BY <1>2, <1>5, <2>2
  <2>4. calls' = s /\ step' = t + 1
    BY <1>2, <2>3 DEF Call, GrindWitness, fixed
  <2>5. At(q, x)'
    <3>1. CASE x.op = "observe" /\ Call(x)
      BY <1>3, <2>2, <3>1, LaunchObserveKeeps DEF Call
    <3>2. CASE x.op = "get" /\ Call(x)
      BY <1>3, <2>2, <3>2, LaunchGetKeeps DEF Call
    <3>3. CASE GrindWitness(x)
      BY <1>3, <2>2, <3>3, GrindKeeps
    <3> QED
      BY <2>3, <3>1, <3>2, <3>3 DEF Call
  <2>6. step' - 1 = t
    BY <2>1, <2>4
  <2>7. mu[step' - 1] = q /\ calls'[step' - 1] = x
    BY <2>2, <2>4, <2>6
  <2> QED
    BY <1>1, <1>2, <2>1, <2>4, <2>5, <2>7 DEF TranscriptInv
<1>6. CASE ObserveNext \/ DrawNext \/ Retire
  <2>1. kernel # GPU!Idle
    BY <1>6 DEF ObserveNext, DrawNext, Retire, GPU!KernelObserve, GPU!KernelGet, GPU!Retire,
                GPU!KernelDone, GPU!Idle
  <2>2. t # 1 /\ t - 1 \in 1 .. N
    BY <1>1, <1>2, <2>1
  <2>3. Takes(w, mu[(t - 1) - 1], m)
    BY <1>2, <1>3, <2>2, LeadsAt
  <2>4. calls' = s /\ step' = t
    BY <1>2, <1>6 DEF ObserveNext, DrawNext, Retire, fixed
  <2>5. w = calls[step - 1]
    BY <1>2, <1>3
  <2>6. PICK p : Takes(w, p, m)
    BY <2>3
  <2>7. At(m, w)'
    <3>1. CASE ObserveNext
      BY <1>3, <2>6, <3>1, ObserveKeeps
    <3>2. CASE DrawNext
      BY <1>3, <2>5, <2>6, <3>2, DrawKeeps
    <3>3. CASE Retire
      BY <1>3, <2>6, <3>3, RetireKeeps
    <3> QED
      BY <1>6, <3>1, <3>2, <3>3
  <2>8. mu[step' - 1] = m /\ calls'[step' - 1] = w
    BY <1>3, <2>4
  <2> QED
    BY <1>1, <1>2, <2>2, <2>4, <2>7, <2>8 DEF TranscriptInv
<1> QED
  BY <1>4, <1>5, <1>6 DEF Next, Advance, Finished

LEMMA TranscriptInvSound == TranscriptInv => CallsDisciplined /\ PowResponseIsTranscripts
<1> SUFFICES ASSUME TranscriptInv PROVE CallsDisciplined /\ PowResponseIsTranscripts
  OBVIOUS
<1>1. PICK mu : Leads(calls, mu) /\ At(mu[step - 1], calls[step - 1])
  BY DEF TranscriptInv
<1>2. CallsDisciplined
  <2> SUFFICES ASSUME step <= Len(calls), calls[step].op = "observe"
               PROVE  GPU!Disciplined(calls[step].message, calls[step].len)
    BY DEF CallsDisciplined
  <2>1. PICK s, t : s = calls /\ t = step /\ s \in Seq(CallSet) /\ t \in 1 .. Len(s)
    BY LenProperties DEF TranscriptInv
  <2>2. PICK x, m, q : x = s[t] /\ m = mu[t - 1] /\ q = mu[t] /\ Takes(x, m, q)
    BY <1>1, <2>1, LeadsAt
  <2>3. HostInv(m)
    BY <1>1, <2>1, <2>2 DEF At
  <2>4. GPU!Disciplined(x.message, x.len)
    BY <2>1, <2>2, <2>3, TakesDisciplined
  <2> QED
    BY <2>1, <2>2, <2>4
<1>3. PowResponseIsTranscripts
  <2>1. PICK m, x : PowInv(m, x)
    BY <1>1 DEF At
  <2> QED
    BY <2>1 DEF PowInv, NoPow, PowResponseIsTranscripts
<1> QED
  BY <1>2, <1>3

-----------------------------------------------------------------------------
\* The invariant of the prover's transcript, for every configuration: the host is
\* in a mode that the script of calls leads to.
THEOREM TranscriptInvariant == Spec => []TranscriptInv
<1> QED BY InitTranscriptInv, NextTranscriptInv, PTL DEF Spec

\* Every observe_elements_gpu of the set-up, of prove_with_prepared_witness and of
\* fri_prove keeps the discipline the GPU challenger needs: with HostIndices, the
\* host's in_idx and out_idx are right throughout a proof, for every configuration.
THEOREM Discipline == Spec => []CallsDisciplined
<1> QED BY TranscriptInvariant, TranscriptInvSound, PTL

\* The response fri_proof_of_work_new tested is the one the transcript draws, for
\* every configuration and every sponge.
THEOREM PowAgreed == Spec => []PowResponseIsTranscripts
<1> QED BY TranscriptInvariant, TranscriptInvSound, PTL
-----------------------------------------------------------------------------
(***************************************************************************)
(* The calls spell the verifier's script.  StepsOf(x) is what a call is in *)
(* the script; a list of calls is spelled by its steps one after another.  *)
(***************************************************************************)
Entry == [op : {"observe"}, e : Item] \cup [op : {"get"}, name : Name, r : Nat]

StepsOf(x) ==
  IF x.op = "observe" THEN Verifier!Observe(x.message)
  ELSE IF x.op = "get" THEN Verifier!Get(x.name, x.r, x.n)
  ELSE <<>>

Spelling(s, t) ==
  /\ s \in Seq(CallSet) /\ t \in [1 .. Len(s) -> Seq(Entry)]
  /\ \A k \in 1 .. Len(s) : t[k] = StepsOf(s[k])

Spells(s, v) == \E t : Spelling(s, t) /\ v = FlattenSeq(t)

LEMMA SpellsSeq ==
  ASSUME NEW s, NEW v, Spells(s, v)
  PROVE  s \in Seq(CallSet) /\ v \in Seq(Entry)
<1>1. PICK t : Spelling(s, t) /\ v = FlattenSeq(t)
  BY DEF Spells
<1>2. Len(s) \in Nat /\ t \in [1 .. Len(s) -> Seq(Entry)] /\ s \in Seq(CallSet)
  BY <1>1, LenProperties DEF Spelling
<1>3. FlattenSeq(t) \in Seq(Entry)
  BY <1>2, FlattenType
<1> QED
  BY <1>1, <1>2, <1>3

LEMMA SpellsNone == Spells(<<>>, <<>>)
<1>1. PICK t : t = [k \in 1 .. 0 |-> <<>>]
  OBVIOUS
<1>2. t \in [1 .. 0 -> Seq({})] /\ t \in [1 .. 0 -> Seq(Entry)]
  BY <1>1
<1>3. FlattenSeq(t) = <<>>
  BY <1>2, FlattenEmpty
<1>4. <<>> \in Seq(CallSet) /\ Len(<<>>) = 0
  OBVIOUS
<1>5. Spelling(<<>>, t)
  BY <1>2, <1>4 DEF Spelling
<1> QED
  BY <1>3, <1>5 DEF Spells

LEMMA SpellsOne ==
  ASSUME NEW x \in CallSet, StepsOf(x) \in Seq(Entry)
  PROVE  Spells(<<x>>, StepsOf(x))
<1>1. PICK v \in Seq(Entry) : v = StepsOf(x)
  OBVIOUS
<1>2. PICK t : t = [k \in 1 .. 0 + 1 |-> v]
  OBVIOUS
<1>3. PICK u : u = [k \in 1 .. 0 |-> v]
  OBVIOUS
<1>4. /\ t \in [1 .. 0 + 1 -> Seq(Entry)] /\ u \in [1 .. 0 -> Seq(Entry)]
      /\ u \in [1 .. 0 -> Seq({})] /\ t[0 + 1] = v /\ t[1] = v
      /\ \A i \in 1 .. 0 : u[i] = t[i]
  BY <1>2, <1>3
<1>5. FlattenSeq(t) = FlattenSeq(u) \o t[0 + 1] /\ FlattenSeq(u) = <<>>
  <2>1. 0 \in Nat
    OBVIOUS
  <2> QED
    BY <1>4, <2>1, FlattenStep, FlattenEmpty
<1>6. FlattenSeq(t) = v
  BY <1>4, <1>5, ConcatEmptySeq
<1>7. <<x>> \in Seq(CallSet) /\ Len(<<x>>) = 1 /\ <<x>>[1] = x /\ \A k \in 1 .. 1 : k = 1
  OBVIOUS
<1>8. t \in [1 .. 1 -> Seq(Entry)]
  BY <1>4
<1>9. Spelling(<<x>>, t)
  BY <1>1, <1>4, <1>7, <1>8 DEF Spelling
<1> QED
  BY <1>1, <1>6, <1>9 DEF Spells

LEMMA SpellsConcat ==
  ASSUME NEW s, NEW v, NEW u, NEW w, Spells(s, v), Spells(u, w)
  PROVE  Spells(s \o u, v \o w)
<1>1. PICK a : Spelling(s, a) /\ v = FlattenSeq(a)
  BY DEF Spells
<1>2. PICK b : Spelling(u, b) /\ w = FlattenSeq(b)
  BY DEF Spells
<1>3. PICK m, n : m = Len(s) /\ n = Len(u)
  OBVIOUS
<1>4. /\ s \in Seq(CallSet) /\ u \in Seq(CallSet) /\ m \in Nat /\ n \in Nat
      /\ s \o u \in Seq(CallSet) /\ Len(s \o u) = m + n
      /\ a \in [1 .. m -> Seq(Entry)] /\ b \in [1 .. n -> Seq(Entry)]
  BY <1>1, <1>2, <1>3, ConcatProperties, LenProperties DEF Spelling
<1>5. \A i \in 1 .. m + n : (s \o u)[i] = IF i <= m THEN s[i] ELSE u[i - m]
  BY <1>3, <1>4, ConcatProperties
<1>6. PICK t : t = [i \in 1 .. m + n |-> IF i <= m THEN a[i] ELSE b[i - m]]
  OBVIOUS
<1>7. ASSUME NEW i \in 1 .. m + n
      PROVE  t[i] \in Seq(Entry) /\ t[i] = StepsOf((s \o u)[i])
  <2>1. CASE i <= m
    <3>1. i \in 1 .. m
      BY <1>4, <2>1
    <3>2. t[i] = a[i] /\ (s \o u)[i] = s[i] /\ a[i] = StepsOf(s[i])
      BY <1>1, <1>3, <1>5, <1>6, <2>1, <3>1 DEF Spelling
    <3> QED
      BY <1>4, <3>1, <3>2
  <2>2. CASE ~ (i <= m)
    <3>1. PICK j : j = i - m
      OBVIOUS
    <3>2. j \in 1 .. n
      BY <1>4, <2>2, <3>1
    <3>3. t[i] = b[j] /\ (s \o u)[i] = u[j] /\ b[j] = StepsOf(u[j])
      BY <1>2, <1>3, <1>5, <1>6, <2>2, <3>1, <3>2 DEF Spelling
    <3> QED
      BY <1>4, <3>2, <3>3
  <2> QED
    BY <2>1, <2>2
<1>8. t \in [1 .. m + n -> Seq(Entry)]
  BY <1>6, <1>7
<1>9. (\A i \in 1 .. m : t[i] = a[i]) /\ \A i \in 1 .. n : t[m + i] = b[i]
  <2>1. ASSUME NEW i \in 1 .. m PROVE t[i] = a[i]
    BY <1>4, <1>6
  <2>2. ASSUME NEW i \in 1 .. n PROVE t[m + i] = b[i]
    <3>1. m + i \in 1 .. m + n /\ ~ (m + i <= m) /\ (m + i) - m = i
      BY <1>4
    <3> QED
      BY <1>6, <3>1
  <2> QED
    BY <2>1, <2>2
<1>10. InParts(Entry, t, a, m, b, n)
  BY <1>4, <1>8, <1>9 DEF InParts
<1>11. FlattenSeq(t) = v \o w
  <2>1. FlattenSeq(t) = FlattenSeq(a) \o FlattenSeq(b)
    BY <1>10, FlattenConcat
  <2> QED
    BY <1>1, <1>2, <2>1
<1>12. Spelling(s \o u, t)
  BY <1>4, <1>7, <1>8 DEF Spelling
<1> QED
  BY <1>11, <1>12 DEF Spells

\* A loop is spelled turn by turn.
LEMMA SpellsFlatten ==
  ASSUME NEW n \in Nat, NEW s \in [1 .. n -> Seq(CallSet)], NEW v \in [1 .. n -> Seq(Entry)],
         \A i \in 1 .. n : Spells(s[i], v[i])
  PROVE  Spells(FlattenSeq(s), FlattenSeq(v))
<1>1. PICK f \in [0 .. n -> Seq(CallSet)] : Flattens(f, n, s) /\ FlattenSeq(s) = f[n]
  BY FlattenUnfolds
<1>2. PICK h \in [0 .. n -> Seq(Entry)] : Flattens(h, n, v) /\ FlattenSeq(v) = h[n]
  BY FlattenUnfolds
<1> DEFINE S == {i \in 0 .. n : Spells(f[i], h[i])}
<1>3. 0 \in S
  BY <1>1, <1>2, SpellsNone DEF Flattens
<1>4. ASSUME NEW i \in 0 .. n - 1, i \in S PROVE i + 1 \in S
  <2>1. i + 1 \in 1 .. n /\ (i + 1) - 1 = i /\ i + 1 \in 0 .. n
    OBVIOUS
  <2>2. f[i + 1] = f[i] \o s[i + 1] /\ h[i + 1] = h[i] \o v[i + 1]
    BY <1>1, <1>2, <2>1 DEF Flattens
  <2>3. Spells(f[i], h[i]) /\ Spells(s[i + 1], v[i + 1])
    BY <1>4, <2>1
  <2>4. Spells(f[i] \o s[i + 1], h[i] \o v[i + 1])
    BY <2>3, SpellsConcat
  <2> QED
    BY <2>1, <2>2, <2>4
<1> HIDE DEF S
<1>5. n \in S
  <2>1. n \in 0 .. n
    OBVIOUS
  <2>2. 0 .. n \subseteq S
    BY <1>3, <1>4, UpTo
  <2> QED
    BY <2>1, <2>2
<1> QED
  BY <1>1, <1>2, <1>5 DEF S

\* What a call of each kind is in the script.
LEMMA SpellsObserve ==
  ASSUME NEW name \in Name, NEW r \in Nat, NEW n \in Nat, NEW len \in Nat
  PROVE  Spells(ObserveCall(Numbered(name, r, n), len), Verifier!Observe(Numbered(name, r, n)))
<1>1. PICK s : s = Numbered(name, r, n)
  OBVIOUS
<1>2. s \in Seq(Item) /\ Len(s) = n /\ DOMAIN s = 1 .. n /\ \A j \in 1 .. n : s[j] \in Item
  BY <1>1, NumberedSeq, LenProperties
<1>3. PICK x : x = [op |-> "observe", message |-> s, len |-> len]
  OBVIOUS
<1>4. x \in CallSet /\ x.op = "observe" /\ x.message = s
  BY <1>2, <1>3 DEF CallSet
<1>5. PICK v : v = [j \in 1 .. n |-> [op |-> "observe", e |-> s[j]]]
  OBVIOUS
<1>6. StepsOf(x) = v
  BY <1>2, <1>4, <1>5 DEF StepsOf, Verifier!Observe
<1>7. v \in [1 .. n -> Entry]
  BY <1>2, <1>5 DEF Entry
<1>8. v \in Seq(Entry)
  BY <1>7, SeqDef
<1>9. Spells(<<x>>, v)
  BY <1>4, <1>6, <1>8, SpellsOne
<1>10. ObserveCall(s, len) = <<x>> /\ Verifier!Observe(s) = v
  BY <1>2, <1>3, <1>5 DEF ObserveCall, Verifier!Observe
<1> QED
  BY <1>1, <1>9, <1>10

LEMMA SpellsGet ==
  ASSUME NEW name \in Name, NEW r \in Nat, NEW n \in Nat
  PROVE  Spells(GetCall(name, r, n), Verifier!Get(name, r, n))
<1>1. PICK x : x = [op |-> "get", name |-> name, r |-> r, n |-> n]
  OBVIOUS
<1>2. x \in CallSet /\ x.op = "get" /\ x.name = name /\ x.r = r /\ x.n = n
  BY <1>1 DEF CallSet
<1>3. PICK v : v = Verifier!Get(name, r, n)
  OBVIOUS
<1>4. StepsOf(x) = v
  BY <1>2, <1>3 DEF StepsOf
<1>5. v \in [1 .. n -> Entry]
  BY <1>3 DEF Verifier!Get, Entry
<1>6. v \in Seq(Entry)
  BY <1>5, SeqDef
<1>7. Spells(<<x>>, v)
  BY <1>2, <1>4, <1>6, SpellsOne
<1> QED
  BY <1>1, <1>3, <1>7 DEF GetCall

LEMMA SpellsGrind == Spells(GrindCall, <<>>)
<1>1. PICK x : x = [op |-> "grind"]
  OBVIOUS
<1>2. x \in CallSet /\ x.op = "grind" /\ GrindCall = <<x>>
  BY <1>1 DEF CallSet, GrindCall
<1>3. StepsOf(x) = <<>> /\ <<>> \in Seq(Entry)
  BY <1>2 DEF StepsOf
<1> QED
  BY <1>2, <1>3, SpellsOne

\* The prover observes the whole vector of openings at once, the verifier the parts
\* that get_opening_set cut it into: the parts cover it in order.
LEMMA SliceConcat ==
  ASSUME NEW a \in Nat, NEW b \in Nat, NEW c \in Nat, a <= b, b <= c
  PROVE  Verifier!Slice(a, b) \o Verifier!Slice(b, c) = Verifier!Slice(a, c)
<1>1. PICK m, n : m = 2 * (b - a) /\ n = 2 * (c - b)
  OBVIOUS
<1>2. m \in Nat /\ n \in Nat /\ m + n = 2 * (c - a) /\ 2 * b = 2 * a + m
  BY <1>1
<1>3. PICK s, t, u : /\ s = [j \in 1 .. m |-> <<"opening", 0, 2 * a + j>>]
                     /\ t = [j \in 1 .. n |-> <<"opening", 0, 2 * b + j>>]
                     /\ u = [j \in 1 .. m + n |-> <<"opening", 0, 2 * a + j>>]
  OBVIOUS
<1> DEFINE V == {<<"opening", 0, j>> : j \in Nat}
<1>4. \A j \in Nat : <<"opening", 0, j>> \in V
  OBVIOUS
<1> HIDE DEF V
<1>5. s \in [1 .. m -> V] /\ t \in [1 .. n -> V] /\ u \in [1 .. m + n -> V]
  <2>1. \A j \in Nat : 2 * a + j \in Nat /\ 2 * b + j \in Nat
    OBVIOUS
  <2> QED
    BY <1>2, <1>3, <1>4, <2>1
<1>6. /\ s \in Seq(V) /\ t \in Seq(V) /\ u \in Seq(V)
      /\ Len(s) = m /\ Len(t) = n /\ Len(u) = m + n
  BY <1>2, <1>5, LenProperties
<1>7. PICK w : w = s \o t
  OBVIOUS
<1>8. /\ w \in Seq(V) /\ Len(w) = m + n
      /\ \A i \in 1 .. m + n : w[i] = IF i <= m THEN s[i] ELSE t[i - m]
  BY <1>6, <1>7, ConcatProperties
<1>9. ASSUME NEW i \in 1 .. m + n PROVE w[i] = u[i]
  <2>1. u[i] = <<"opening", 0, 2 * a + i>>
    BY <1>3
  <2>2. CASE i <= m
    <3>1. i \in 1 .. m
      BY <1>2, <2>2
    <3> QED
      BY <1>3, <1>8, <2>1, <2>2, <3>1
  <2>3. CASE ~ (i <= m)
    <3>1. PICK k : k = i - m
      OBVIOUS
    <3>2. k \in 1 .. n /\ 2 * b + k = 2 * a + i
      BY <1>2, <2>3, <3>1
    <3>3. t[k] = <<"opening", 0, 2 * b + k>>
      BY <1>3, <3>2
    <3> QED
      BY <1>8, <2>1, <2>3, <3>1, <3>2, <3>3
  <2> QED
    BY <2>2, <2>3
<1>10. DOMAIN w = 1 .. m + n /\ DOMAIN u = 1 .. m + n /\ w = [i \in 1 .. m + n |-> w[i]]
  BY <1>5, <1>8, LenProperties
<1>11. w = u
  BY <1>5, <1>9, <1>10
<1> QED
  BY <1>1, <1>2, <1>3, <1>7, <1>11 DEF Verifier!Slice, Verifier!D

LEMMA OpeningsInOrder ==
  ASSUME NEW c \in Configs
  PROVE  Verifier!ObservedOpenings(c) = Numbered("opening", 0, NumOpenings(c))
<1>1. PICK k, s, w, q, p, z \in Nat :
        /\ k = c.num_constants /\ s = c.num_routed_wires /\ w = c.num_wires
        /\ p = c.num_partial_products /\ q = c.num_quotients /\ z = c.num_challenges /\ z <= p
  <2>1. c \in Config /\ c.num_challenges <= c.num_partial_products
    BY ConfigsAssumption
  <2> QED
    BY <2>1 DEF Config
<1>2. PICK a, b, d, e, f, g \in Nat :
        /\ a = k + s /\ b = a + w /\ d = b + z /\ e = b + p /\ f = k + s + w + p + q /\ g = f + z
  OBVIOUS
<1>3. 0 <= k /\ k <= a /\ a <= b /\ b <= d /\ d <= e /\ e <= f /\ f <= g
  BY <1>1, <1>2
<1>4. Verifier!ObservedOpenings(c)
        = Verifier!Slice(0, k) \o Verifier!Slice(k, a) \o Verifier!Slice(a, b) \o Verifier!Slice(b, d)
          \o Verifier!Slice(d, e) \o Verifier!Slice(e, f) \o Verifier!Slice(f, g)
  BY <1>1, <1>2 DEF Verifier!ObservedOpenings, Verifier!OpeningSet, Verifier!NumConstSigmas,
                    Verifier!NumPolys
<1>5. /\ Verifier!Slice(0, k) \o Verifier!Slice(k, a) = Verifier!Slice(0, a)
      /\ Verifier!Slice(0, a) \o Verifier!Slice(a, b) = Verifier!Slice(0, b)
      /\ Verifier!Slice(0, b) \o Verifier!Slice(b, d) = Verifier!Slice(0, d)
  <2>1. 0 \in Nat /\ 0 <= a /\ 0 <= b
    OBVIOUS
  <2> QED
    BY <1>3, <2>1, SliceConcat
<1>6. /\ Verifier!Slice(0, d) \o Verifier!Slice(d, e) = Verifier!Slice(0, e)
      /\ Verifier!Slice(0, e) \o Verifier!Slice(e, f) = Verifier!Slice(0, f)
      /\ Verifier!Slice(0, f) \o Verifier!Slice(f, g) = Verifier!Slice(0, g)
  <2>1. 0 \in Nat /\ 0 <= d /\ 0 <= e /\ 0 <= f
    OBVIOUS
  <2> QED
    BY <1>3, <2>1, SliceConcat
<1>7. Verifier!ObservedOpenings(c) = Verifier!Slice(0, g)
  BY <1>4, <1>5, <1>6
<1>8. Verifier!Slice(0, g) = Numbered("opening", 0, NumOpenings(c))
  <2>1. NumOpenings(c) = 2 * (g - 0)
    BY <1>1, <1>2 DEF NumOpenings, D
  <2>2. \A j \in 1 .. 2 * (g - 0) : 2 * 0 + j = j
    OBVIOUS
  <2> QED
    BY <2>1, <2>2 DEF Verifier!Slice, Verifier!D, Numbered
<1> QED
  BY <1>7, <1>8

\* The verifier's operators that are the prover's.
LEMMA SameOperators ==
  /\ Verifier!Two = Two
  /\ \A s : Verifier!FlattenSeq(s) = FlattenSeq(s)
  /\ \A name, r, n : Verifier!Named(name, r, n) = Numbered(name, r, n)
<1>1. Verifier!Two = Two
  BY DEF Verifier!Two, Two
<1>2. ASSUME NEW s PROVE Verifier!FlattenSeq(s) = FlattenSeq(s)
  BY DEF Verifier!FlattenSeq, FlattenSeq
<1>3. ASSUME NEW name, NEW r, NEW n PROVE Verifier!Named(name, r, n) = Numbered(name, r, n)
  BY DEF Verifier!Named, Numbered
<1> QED
  BY <1>1, <1>2, <1>3

LEMMA SpellsCap ==
  ASSUME NEW c \in Configs, NEW name \in Name, NEW r \in Nat, NEW l \in Nat
  PROVE  Spells(ObserveCap(c, name, r, l), Verifier!Observe(Verifier!Cap(c, name, r)))
<1>1. PICK n, len : n = cap_len(c) /\ len = TreeLen(l)
  OBVIOUS
<1>2. n \in Nat /\ len \in Nat
  <2>1. c.cap_height \in Nat
    BY ConfigFacts
  <2>2. Two[c.cap_height] \in Nat /\ Two[l] \in Nat
    BY <2>1, TwoPositive
  <2> QED
    BY <1>1, <2>2 DEF cap_len, TreeLen
<1>3. Verifier!Cap(c, name, r) = Numbered(name, r, n)
  BY <1>1, SameOperators DEF Verifier!Cap, Verifier!HashLen, cap_len
<1>4. Spells(ObserveCall(Numbered(name, r, n), len), Verifier!Observe(Numbered(name, r, n)))
  BY <1>2, SpellsObserve
<1> QED
  BY <1>1, <1>3, <1>4 DEF ObserveCap

LEMMA SpellsRound ==
  ASSUME NEW c \in Configs, NEW r \in 1 .. Len(c.arity_bits)
  PROVE  Spells(ObserveCap(c, "fri", r, Bits(c) - ArityBits(c, r)) \o GetCall("fri_beta", r, D),
                Verifier!Observe(Verifier!Cap(c, "fri", r)) \o Verifier!Get("fri_beta", r, D))
<1>1. "fri" \in Name /\ "fri_beta" \in Name /\ D \in Nat
  BY DEF Name, D
<1>2. r \in Nat /\ Bits(c) - ArityBits(c, r) \in Nat
  BY ConfigFacts
<1>3. Spells(ObserveCap(c, "fri", r, Bits(c) - ArityBits(c, r)),
             Verifier!Observe(Verifier!Cap(c, "fri", r)))
  BY <1>1, <1>2, SpellsCap
<1>4. Spells(GetCall("fri_beta", r, D), Verifier!Get("fri_beta", r, D))
  BY <1>1, <1>2, SpellsGet
<1> QED
  BY <1>3, <1>4, SpellsConcat

\* The polynomial FRI ends with: the prover divides the length of the last round's
\* buffer by the blow-up, the verifier takes the degree left.
LEMMA FinalLenAgrees ==
  ASSUME NEW c \in Configs
  PROVE  /\ FinalCoefficientsLen(c) \div Two[c.rate_bits] = D * Verifier!FinalPolyLen(c)
         /\ FinalCoefficientsLen(c) \in Nat
         /\ FinalCoefficientsLen(c) \div Two[c.rate_bits] \in Nat
<1>1. PICK n \in Nat \ {0} : n = Len(c.arity_bits)
  BY ConfigFacts
<1>2. PICK a \in Nat, d \in Nat, rate \in Nat :
        a = ArityBits(c, n) /\ d = c.degree_bits /\ rate = c.rate_bits /\ a + 2 <= d
  <2>1. n \in 1 .. n
    BY <1>1
  <2> QED
    BY <1>1, <2>1, ConfigFacts
<1>3. PICK k \in Nat : k + 2 = d - a /\ (d + rate) - a = (k + 2) + rate
  <2>1. d - a - 2 \in Nat /\ (d - a - 2) + 2 = d - a /\ (d + rate) - a = (d - a - 2 + 2) + rate
    BY <1>2
  <2> QED
    BY <2>1
<1>4. PICK len, m : len = 2 * Two[(k + 2) + rate] /\ m = len \div Two[rate]
  OBVIOUS
<1>5. m \in Nat /\ len \in Nat /\ m = 2 * Two[k + 2]
  BY <1>4, FinalLens
<1>6. FinalCoefficientsLen(c) = len
  BY <1>1, <1>2, <1>3, <1>4 DEF FinalCoefficientsLen, Bits, D
<1>7. Verifier!FinalPolyLen(c) = Two[k + 2]
  <2>1. a = FoldLeft(LAMBDA x, y : x + y, 0, c.arity_bits)
    <3>1. SubSeq(c.arity_bits, 1, Len(c.arity_bits)) = c.arity_bits
      <4>1. c.arity_bits \in Seq(Nat)
        BY ConfigFacts
      <4> QED
        BY <4>1
    <3> QED
      BY <1>1, <1>2, <3>1, Zenon DEF ArityBits
  <2>2. Verifier!FinalPolyLen(c)
          = Two[c.degree_bits - FoldLeft(LAMBDA x, y : x + y, 0, c.arity_bits)]
    BY Zenon DEF Verifier!FinalPolyLen, Verifier!Two, Two, FoldLeft, Verifier!FoldLeft,
                 MapThenFoldSet, Verifier!MapThenFoldSet, Max, Verifier!Max
  <2>3. Verifier!FinalPolyLen(c) = Two[d - a]
    BY <1>2, <2>1, <2>2, Zenon
  <2> QED
    BY <1>3, <2>3
<1> QED
  BY <1>2, <1>4, <1>5, <1>6, <1>7 DEF D

LEMMA SpellsFri ==
  ASSUME NEW c \in Configs
  PROVE  \E w : /\ Spells(FriCommittedTrees(c), w)
                /\ w = FlattenSeq([r \in DOMAIN c.arity_bits |->
                                     Verifier!Observe(Verifier!Cap(c, "fri", r))
                                     \o Verifier!Get("fri_beta", r, D)])
                       \o Verifier!Observe(Numbered("final_poly", 0, D * Verifier!FinalPolyLen(c)))
<1>1. PICK n \in Nat : n = Len(c.arity_bits) /\ DOMAIN c.arity_bits = 1 .. n
  BY ConfigFacts
<1> DEFINE Round(r) == ObserveCap(c, "fri", r, Bits(c) - ArityBits(c, r)) \o GetCall("fri_beta", r, D)
           Turn(r) == Verifier!Observe(Verifier!Cap(c, "fri", r)) \o Verifier!Get("fri_beta", r, D)
           rounds == [r \in 1 .. n |-> Round(r)]
           turns == [r \in 1 .. n |-> Turn(r)]
           F == FinalCoefficientsLen(c)
           m == F \div Two[c.rate_bits]
<1>2. \A r \in 1 .. n : Spells(Round(r), Turn(r))
  BY <1>1, SpellsRound
<1>3. FriCommittedTrees(c) = FlattenSeq(rounds) \o ObserveCall(Numbered("final_poly", 0, m), F)
  BY <1>1 DEF FriCommittedTrees
<1>4. FlattenSeq([r \in DOMAIN c.arity_bits |-> Turn(r)]) = FlattenSeq(turns)
  BY <1>1
<1> HIDE DEF Round, Turn
<1>5. /\ rounds \in [1 .. n -> Seq(CallSet)] /\ turns \in [1 .. n -> Seq(Entry)]
      /\ \A r \in 1 .. n : Spells(rounds[r], turns[r])
  <2>1. \A r \in 1 .. n : Round(r) \in Seq(CallSet) /\ Turn(r) \in Seq(Entry)
    BY <1>2, SpellsSeq
  <2> QED
    BY <1>2, <2>1
<1> HIDE DEF rounds, turns
<1>6. Spells(FlattenSeq(rounds), FlattenSeq(turns))
  BY <1>5, SpellsFlatten
<1>7. m = D * Verifier!FinalPolyLen(c) /\ F \in Nat /\ m \in Nat
  BY FinalLenAgrees
<1> HIDE DEF m, F
<1>8. Spells(ObserveCall(Numbered("final_poly", 0, m), F), Verifier!Observe(Numbered("final_poly", 0, m)))
  <2>1. "final_poly" \in Name /\ 0 \in Nat
    BY DEF Name
  <2> QED
    BY <1>7, <2>1, SpellsObserve
<1>9. PICK w : w = FlattenSeq(turns) \o Verifier!Observe(Numbered("final_poly", 0, m))
  OBVIOUS
<1>10. Spells(FriCommittedTrees(c), w)
  BY <1>3, <1>6, <1>8, <1>9, SpellsConcat
<1>11. w = FlattenSeq([r \in DOMAIN c.arity_bits |-> Turn(r)])
           \o Verifier!Observe(Numbered("final_poly", 0, D * Verifier!FinalPolyLen(c)))
  BY <1>4, <1>7, <1>9, Zenon
<1> QED
  BY <1>10, <1>11, Zenon DEF Turn

LEMMA SpellsProofOfWork ==
  Spells(ProofOfWork, Verifier!Observe(Numbered("pow_witness", 0, 1)) \o Verifier!Get("pow_response", 0, 1))
<1>1. "pow_witness" \in Name /\ "pow_response" \in Name /\ 0 \in Nat /\ 1 \in Nat
  BY DEF Name
<1>2. PICK a, b : a = ObserveCall(Numbered("pow_witness", 0, 1), 1) /\ b = GetCall("pow_response", 0, 1)
  OBVIOUS
<1>3. PICK v, w : v = Verifier!Observe(Numbered("pow_witness", 0, 1)) /\ w = Verifier!Get("pow_response", 0, 1)
  OBVIOUS
<1>4. Spells(a, v) /\ Spells(b, w)
  BY <1>1, <1>2, <1>3, SpellsObserve, SpellsGet
<1>5. Spells(GrindCall \o a, <<>> \o v)
  BY <1>4, SpellsGrind, SpellsConcat
<1>6. <<>> \o v = v
  BY <1>4, SpellsSeq, ConcatEmptySeq
<1>7. Spells(GrindCall \o a \o b, v \o w)
  BY <1>4, <1>5, <1>6, SpellsConcat
<1> QED
  BY <1>2, <1>3, <1>7 DEF ProofOfWork

\* The prover's calls, element by element, are the verifier's script: what the prover
\* observes and draws is, in number and in order, what get_challenges and
\* fri_challenges do with the assembled proof, for every configuration.
LEMMA CallsSpellScript ==
  ASSUME NEW c \in Configs
  PROVE  Spells(Calls(c), Verifier!Script(c))
<1>1. PICK a1, a2, a3, a4, a5, a6, a7, a8, a9, a10, a11, a12, a13, a14 :
        /\ a1 = ObserveCall(Numbered("circuit_digest", 0, 4), 4)
        /\ a2 = ObserveCall(Numbered("public_inputs_hash", 0, 4), 4)
        /\ a3 = ObserveCap(c, "wires", 0, Bits(c))
        /\ a4 = GetCall("beta", 0, c.num_challenges)
        /\ a5 = GetCall("gamma", 0, c.num_challenges)
        /\ a6 = ObserveCap(c, "partial_products", 0, Bits(c))
        /\ a7 = GetCall("alpha", 0, c.num_challenges)
        /\ a8 = ObserveCap(c, "quotients", 0, Bits(c))
        /\ a9 = GetCall("zeta", 0, D)
        /\ a10 = ObserveCall(Numbered("opening", 0, NumOpenings(c)), NumOpenings(c))
        /\ a11 = GetCall("fri_alpha", 0, D)
        /\ a12 = FriCommittedTrees(c)
        /\ a13 = ProofOfWork
        /\ a14 = GetCall("query", 0, c.num_query_rounds)
  OBVIOUS
<1>2. Calls(c) = a1 \o a2 \o a3 \o a4 \o a5 \o a6 \o a7 \o a8 \o a9 \o a10 \o a11 \o a12 \o a13 \o a14
  BY <1>1 DEF Calls
<1>3. PICK v1, v2, v3, v4, v5, v6, v7, v8, v9, v10, v11 :
        /\ v1 = Verifier!Observe(Numbered("circuit_digest", 0, 4))
        /\ v2 = Verifier!Observe(Numbered("public_inputs_hash", 0, 4))
        /\ v3 = Verifier!Observe(Verifier!Cap(c, "wires", 0))
        /\ v4 = Verifier!Get("beta", 0, c.num_challenges)
        /\ v5 = Verifier!Get("gamma", 0, c.num_challenges)
        /\ v6 = Verifier!Observe(Verifier!Cap(c, "partial_products", 0))
        /\ v7 = Verifier!Get("alpha", 0, c.num_challenges)
        /\ v8 = Verifier!Observe(Verifier!Cap(c, "quotients", 0))
        /\ v9 = Verifier!Get("zeta", 0, D)
        /\ v10 = Verifier!Observe(Numbered("opening", 0, NumOpenings(c)))
        /\ v11 = Verifier!Get("fri_alpha", 0, D)
  OBVIOUS
<1>4. PICK f, l, w, p, q :
        /\ f = FlattenSeq([r \in DOMAIN c.arity_bits |->
                             Verifier!Observe(Verifier!Cap(c, "fri", r)) \o Verifier!Get("fri_beta", r, D)])
        /\ l = Verifier!Observe(Numbered("final_poly", 0, D * Verifier!FinalPolyLen(c)))
        /\ w = Verifier!Observe(Numbered("pow_witness", 0, 1))
        /\ p = Verifier!Get("pow_response", 0, 1)
        /\ q = Verifier!Get("query", 0, c.num_query_rounds)
  OBVIOUS
<1>5. Verifier!FriScript(c) = v11 \o f \o l \o w \o p \o q
  BY <1>3, <1>4, SameOperators DEF Verifier!FriScript, Verifier!D, D
<1>6. Verifier!Script(c) = v1 \o v2 \o v3 \o v4 \o v5 \o v6 \o v7 \o v8 \o v9 \o v10 \o Verifier!FriScript(c)
  BY <1>3, SameOperators, OpeningsInOrder DEF Verifier!Script, Verifier!HashLen, Verifier!D, D
<1>7. /\ "circuit_digest" \in Name /\ "public_inputs_hash" \in Name /\ "wires" \in Name
      /\ "beta" \in Name /\ "gamma" \in Name /\ "partial_products" \in Name
      /\ "alpha" \in Name /\ "quotients" \in Name /\ "zeta" \in Name /\ "opening" \in Name
      /\ "fri_alpha" \in Name /\ "query" \in Name /\ "final_poly" \in Name
      /\ "pow_witness" \in Name /\ "pow_response" \in Name
      /\ 0 \in Nat /\ 1 \in Nat /\ 4 \in Nat /\ D \in Nat
  BY DEF Name, D
<1>8. /\ c.num_challenges \in Nat /\ c.num_query_rounds \in Nat
      /\ Bits(c) \in Nat /\ NumOpenings(c) \in Nat
  BY ConfigFacts
<1>9. Spells(a1, v1) /\ Spells(a2, v2) /\ Spells(a10, v10)
  BY <1>1, <1>3, <1>7, <1>8, SpellsObserve
<1>10. Spells(a3, v3) /\ Spells(a6, v6) /\ Spells(a8, v8)
  BY <1>1, <1>3, <1>7, <1>8, SpellsCap
<1>11. Spells(a4, v4) /\ Spells(a5, v5) /\ Spells(a7, v7)
  BY <1>1, <1>3, <1>7, <1>8, SpellsGet
<1>12. Spells(a9, v9) /\ Spells(a11, v11) /\ Spells(a14, q)
  BY <1>1, <1>3, <1>4, <1>7, <1>8, SpellsGet
<1>13. Spells(a12, f \o l)
  BY <1>1, <1>4, SpellsFri
<1>14. Spells(a13, w \o p)
  BY <1>1, <1>4, SpellsProofOfWork
<1>15. PICK b, v : /\ b = a1 \o a2 \o a3 \o a4 \o a5 /\ v = v1 \o v2 \o v3 \o v4 \o v5 /\ Spells(b, v)
  <2>1. Spells(a1 \o a2, v1 \o v2)
    BY <1>9, SpellsConcat
  <2>2. Spells(a1 \o a2 \o a3, v1 \o v2 \o v3)
    BY <1>10, <2>1, SpellsConcat
  <2>3. Spells(a1 \o a2 \o a3 \o a4, v1 \o v2 \o v3 \o v4)
    BY <1>11, <2>2, SpellsConcat
  <2>4. Spells(a1 \o a2 \o a3 \o a4 \o a5, v1 \o v2 \o v3 \o v4 \o v5)
    BY <1>11, <2>3, SpellsConcat
  <2> QED
    BY <2>4
<1>16. PICK d, u : /\ d = b \o a6 \o a7 \o a8 \o a9 \o a10 /\ u = v \o v6 \o v7 \o v8 \o v9 \o v10
                   /\ Spells(d, u)
  <2>1. Spells(b \o a6, v \o v6)
    BY <1>10, <1>15, SpellsConcat
  <2>2. Spells(b \o a6 \o a7, v \o v6 \o v7)
    BY <1>11, <2>1, SpellsConcat
  <2>3. Spells(b \o a6 \o a7 \o a8, v \o v6 \o v7 \o v8)
    BY <1>10, <2>2, SpellsConcat
  <2>4. Spells(b \o a6 \o a7 \o a8 \o a9, v \o v6 \o v7 \o v8 \o v9)
    BY <1>12, <2>3, SpellsConcat
  <2>5. Spells(b \o a6 \o a7 \o a8 \o a9 \o a10, v \o v6 \o v7 \o v8 \o v9 \o v10)
    BY <1>9, <2>4, SpellsConcat
  <2> QED
    BY <2>5
<1>17. Spells(d \o a11 \o a12 \o a13 \o a14, u \o v11 \o (f \o l) \o (w \o p) \o q)
  <2>1. Spells(d \o a11, u \o v11)
    BY <1>12, <1>16, SpellsConcat
  <2>2. Spells(d \o a11 \o a12, u \o v11 \o (f \o l))
    BY <1>13, <2>1, SpellsConcat
  <2>3. Spells(d \o a11 \o a12 \o a13, u \o v11 \o (f \o l) \o (w \o p))
    BY <1>14, <2>2, SpellsConcat
  <2> QED
    BY <1>12, <2>3, SpellsConcat
<1>18. u \in Seq(Entry) /\ v11 \in Seq(Entry) /\ q \in Seq(Entry)
  BY <1>12, <1>16, SpellsSeq
<1>19. f \in Seq(Entry) /\ l \in Seq(Entry) /\ w \in Seq(Entry) /\ p \in Seq(Entry)
  <2>1. l \in Seq(Entry)
    <3>1. D * Verifier!FinalPolyLen(c) \in Nat
      BY FinalLenAgrees
    <3>2. Spells(ObserveCall(Numbered("final_poly", 0, D * Verifier!FinalPolyLen(c)), 1), l)
      BY <1>4, <1>7, <3>1, SpellsObserve
    <3> QED
      BY <3>2, SpellsSeq
  <2>2. w \in Seq(Entry) /\ p \in Seq(Entry)
    <3>1. Spells(ObserveCall(Numbered("pow_witness", 0, 1), 1), w) /\ Spells(GetCall("pow_response", 0, 1), p)
      BY <1>4, <1>7, SpellsObserve, SpellsGet
    <3> QED
      BY <3>1, SpellsSeq
  <2>3. f \in Seq(Entry)
    <3>1. PICK n \in Nat : n = Len(c.arity_bits) /\ DOMAIN c.arity_bits = 1 .. n
      BY ConfigFacts
    <3> DEFINE Turn(r) == Verifier!Observe(Verifier!Cap(c, "fri", r)) \o Verifier!Get("fri_beta", r, D)
    <3>2. \A r \in 1 .. n : Turn(r) \in Seq(Entry)
      BY <3>1, SpellsRound, SpellsSeq
    <3>3. f = FlattenSeq([r \in 1 .. n |-> Turn(r)])
      BY <1>4, <3>1
    <3> HIDE DEF Turn
    <3>4. PICK t : t = [r \in 1 .. n |-> Turn(r)]
      OBVIOUS
    <3>5. t \in [1 .. n -> Seq(Entry)]
      BY <3>2, <3>4
    <3>6. FlattenSeq(t) \in Seq(Entry)
      BY <3>5, FlattenType
    <3> QED
      BY <3>3, <3>4, <3>6
  <2> QED
    BY <2>1, <2>2, <2>3
<1>20. u \o (v11 \o f \o l \o w \o p \o q) = u \o v11 \o (f \o l) \o (w \o p) \o q
  <2>1. PICK x, y : x = f \o l /\ y = w \o p
    OBVIOUS
  <2>2. u \in Seq(Entry)
    BY <1>18
  <2>3. v11 \in Seq(Entry)
    BY <1>18
  <2>4. q \in Seq(Entry)
    BY <1>18
  <2>5. x \in Seq(Entry) /\ v11 \o f \o l = v11 \o x
    <3>1. v11 \in Seq(Entry) /\ f \in Seq(Entry) /\ l \in Seq(Entry)
      BY <1>18, <1>19
    <3> QED
      BY <2>1, <3>1, ConcatAssociative, ConcatProperties
  <2>6. PICK g : g = v11 \o x
    OBVIOUS
  <2>7. g \in Seq(Entry)
    BY <2>3, <2>5, <2>6, ConcatProperties
  <2>8. y \in Seq(Entry) /\ g \o w \o p = g \o y
    <3>1. w \in Seq(Entry) /\ p \in Seq(Entry)
      BY <1>19
    <3> QED
      BY <2>1, <2>7, <3>1, ConcatAssociative, ConcatProperties
  <2>9. PICK h : h = g \o y
    OBVIOUS
  <2>10. h \in Seq(Entry)
    BY <2>7, <2>8, <2>9, ConcatProperties
  <2>11. u \o (h \o q) = (u \o h) \o q
    BY <2>2, <2>4, <2>10, ConcatAssociative
  <2>12. u \o (g \o y) = (u \o g) \o y
    <3>1. y \in Seq(Entry)
      BY <2>8
    <3> QED
      BY <2>2, <2>7, <3>1, ConcatAssociative
  <2>13. u \o (v11 \o x) = (u \o v11) \o x
    <3>1. x \in Seq(Entry)
      BY <2>5
    <3> QED
      BY <2>2, <2>3, <3>1, ConcatAssociative
  <2>14. v11 \o f \o l \o w \o p = h
    BY <2>5, <2>6, <2>8, <2>9, Zenon
  <2> QED
    BY <2>1, <2>6, <2>9, <2>11, <2>12, <2>13, <2>14, Zenon
<1>21. Calls(c) = d \o a11 \o a12 \o a13 \o a14
  BY <1>2, <1>15, <1>16, Zenon
<1>22. Verifier!Script(c) = u \o (v11 \o f \o l \o w \o p \o q)
  BY <1>5, <1>6, <1>15, <1>16, Zenon
<1> QED
  BY <1>17, <1>20, <1>21, <1>22, Zenon

-----------------------------------------------------------------------------
(***************************************************************************)
(* The steps of the verifier.  The challenger's own proofs are taken for   *)
(* any non-empty message and any buffer; what they ask of the field and of *)
(* the permutation is SpongeTyped, with the elements of the proof among    *)
(* the field's.                                                            *)
(***************************************************************************)
P == INSTANCE ChallengerGpu_proofs WITH
  Messages <- Seq(Element) \ {<<>>}, BufferLens <- Nat, Counts <- Nat \ {0}

SpongeTyped ==
  /\ Zero \in Element /\ Item \subseteq Element /\ ZeroSponge \in Sponge
  /\ \A s \in Sponge : Squeeze(s) \in [1 .. 8 -> Element]
  /\ \A s \in Sponge, n \in 0 .. 8 :
       \A block \in [1 .. n -> Element] : Absorb(s, block) \in Sponge

\* The two instances of the challenger are the same.
LEMMA SameLaunches ==
  ASSUME NEW m, NEW n
  PROVE  /\ GPU!LaunchObserve(m, n) => P!LaunchObserve(m, n)
         /\ GPU!LaunchGet(n) => P!LaunchGet(n)
         /\ GPU!Disciplined(m, n) => P!Disciplined(m, n)
  BY DEF GPU!LaunchObserve, P!LaunchObserve, GPU!LaunchGet, P!LaunchGet,
         GPU!Disciplined, P!Disciplined, GPU!InIdxAfterObserve, P!InIdxAfterObserve,
         GPU!OutIdxAfterObserve, P!OutIdxAfterObserve, GPU!InIdxAfterGet, P!InIdxAfterGet,
         GPU!OutIdxAfterGet, P!OutIdxAfterGet, GPU!Rate, P!Rate, GPU!Idle, P!Idle,
         GPU!device, P!device

LEMMA SameSteps ==
  /\ GPU!New => P!New
  /\ GPU!KernelObserve => P!KernelObserve
  /\ GPU!KernelGet => P!KernelGet
  /\ GPU!Retire => P!Retire
  BY DEF GPU!New, P!New, GPU!KernelObserve, P!KernelObserve, GPU!KernelGet, P!KernelGet,
         GPU!Retire, P!Retire, GPU!KernelDone, P!KernelDone, GPU!LastBlock, P!LastBlock,
         GPU!PendingInput, P!PendingInput, GPU!Prefix, P!Prefix, GPU!Rate, P!Rate,
         GPU!Idle, P!Idle, GPU!device, P!device

\* And so are the two CPU challengers they are mapped to.
LEMMA SameChallenger ==
  /\ P!CPU!New => Verifier!New
  /\ P!CPU!GetChallenge => Verifier!GetChallenge
  /\ \A e : P!CPU!ObserveElement(e) => Verifier!ObserveElement(e)
  /\ UNCHANGED P!CPU!cvars => UNCHANGED Verifier!cvars
  BY DEF P!CPU!New, Verifier!New, P!CPU!GetChallenge, Verifier!GetChallenge,
         P!CPU!ObserveElement, Verifier!ObserveElement, P!CPU!cvars, Verifier!cvars,
         P!CPU!Rate, Verifier!Rate, P!Prefix, GPU!Prefix, P!InUse, GPU!InUse,
         P!Available, GPU!Available, P!Rate, GPU!Rate

\* What each step of the challenger is to the verifier's: a launch, a retirement or
\* a step elsewhere is nothing, an element of a kernel is one observe or one get.
LEMMA ChallengerSteps ==
  ASSUME SpongeTyped, P!TypeOK, P!ChallengerInv
  PROVE  /\ \A m \in Seq(Item), n \in Nat :
              m # <<>> /\ GPU!Disciplined(m, n) /\ GPU!LaunchObserve(m, n)
                => P!TypeOK' /\ P!ChallengerInv' /\ UNCHANGED Verifier!cvars
         /\ \A n \in Nat \ {0} :
              GPU!LaunchGet(n) => P!TypeOK' /\ P!ChallengerInv' /\ UNCHANGED Verifier!cvars
         /\ GPU!Retire => P!TypeOK' /\ P!ChallengerInv' /\ UNCHANGED Verifier!cvars
         /\ UNCHANGED gpu => P!TypeOK' /\ P!ChallengerInv' /\ UNCHANGED Verifier!cvars
         /\ GPU!KernelObserve =>
              /\ P!TypeOK' /\ P!ChallengerInv'
              /\ Verifier!ObserveElement(kernel.message[kernel.i + 1])
         /\ GPU!KernelGet => P!TypeOK' /\ P!ChallengerInv' /\ Verifier!GetChallenge
<1>1. [P!Transcribe]_(P!gvars) => P!TypeOK' /\ P!ChallengerInv'
  BY P!TranscribeInv DEF SpongeTyped, P!Rate
<1>2. ASSUME NEW m \in Seq(Item), NEW n \in Nat, m # <<>>,
             GPU!Disciplined(m, n), GPU!LaunchObserve(m, n)
      PROVE  P!TypeOK' /\ P!ChallengerInv' /\ UNCHANGED Verifier!cvars
  <2>1. m \in Seq(Element) \ {<<>>}
    BY <1>2 DEF SpongeTyped
  <2>2. P!Disciplined(m, n) /\ P!LaunchObserve(m, n)
    BY <1>2, SameLaunches
  <2>3. P!Transcribe
    BY <2>1, <2>2 DEF P!Transcribe
  <2>4. UNCHANGED P!CPU!cvars
    BY <2>1, <2>2, P!HostStepStutters DEF SpongeTyped, P!Rate
  <2> QED
    BY <1>1, <2>3, <2>4, SameChallenger
<1>3. ASSUME NEW n \in Nat \ {0}, GPU!LaunchGet(n)
      PROVE  P!TypeOK' /\ P!ChallengerInv' /\ UNCHANGED Verifier!cvars
  <2>1. P!LaunchGet(n)
    BY <1>3, SameLaunches
  <2>2. P!Transcribe
    BY <2>1 DEF P!Transcribe
  <2>3. UNCHANGED P!CPU!cvars
    BY <2>1, P!HostStepStutters DEF SpongeTyped, P!Rate
  <2> QED
    BY <1>1, <2>2, <2>3, SameChallenger
<1>4. ASSUME GPU!Retire
      PROVE  P!TypeOK' /\ P!ChallengerInv' /\ UNCHANGED Verifier!cvars
  <2>1. P!Retire /\ P!Transcribe
    BY <1>4, SameSteps DEF P!Transcribe
  <2>2. UNCHANGED P!CPU!cvars
    BY <2>1, P!HostStepStutters DEF SpongeTyped, P!Rate
  <2> QED
    BY <1>1, <2>1, <2>2, SameChallenger
<1>5. ASSUME UNCHANGED gpu
      PROVE  P!TypeOK' /\ P!ChallengerInv' /\ UNCHANGED Verifier!cvars
  <2>1. UNCHANGED P!gvars
    BY <1>5 DEF gpu, P!gvars, P!device
  <2>2. UNCHANGED P!CPU!cvars
    BY <2>1, P!HostStepStutters DEF SpongeTyped, P!Rate
  <2> QED
    BY <1>1, <2>1, <2>2, SameChallenger
<1>6. ASSUME GPU!KernelObserve
      PROVE  /\ P!TypeOK' /\ P!ChallengerInv'
             /\ Verifier!ObserveElement(kernel.message[kernel.i + 1])
  <2>1. P!KernelObserve /\ P!Transcribe
    BY <1>6, SameSteps DEF P!Transcribe
  <2>2. P!CPU!ObserveElement(kernel.message[kernel.i + 1])
    BY <2>1, P!KernelObserveRefines DEF SpongeTyped, P!Rate
  <2> QED
    BY <1>1, <2>1, <2>2, SameChallenger
<1>7. ASSUME GPU!KernelGet
      PROVE  P!TypeOK' /\ P!ChallengerInv' /\ Verifier!GetChallenge
  <2>1. P!KernelGet /\ P!Transcribe
    BY <1>7, SameSteps DEF P!Transcribe
  <2>2. P!CPU!GetChallenge
    BY <2>1, P!KernelGetRefines DEF SpongeTyped, P!Rate
  <2> QED
    BY <1>1, <2>1, <2>2, SameChallenger
<1> QED
  BY <1>2, <1>3, <1>4, <1>5, <1>6, <1>7

\* What a call is in the script, entry by entry.
LEMMA StepsOfCall ==
  ASSUME NEW x \in CallSet
  PROVE  /\ x.op = "observe" =>
              /\ Len(StepsOf(x)) = Len(x.message)
              /\ \A q \in 1 .. Len(x.message) :
                   StepsOf(x)[q] = [op |-> "observe", e |-> x.message[q]]
         /\ x.op = "get" =>
              /\ Len(StepsOf(x)) = x.n
              /\ \A q \in 1 .. x.n : StepsOf(x)[q] = [op |-> "get", name |-> x.name, r |-> x.r]
         /\ x.op = "grind" => Len(StepsOf(x)) = 0
<1>1. ASSUME x.op = "observe"
      PROVE  /\ Len(StepsOf(x)) = Len(x.message)
             /\ \A q \in 1 .. Len(x.message) :
                  StepsOf(x)[q] = [op |-> "observe", e |-> x.message[q]]
  <2>1. PICK m, n : m = x.message /\ n = Len(m) /\ m \in Seq(Item) /\ n \in Nat
    BY <1>1, LenProperties DEF CallSet
  <2>2. StepsOf(x) = [j \in 1 .. n |-> [op |-> "observe", e |-> m[j]]]
    BY <1>1, <2>1, LenProperties DEF StepsOf, Verifier!Observe
  <2> QED
    BY <2>1, <2>2
<1>2. ASSUME x.op = "get"
      PROVE  /\ Len(StepsOf(x)) = x.n
             /\ \A q \in 1 .. x.n : StepsOf(x)[q] = [op |-> "get", name |-> x.name, r |-> x.r]
  <2>1. PICK n : n = x.n /\ n \in Nat
    BY <1>2 DEF CallSet
  <2>2. StepsOf(x) = [j \in 1 .. n |-> [op |-> "get", name |-> x.name, r |-> x.r]]
    BY <1>2, <2>1 DEF StepsOf, Verifier!Get
  <2> QED
    BY <2>1, <2>2
<1>3. ASSUME x.op = "grind" PROVE Len(StepsOf(x)) = 0
  BY <1>3 DEF StepsOf
<1> QED
  BY <1>1, <1>2, <1>3

\* Where in the script v the steps t of the calls s stand.
Laid(s, v, t, o) ==
  /\ Spelling(s, t) /\ v = FlattenSeq(t)
  /\ o \in [0 .. Len(s) -> Nat] /\ FlatLayout(o, Len(s), t)

LEMMA LaidOut ==
  ASSUME NEW s, NEW v, Spells(s, v)
  PROVE  \E t, o : Laid(s, v, t, o)
<1>1. PICK t : Spelling(s, t) /\ v = FlattenSeq(t)
  BY DEF Spells
<1>2. Len(s) \in Nat /\ t \in [1 .. Len(s) -> Seq(Entry)]
  BY <1>1, LenProperties DEF Spelling
<1>3. \E o \in [0 .. Len(s) -> Nat] : FlatLayout(o, Len(s), t)
  BY <1>2, FlattenLayout
<1> QED
  BY <1>1, <1>3 DEF Laid

LEMMA LaidAt ==
  ASSUME NEW s, NEW v, NEW t, NEW o, Laid(s, v, t, o), NEW k \in 1 .. Len(s)
  PROVE  /\ s[k] \in CallSet /\ o[k - 1] \in Nat
         /\ o[k] = o[k - 1] + Len(StepsOf(s[k]))
         /\ \A q \in 1 .. Len(StepsOf(s[k])) :
              o[k - 1] + q <= Len(v) /\ v[o[k - 1] + q] = StepsOf(s[k])[q]
<1>1. PICK n \in Nat : n = Len(s) /\ s \in Seq(CallSet)
  BY LenProperties DEF Laid, Spelling
<1>2. s[k] \in CallSet /\ k - 1 \in 0 .. n /\ k \in 0 .. n /\ k \in 1 .. n
  BY <1>1, ElementOfSeq
<1>3. t[k] = StepsOf(s[k])
  BY DEF Laid, Spelling
<1>4. o[k - 1] \in Nat /\ v = FlattenSeq(t) /\ FlatLayout(o, n, t)
  BY <1>1, <1>2 DEF Laid
<1>5. /\ o[k] = o[k - 1] + Len(t[k])
      /\ \A q \in 1 .. Len(t[k]) : o[k - 1] + q <= Len(v) /\ v[o[k - 1] + q] = t[k][q]
  BY <1>2, <1>4 DEF FlatLayout
<1> QED
  BY <1>2, <1>3, <1>4, <1>5

\* How far the device has got in the script: to the end of the last call, or into
\* the call whose kernel runs.
Reached(o) ==
  pos = IF kernel = GPU!Idle THEN o[step - 1] ELSE o[step - 2] + kernel.i

VerifierInv ==
  /\ P!TypeOK /\ P!ChallengerInv
  /\ \E t, o : Laid(calls, script, t, o) /\ Reached(o)

LEMMA InitVerifierInv ==
  ASSUME SpongeTyped, Init
  PROVE  VerifierInv /\ Verifier!Start
<1>1. P!New
  BY SameSteps DEF Init
<1>2. P!TypeOK /\ P!ChallengerInv
  BY <1>1, P!NewInv DEF SpongeTyped, P!Rate
<1>3. PICK c \in Configs : calls = Calls(c) /\ script = Verifier!Script(c)
  BY DEF Init
<1>4. Spells(calls, script)
  BY <1>3, CallsSpellScript
<1>5. PICK t, o : Laid(calls, script, t, o)
  BY <1>4, LaidOut
<1>6. Reached(o)
  BY <1>5 DEF Laid, FlatLayout, Reached, Init, GPU!New
<1>7. Verifier!New
  BY DEF Init, GPU!New, Verifier!New, GPU!Prefix, GPU!InUse, GPU!Available, GPU!Idle
<1> QED
  BY <1>2, <1>5, <1>6, <1>7 DEF VerifierInv, Init, Verifier!Start

\* The next call, and the call whose kernel runs.
LEMMA CallFacts ==
  ASSUME TranscriptInv
  PROVE  /\ step \in Nat /\ Len(calls) \in Nat
         /\ step <= Len(calls) =>
              /\ step \in 1 .. Len(calls)
              /\ calls[step].op = "observe" =>
                   /\ calls[step].message \in Seq(Item) /\ calls[step].message # <<>>
                   /\ calls[step].len \in Nat
                   /\ GPU!Disciplined(calls[step].message, calls[step].len)
              /\ calls[step].op = "get" => calls[step].n \in Nat \ {0}
         /\ kernel # GPU!Idle =>
              step - 1 \in 1 .. Len(calls) /\ KernelInv(calls[step - 1])
<1>1. PICK mu : /\ Leads(calls, mu)
                /\ step = 1 => kernel = GPU!Idle
                /\ At(mu[step - 1], calls[step - 1])
  BY DEF TranscriptInv
<1>2. step \in 1 .. Len(calls) + 1 /\ Len(calls) \in Nat /\ calls \in Seq(CallSet)
  BY LenProperties DEF TranscriptInv
<1>3. ASSUME step <= Len(calls)
      PROVE  /\ step \in 1 .. Len(calls)
             /\ calls[step].op = "observe" =>
                  /\ calls[step].message \in Seq(Item) /\ calls[step].message # <<>>
                  /\ calls[step].len \in Nat
                  /\ GPU!Disciplined(calls[step].message, calls[step].len)
             /\ calls[step].op = "get" => calls[step].n \in Nat \ {0}
  <2>1. step \in 1 .. Len(calls)
    BY <1>2, <1>3
  <2>2. PICK x, m, q : /\ x = calls[step] /\ m = mu[step - 1] /\ HostInv(m)
                       /\ Takes(x, m, q) /\ x \in CallSet
    BY <1>1, <1>2, <2>1, LeadsAt DEF At
  <2>3. ASSUME x.op = "observe"
        PROVE  /\ x.message \in Seq(Item) /\ x.message # <<>> /\ x.len \in Nat
               /\ GPU!Disciplined(x.message, x.len)
    <3>1. GPU!Disciplined(x.message, x.len)
      BY <2>2, <2>3, TakesDisciplined
    <3>2. Padded(x)
      BY <2>2, <2>3 DEF Takes, Draws
    <3>3. x.message \in Seq(Item) /\ x.len \in Nat
      BY <2>2, <2>3 DEF CallSet
    <3> QED
      BY <3>1, <3>2, <3>3 DEF Padded
  <2>4. x.op = "get" => x.n \in Nat \ {0}
    BY <2>2 DEF Takes, Draws, Padded
  <2> QED
    BY <2>1, <2>2, <2>3, <2>4
<1>4. kernel # GPU!Idle => step - 1 \in 1 .. Len(calls) /\ KernelInv(calls[step - 1])
  BY <1>1, <1>2 DEF At
<1> QED
  BY <1>2, <1>3, <1>4

\* A launch and the search for the witness move no element.
LEMMA CallStutters ==
  ASSUME SpongeTyped, TranscriptInv, P!TypeOK, P!ChallengerInv,
         NEW t, NEW o, Laid(calls, script, t, o), Reached(o),
         step <= Len(calls), Call(calls[step]) \/ GrindWitness(calls[step])
  PROVE  /\ P!TypeOK' /\ P!ChallengerInv' /\ Reached(o)'
         /\ UNCHANGED <<calls, script>> /\ UNCHANGED Verifier!vvars
<1>1. PICK x, k : /\ x = calls[step] /\ k = step /\ k \in 1 .. Len(calls)
                  /\ Call(x) \/ GrindWitness(x)
                  /\ x.op = "observe" => /\ x.message \in Seq(Item) /\ x.message # <<>> /\ x.len \in Nat
                                         /\ GPU!Disciplined(x.message, x.len)
                  /\ x.op = "get" => x.n \in Nat \ {0}
  BY CallFacts
<1>2. x \in CallSet /\ o[k - 1] \in Nat /\ o[k] = o[k - 1] + Len(StepsOf(x)) /\ k \in Nat
  BY <1>1, CallFacts, LaidAt
<1>3. /\ pos' = pos /\ step' = k + 1 /\ UNCHANGED <<config, calls, script, drawn>>
      /\ kernel = GPU!Idle
  BY <1>1 DEF Call, GrindWitness, fixed, GPU!LaunchObserve, GPU!LaunchGet
<1>4. pos = o[k - 1] /\ (k + 1) - 2 = k - 1 /\ (k + 1) - 1 = k
  BY <1>1, <1>2, <1>3 DEF Reached
<1>5. CASE GPU!LaunchObserve(x.message, x.len) /\ x.op = "observe"
  <2>1. P!TypeOK' /\ P!ChallengerInv' /\ UNCHANGED Verifier!cvars
    BY <1>1, <1>5, ChallengerSteps
  <2>2. kernel' # GPU!Idle /\ kernel'.i = 0
    BY <1>5 DEF GPU!LaunchObserve, GPU!Idle
  <2>3. Reached(o)'
    BY <1>2, <1>3, <1>4, <2>2 DEF Reached
  <2> QED
    BY <1>3, <2>1, <2>3 DEF Verifier!vvars
<1>6. CASE GPU!LaunchGet(x.n) /\ x.op = "get"
  <2>1. P!TypeOK' /\ P!ChallengerInv' /\ UNCHANGED Verifier!cvars
    BY <1>1, <1>6, ChallengerSteps
  <2>2. kernel' # GPU!Idle /\ kernel'.i = 0
    BY <1>6 DEF GPU!LaunchGet, GPU!Idle
  <2>3. Reached(o)'
    BY <1>2, <1>3, <1>4, <2>2 DEF Reached
  <2> QED
    BY <1>3, <2>1, <2>3 DEF Verifier!vvars
<1>7. CASE GrindWitness(x)
  <2>1. UNCHANGED gpu /\ x.op = "grind"
    BY <1>7 DEF GrindWitness
  <2>2. P!TypeOK' /\ P!ChallengerInv' /\ UNCHANGED Verifier!cvars
    BY <2>1, ChallengerSteps
  <2>3. o[k] = o[k - 1]
    <3>1. Len(StepsOf(x)) = 0
      BY <1>2, <2>1, StepsOfCall
    <3> QED
      BY <1>2, <3>1
  <2>4. Reached(o)'
    BY <1>3, <1>4, <2>1, <2>3 DEF Reached, gpu
  <2> QED
    BY <1>3, <2>2, <2>4 DEF Verifier!vvars
<1> QED
  BY <1>1, <1>5, <1>6, <1>7 DEF Call

\* Nor does a retirement: the call's last element was the kernel's last step.
LEMMA RetireStutters ==
  ASSUME SpongeTyped, TranscriptInv, P!TypeOK, P!ChallengerInv,
         NEW t, NEW o, Laid(calls, script, t, o), Reached(o), Retire
  PROVE  /\ P!TypeOK' /\ P!ChallengerInv' /\ Reached(o)'
         /\ UNCHANGED <<calls, script>> /\ UNCHANGED Verifier!vvars
<1>1. /\ pos' = pos /\ UNCHANGED <<config, calls, script, drawn, step>> /\ GPU!Retire
      /\ kernel # GPU!Idle /\ kernel' = GPU!Idle /\ GPU!KernelDone
  BY DEF Retire, fixed, GPU!Retire, GPU!KernelDone, GPU!Idle
<1>2. P!TypeOK' /\ P!ChallengerInv' /\ UNCHANGED Verifier!cvars
  BY <1>1, ChallengerSteps
<1>3. PICK k, x : k = step - 1 /\ k \in 1 .. Len(calls) /\ x = calls[k] /\ KernelInv(x) /\ k - 1 = step - 2
  BY <1>1, CallFacts
<1>4. x \in CallSet /\ o[k - 1] \in Nat /\ o[k] = o[k - 1] + Len(StepsOf(x))
  BY <1>3, LaidAt
<1>5. kernel.i = Len(StepsOf(x))
  <2>1. CASE kernel.op = "observe"
    <3>1. x.op = "observe" /\ kernel.message = x.message
      BY <1>1, <1>3, <2>1 DEF KernelInv
    <3>2. kernel.i = Len(kernel.message)
      BY <1>1, <2>1 DEF GPU!KernelDone
    <3> QED
      BY <1>4, <3>1, <3>2, StepsOfCall
  <2>2. CASE kernel.op = "get"
    <3>1. x.op = "get" /\ kernel.n = x.n
      BY <1>1, <1>3, <2>2 DEF KernelInv
    <3>2. kernel.i = kernel.n
      BY <1>1, <2>2 DEF GPU!KernelDone
    <3> QED
      BY <1>4, <3>1, <3>2, StepsOfCall
  <2> QED
    BY <1>1, <2>1, <2>2 DEF GPU!KernelDone
<1>6. Reached(o)'
  BY <1>1, <1>3, <1>4, <1>5 DEF Reached
<1> QED
  BY <1>1, <1>2, <1>6 DEF Verifier!vvars

\* One element of an observe is the verifier's next step.
LEMMA ObserveSteps ==
  ASSUME SpongeTyped, TranscriptInv, P!TypeOK, P!ChallengerInv,
         NEW t, NEW o, Laid(calls, script, t, o), Reached(o), ObserveNext
  PROVE  /\ P!TypeOK' /\ P!ChallengerInv' /\ Reached(o)'
         /\ UNCHANGED <<calls, script>> /\ Verifier!Step
<1>1. /\ pos' = pos + 1 /\ UNCHANGED <<config, calls, script, drawn, step>>
      /\ GPU!KernelObserve /\ kernel.op = "observe" /\ kernel # GPU!Idle
      /\ kernel.i < Len(kernel.message)
  BY DEF ObserveNext, fixed, GPU!KernelObserve, GPU!Idle
<1>2. P!TypeOK' /\ P!ChallengerInv' /\ Verifier!ObserveElement(kernel.message[kernel.i + 1])
  BY <1>1, ChallengerSteps
<1>3. PICK k, x : k = step - 1 /\ k \in 1 .. Len(calls) /\ x = calls[k] /\ KernelInv(x) /\ k - 1 = step - 2
  BY <1>1, CallFacts
<1>4. /\ x \in CallSet /\ o[k - 1] \in Nat
      /\ \A q \in 1 .. Len(StepsOf(x)) :
           o[k - 1] + q <= Len(script) /\ script[o[k - 1] + q] = StepsOf(x)[q]
  BY <1>3, LaidAt
<1>5. /\ x.op = "observe" /\ kernel.message = x.message
      /\ kernel \in [op : {"observe"}, message : {x.message}, i : Nat, current : 0 .. 7, out : 0 .. 8]
  BY <1>1, <1>3 DEF KernelInv
<1>6. PICK m, n, i : /\ m = x.message /\ n = Len(m) /\ n \in Nat /\ i = kernel.i /\ i \in Nat /\ i < n
                     /\ kernel.message = m
  <2>1. Len(x.message) \in Nat
    BY <1>4, <1>5, LenProperties DEF CallSet
  <2>2. kernel.i \in Nat
    BY <1>5
  <2> QED
    BY <1>1, <1>5, <2>1, <2>2
<1>7. kernel'.op = "observe" /\ kernel'.i = i + 1
  <2>1. PICK c : kernel' = [kernel EXCEPT !.i = kernel.i + 1, !.current = c]
    BY <1>1 DEF GPU!KernelObserve
  <2> QED
    BY <1>5, <1>6, <2>1
<1>8. pos = o[k - 1] + i /\ kernel' # GPU!Idle
  BY <1>1, <1>3, <1>6, <1>7 DEF Reached, GPU!Idle
<1>9. Reached(o)'
  BY <1>1, <1>3, <1>4, <1>6, <1>7, <1>8 DEF Reached
<1>10. i + 1 \in 1 .. n /\ o[k - 1] + (i + 1) = pos + 1
  BY <1>4, <1>6, <1>8
<1>11. /\ pos + 1 <= Len(script)
       /\ script[pos + 1] = [op |-> "observe", e |-> m[i + 1]]
  <2>1. /\ Len(StepsOf(x)) = n
        /\ \A q \in 1 .. n : StepsOf(x)[q] = [op |-> "observe", e |-> m[q]]
    <3>1. x \in CallSet /\ x.op = "observe"
      BY <1>4, <1>5
    <3>2. /\ Len(StepsOf(x)) = Len(x.message)
          /\ \A q \in 1 .. Len(x.message) :
               StepsOf(x)[q] = [op |-> "observe", e |-> x.message[q]]
      BY <3>1, StepsOfCall, Zenon
    <3>3. m = x.message /\ n = Len(m)
      BY <1>6
    <3> QED
      BY <3>2, <3>3, Zenon
  <2>2. StepsOf(x)[i + 1] = [op |-> "observe", e |-> m[i + 1]]
    BY <1>10, <2>1
  <2>3. pos + 1 <= Len(script) /\ script[pos + 1] = StepsOf(x)[i + 1]
    BY <1>4, <1>10, <2>1
  <2> QED
    BY <2>2, <2>3
<1>12. pos < Len(script)
  <2>1. Len(script) \in Nat
    BY SpellsSeq, LenProperties DEF Laid, Spells
  <2> QED
    BY <1>4, <1>6, <1>8, <1>11, <2>1
<1>13. Verifier!ObserveElement(script[pos + 1].e) /\ script[pos + 1].op = "observe"
  BY <1>2, <1>6, <1>11
<1>14. Verifier!Step
  BY <1>1, <1>12, <1>13 DEF Verifier!Step
<1> QED
  BY <1>1, <1>2, <1>9, <1>14

\* And so is one challenge of a get.
LEMMA DrawSteps ==
  ASSUME SpongeTyped, TranscriptInv, P!TypeOK, P!ChallengerInv,
         NEW t, NEW o, Laid(calls, script, t, o), Reached(o), DrawNext
  PROVE  /\ P!TypeOK' /\ P!ChallengerInv' /\ Reached(o)'
         /\ UNCHANGED <<calls, script>> /\ Verifier!Step
<1>1. /\ pos' = pos + 1 /\ UNCHANGED <<config, calls, script, step>>
      /\ drawn' = Append(drawn, <<calls[step - 1].name, calls[step - 1].r, challenge'>>)
      /\ GPU!KernelGet /\ kernel.op = "get" /\ kernel # GPU!Idle /\ kernel.i < kernel.n
  BY DEF DrawNext, fixed, GPU!KernelGet, GPU!Idle
<1>2. P!TypeOK' /\ P!ChallengerInv' /\ Verifier!GetChallenge
  BY <1>1, ChallengerSteps
<1>3. PICK k, x : k = step - 1 /\ k \in 1 .. Len(calls) /\ x = calls[k] /\ KernelInv(x) /\ k - 1 = step - 2
  BY <1>1, CallFacts
<1>4. /\ x \in CallSet /\ o[k - 1] \in Nat
      /\ \A q \in 1 .. Len(StepsOf(x)) :
           o[k - 1] + q <= Len(script) /\ script[o[k - 1] + q] = StepsOf(x)[q]
  BY <1>3, LaidAt
<1>5. /\ x.op = "get"
      /\ kernel \in [op : {"get"}, n : {x.n}, i : Nat, in : 0 .. 7, current : 0 .. 8]
  BY <1>1, <1>3 DEF KernelInv
<1>6. PICK n, i : n = x.n /\ n \in Nat /\ i = kernel.i /\ i \in Nat /\ i < n
  <2>1. x.n \in Nat
    BY <1>4, <1>5 DEF CallSet
  <2>2. kernel.i \in Nat /\ kernel.n = x.n
    BY <1>5
  <2> QED
    BY <1>1, <2>1, <2>2
<1>7. kernel'.op = "get" /\ kernel'.i = i + 1
  <2>1. PICK c : kernel' = [kernel EXCEPT !.i = kernel.i + 1, !.current = c]
    BY <1>1 DEF GPU!KernelGet
  <2> QED
    BY <1>5, <1>6, <2>1
<1>8. pos = o[k - 1] + i /\ kernel' # GPU!Idle
  BY <1>1, <1>3, <1>6, <1>7 DEF Reached, GPU!Idle
<1>9. Reached(o)'
  BY <1>1, <1>3, <1>4, <1>6, <1>7, <1>8 DEF Reached
<1>10. i + 1 \in 1 .. n /\ o[k - 1] + (i + 1) = pos + 1
  BY <1>4, <1>6, <1>8
<1>11. /\ pos + 1 <= Len(script)
       /\ script[pos + 1] = [op |-> "get", name |-> x.name, r |-> x.r]
  <2>1. /\ Len(StepsOf(x)) = n
        /\ \A q \in 1 .. n : StepsOf(x)[q] = [op |-> "get", name |-> x.name, r |-> x.r]
    BY <1>4, <1>5, <1>6, StepsOfCall
  <2>2. StepsOf(x)[i + 1] = [op |-> "get", name |-> x.name, r |-> x.r]
    BY <1>10, <2>1
  <2>3. pos + 1 <= Len(script) /\ script[pos + 1] = StepsOf(x)[i + 1]
    BY <1>4, <1>10, <2>1
  <2> QED
    BY <2>2, <2>3
<1>12. pos < Len(script)
  <2>1. Len(script) \in Nat
    BY SpellsSeq, LenProperties DEF Laid, Spells
  <2> QED
    BY <1>4, <1>6, <1>8, <1>11, <2>1
<1>13. drawn' = Append(drawn, <<script[pos + 1].name, script[pos + 1].r, challenge'>>)
       /\ script[pos + 1].op = "get"
  BY <1>1, <1>3, <1>11
<1>14. Verifier!Step
  BY <1>1, <1>2, <1>12, <1>13 DEF Verifier!Step
<1> QED
  BY <1>1, <1>2, <1>9, <1>14

LEMMA NextVerifierInv ==
  ASSUME SpongeTyped
  PROVE  TranscriptInv /\ VerifierInv /\ [Next]_pvars
           => VerifierInv' /\ [Verifier!Step]_(Verifier!vvars)
<1> SUFFICES ASSUME TranscriptInv, VerifierInv, [Next]_pvars
             PROVE  VerifierInv' /\ [Verifier!Step]_(Verifier!vvars)
  OBVIOUS
<1>1. PICK t, o : Laid(calls, script, t, o) /\ Reached(o)
  BY DEF VerifierInv
<1>2. P!TypeOK /\ P!ChallengerInv
  BY DEF VerifierInv
<1>3. /\ P!TypeOK' /\ P!ChallengerInv' /\ Reached(o)' /\ UNCHANGED <<calls, script>>
      /\ Verifier!Step \/ UNCHANGED Verifier!vvars
  <2>1. CASE step <= Len(calls) /\ (Call(calls[step]) \/ GrindWitness(calls[step]))
    BY <1>1, <1>2, <2>1, CallStutters
  <2>2. CASE Retire
    BY <1>1, <1>2, <2>2, RetireStutters
  <2>3. CASE ObserveNext
    BY <1>1, <1>2, <2>3, ObserveSteps
  <2>4. CASE DrawNext
    BY <1>1, <1>2, <2>4, DrawSteps
  <2>5. CASE UNCHANGED pvars
    <3>1. UNCHANGED gpu /\ UNCHANGED <<config, calls, script, step, pos, drawn, kernel>>
      BY <2>5 DEF pvars, fixed, gpu
    <3>2. P!TypeOK' /\ P!ChallengerInv' /\ UNCHANGED Verifier!cvars
      BY <1>2, <3>1, ChallengerSteps
    <3> QED
      BY <1>1, <3>1, <3>2 DEF Reached, Verifier!vvars
  <2> QED
    BY <2>1, <2>2, <2>3, <2>4, <2>5 DEF Next, Advance, Finished
<1>4. VerifierInv'
  BY <1>1, <1>3 DEF VerifierInv
<1> QED
  BY <1>3, <1>4

-----------------------------------------------------------------------------
\* The prover's transcript is the verifier's, for every configuration: step by step
\* the GPU prover observes the elements that get_challenges and fri_challenges
\* observe of the assembled proof, in their order, and draws the same challenges
\* under the same names.  It is ImplementsVerifier but for its fairness.
THEOREM VerifierSteps ==
  ASSUME SpongeTyped
  PROVE  Spec => Verifier!Start /\ [][Verifier!Step]_(Verifier!vvars)
<1>1. Init => VerifierInv /\ Verifier!Start
  BY InitVerifierInv
<1>2. TranscriptInv /\ VerifierInv /\ [Next]_pvars
        => VerifierInv' /\ [Verifier!Step]_(Verifier!vvars)
  BY NextVerifierInv
<1> QED
  BY <1>1, <1>2, TranscriptInvariant, PTL DEF Spec

=============================================================================
