----------------------- MODULE ProverLifecycle_proofs -----------------------
(***************************************************************************)
(* Proofs about the device memory of ProverLifecycle, for every set of      *)
(* circuits and devices, every alignment and every number of proves.        *)
(***************************************************************************)
EXTENDS ProverLifecycle, DataInduction, SequenceTheorems

----------------------------------------------------------------------------
(* The inductive invariant *)

Pcs == {"build_scratch", "build_map", "build_graph", "idle", "upload", "replay",
        "hash_pi", "release", "choose", "bind_extra", "bind_overlay", "recycle",
        "alloc_post", "commit", "copy_caps", "assemble", "panicked",
        "drop_fields", "dropped"}

\* The blocks of heap h are those of its three owners, each of one of them,
\* and none is newer than the latest, n.
Owners(h, n, a, b, c) ==
    /\ n \in Nat /\ a \in 0..n /\ b \in 0..n /\ c \in 0..n
    /\ h \in [{a, b, c} \ {Null} -> Nat]
    /\ a # Null => a # b /\ a # c
    /\ b # Null => b # c

LenIn(h, b) == IF b = Null THEN 0 ELSE h[b]

\* What is free is the capacity without the blocks.
Accounts(cap, free, h, a, b, c) ==
    free = cap - LenIn(h, a) - LenIn(h, b) - LenIn(h, c)

\* Every block has one owner, and the free bytes are what the owners left.
HeapInv ==
    /\ circuit \in Circuits /\ pc \in Pcs /\ proves \in Nat
    /\ Owners(heap, blocks, scratch, fri_scratch, representative_map)
    /\ Accounts(circuit.capacity, free_bytes, heap, scratch, fri_scratch,
                representative_map)

\* The regions lie in live blocks of the owners given.
HeldIn(h, regions, owners) ==
    \A i \in DOMAIN regions : /\ regions[i].block \in owners
                              /\ regions[i].block # Null
                              /\ regions[i].end <= h[regions[i].block]

NoKernels == graph = <<>> /\ stream = <<>> /\ scatter = <<>>

\* Which block every view and every captured pointer lies in, and when there
\* are none.
ViewInv ==
    /\ HeldIn(heap, soa, {scratch})
    /\ HeldIn(heap, graph, {scratch})
    /\ graph # <<>> => scratch # Null
    /\ HeldIn(heap, stream, {scratch})
    /\ HeldIn(heap, scatter, {scratch, representative_map})
    /\ pc \notin {"alloc_post", "panicked", "drop_fields"} =>
         HeldIn(heap, post, {scratch, fri_scratch})
    /\ pc \in {"build_scratch", "build_map", "build_graph", "recycle",
               "alloc_post", "drop_fields", "dropped"} => NoKernels
    /\ pc \in {"build_scratch", "alloc_post", "dropped"} => scratch = Null /\ soa = <<>>
    /\ pc \in {"build_map", "build_graph"} => soa = Carve(scratch, SoaSizes(circuit))
    /\ pc = "build_graph" => /\ representative_map # Null
                             /\ heap[representative_map] = MapBytes(circuit)
    /\ pc = "dropped" => fri_scratch = Null /\ representative_map = Null /\ post = <<>>

Building == pc \in {"build_scratch", "build_map", "build_graph"}
Proving == pc \in {"upload", "replay", "hash_pi", "release", "choose", "bind_extra",
                   "bind_overlay", "recycle", "alloc_post", "commit", "copy_caps",
                   "assemble"}

\* Up to the end of the first prove: the witgen views, the kernels and the plan
\* are in place until their last use, nothing else holds memory, and the path
\* is one whose block is there.
FirstInv ==
    /\ Building => proves = 0 /\ fri_scratch = Null /\ post = <<>>
    /\ pc \in {"build_scratch", "build_map"} => representative_map = Null
    /\ pc = "build_map" => LenIn(heap, scratch) = witgen_captured_bytes(circuit)
    /\ Proving => proves >= 1
    /\ pc = "build_graph" => plan = TRUE
    /\ \/ pc = "idle" /\ proves = 0
       \/ pc \in {"upload", "replay"} /\ proves = 1
       => scatter # <<>> /\ (graph # <<>> \/ stream # <<>>) /\ plan = TRUE
    /\ \/ pc = "idle" /\ proves = 0
       \/ pc \in {"upload", "replay", "hash_pi"} /\ proves = 1
       => soa # <<>>
    /\ \/ pc = "idle" /\ proves = 0
       \/ /\ proves = 1
          /\ pc \in {"upload", "replay", "hash_pi", "release", "choose",
                     "bind_extra", "bind_overlay", "recycle", "alloc_post"}
       => fri_scratch = Null
    /\ pc \in {"choose", "bind_extra", "bind_overlay", "recycle", "alloc_post"} =>
         representative_map = Null
    /\ pc \in {"hash_pi", "release", "choose", "bind_extra", "bind_overlay",
               "recycle", "alloc_post", "commit"} /\ proves = 1 => wires = "witness"
    /\ pc = "bind_extra" => free_bytes >= post_witgen_bytes(circuit)
    /\ pc = "bind_overlay" => /\ scratch # Null
                              /\ LenIn(heap, scratch) >= post_witgen_bytes(circuit)
    /\ pc = "commit" => post # <<>>
    /\ FirstProveCompletes

LifeInv == HeapInv /\ ViewInv /\ FirstInv /\ PostViewsDisjoint

----------------------------------------------------------------------------
(* Sizes and cursors *)

(* Rounding up never loses a byte and gives a multiple of SCRATCH_ALIGN.     *)
LEMMA AlignUp ==
    ASSUME NEW x \in Nat
    PROVE  align_up(x) \in Nat /\ align_up(x) >= x /\ align_up(x) % Align = 0
<1> DEFINE y == x + Align - 1
           q == y \div Align
           r == y % Align
<1>1. Align \in Nat \ {0} /\ y \in Nat
  BY LifecycleAssumption
<1>2. q \in Nat /\ r \in 0..(Align - 1) /\ y = q * Align + r
  <2> HIDE DEF y
  <2> QED
    BY <1>1
<1>3. align_up(x) = q * Align
  BY DEF align_up
<1> HIDE DEF y, q, r
<1>4. q * Align \in Nat /\ (q * Align) % Align = 0
  BY <1>1, <1>2
<1>5. q * Align >= x
  BY <1>1, <1>2 DEF y
<1> QED
  BY <1>3, <1>4, <1>5

(* The cursor's offsets exist, are natural numbers and grow region by region. *)
LEMMA EndsUnfold ==
    ASSUME NEW sizes \in Seq(Nat)
    PROVE  /\ Ends(sizes) \in [0..Len(sizes) -> Nat]
           /\ Ends(sizes)[0] = 0
           /\ \A i \in 1..Len(sizes) :
                Ends(sizes)[i] = align_up(Ends(sizes)[i - 1]) + sizes[i]
<1> DEFINE n == Len(sizes)
           g == [p \in (1..n) \X Nat |-> align_up(p[2]) + sizes[p[1]]]
           e == Ends(sizes)
<1>1. n \in Nat /\ \A i \in 1..n : sizes[i] \in Nat
  OBVIOUS
<1>2. g \in [(1..n) \X Nat -> Nat]
  <2> SUFFICES ASSUME NEW p \in (1..n) \X Nat PROVE align_up(p[2]) + sizes[p[1]] \in Nat
    OBVIOUS
  <2>1. p[1] \in 1..n /\ p[2] \in Nat
    OBVIOUS
  <2>2. align_up(p[2]) \in Nat /\ sizes[p[1]] \in Nat
    BY <2>1, <1>1, AlignUp
  <2> QED
    BY <2>2
<1> HIDE DEF n
<1>3. PICK h \in [0..n -> Nat] : Recursion(h, n, 0, g)
  <2> HIDE DEF g
  <2> QED
    BY <1>1, <1>2, RecursionExists
<1>4. h = [i \in 0..n |-> IF i = 0 THEN 0 ELSE align_up(h[i - 1]) + sizes[i]]
  <2>1. h[0] = 0 /\ \A i \in 1..n : h[i] = g[<<i, h[i - 1]>>]
    <3> HIDE DEF g
    <3> DEFINE w(i) == IF i = 0 THEN 0 ELSE g[<<i, h[i - 1]>>]
    <3>1. h = [i \in 0..n |-> w(i)]
      BY <1>3 DEF Recursion
    <3> HIDE DEF w
    <3>2. \A i \in 0..n : h[i] = w(i)
      BY <3>1
    <3>3. 0 \in 0..n /\ \A i \in 1..n : i \in 0..n /\ i # 0
      BY <1>1
    <3> QED
      BY <3>2, <3>3 DEF w
  <2>2. \A i \in 1..n : i - 1 \in 0..n /\ h[i - 1] \in Nat
    <3> HIDE DEF g
    <3> QED
      BY <1>1, <1>3
  <2>3. \A i \in 1..n : h[i] = align_up(h[i - 1]) + sizes[i]
    BY <2>1, <2>2
  <2>4. ASSUME NEW i \in 0..n
        PROVE  h[i] = IF i = 0 THEN 0 ELSE align_up(h[i - 1]) + sizes[i]
    <3> HIDE DEF g
    <3> QED
      BY <1>1, <2>1, <2>3
  <2> HIDE DEF g
  <2> QED
    BY <2>4, <1>3
<1> HIDE DEF g
<1>5. e = [i \in 0..n |-> IF i = 0 THEN 0 ELSE align_up(e[i - 1]) + sizes[i]]
  BY <1>4, Zenon DEF Ends, n
<1> HIDE DEF e
<1>6. /\ e[0] = 0 /\ e = [i \in 0..n |-> e[i]]
      /\ \A i \in 1..n : e[i] = align_up(e[i - 1]) + sizes[i]
  <2> DEFINE w(i) == IF i = 0 THEN 0 ELSE align_up(e[i - 1]) + sizes[i]
  <2>1. e = [i \in 0..n |-> w(i)]
    BY <1>5
  <2> HIDE DEF w
  <2>2. e = [i \in 0..n |-> e[i]] /\ \A i \in 0..n : e[i] = w(i)
    BY <2>1
  <2>3. 0 \in 0..n /\ \A i \in 1..n : i \in 0..n /\ i # 0
    BY <1>1
  <2> QED
    BY <2>2, <2>3 DEF w
<1>7. \A i \in 0..n : e[i] \in Nat
  <2> DEFINE S == {i \in 0..n : e[i] \in Nat}
  <2>1. 0 \in S
    BY <1>1, <1>6
  <2>2. ASSUME NEW i \in 0..(n - 1), i \in S PROVE i + 1 \in S
    <3>1. i + 1 \in 1..n /\ (i + 1) - 1 = i /\ e[i] \in Nat
      BY <1>1, <2>2
    <3>2. e[i + 1] = align_up(e[i]) + sizes[i + 1]
      BY <1>6, <3>1
    <3>3. align_up(e[i]) \in Nat /\ sizes[i + 1] \in Nat
      BY <1>1, <3>1, AlignUp
    <3> QED
      BY <3>1, <3>2, <3>3
  <2> HIDE DEF S
  <2>3. 0..n \subseteq S
    BY <1>1, <2>1, <2>2, UpTo
  <2> QED
    BY <2>3 DEF S
<1>8. e \in [0..n -> Nat]
  BY <1>6, <1>7
<1> QED
  BY <1>6, <1>8 DEF e, n

(* ScratchSizer computes the cursor's offsets.                              *)
LEMMA OffsetsAreEnds == ASSUME NEW sizes PROVE Offsets(sizes) = Ends(sizes)
  BY DEF Offsets, Ends

LEMMA EndsGrow ==
    ASSUME NEW sizes \in Seq(Nat), NEW i \in 0..Len(sizes), NEW j \in i..Len(sizes)
    PROVE  /\ Ends(sizes)[i] \in Nat /\ Ends(sizes)[j] \in Nat
           /\ Ends(sizes)[i] <= Ends(sizes)[j]
<1> DEFINE n == Len(sizes)
           e == Ends(sizes)
           S == {k \in 0..n : k >= i => e[i] <= e[k]}
<1>1. n \in Nat /\ i \in Nat /\ j \in Nat /\ i <= j /\ j <= n
  OBVIOUS
<1>2. /\ \A k \in 0..n : e[k] \in Nat
      /\ \A k \in 1..n : e[k] = align_up(e[k - 1]) + sizes[k] /\ sizes[k] \in Nat
  <2>1. e \in [0..n -> Nat]
    BY EndsUnfold
  <2>2. \A k \in 1..n : e[k] = align_up(e[k - 1]) + sizes[k]
    BY EndsUnfold
  <2>3. \A k \in 1..n : sizes[k] \in Nat
    OBVIOUS
  <2> HIDE DEF e
  <2> QED
    BY <2>1, <2>2, <2>3
<1> HIDE DEF e, n
<1>3. 0 \in S
  BY <1>1, <1>2
<1>4. ASSUME NEW k \in 0..(n - 1), k \in S PROVE k + 1 \in S
  <2>1. k + 1 \in 1..n /\ (k + 1) - 1 = k /\ k \in 0..n /\ k + 1 \in 0..n
    BY <1>1
  <2>2. /\ e[k + 1] = align_up(e[k]) + sizes[k + 1]
        /\ e[k] \in Nat /\ e[k + 1] \in Nat /\ sizes[k + 1] \in Nat
    BY <1>2, <2>1
  <2>3. align_up(e[k]) \in Nat /\ align_up(e[k]) >= e[k]
    BY <2>2, AlignUp
  <2>4. e[k] <= e[k + 1]
    BY <2>2, <2>3
  <2>5. CASE k >= i
    <3>1. e[i] <= e[k] /\ e[i] \in Nat
      BY <1>1, <1>2, <1>4, <2>5
    <3>2. e[i] <= e[k + 1]
      BY <2>2, <2>4, <3>1
    <3> QED
      BY <2>1, <3>2
  <2>6. CASE k < i
    <3>1. k + 1 >= i => k + 1 = i
      BY <1>1, <2>6
    <3>2. k + 1 >= i => e[i] <= e[k + 1]
      BY <2>2, <3>1
    <3> QED
      BY <2>1, <3>2
  <2> QED
    BY <1>1, <2>5, <2>6
<1> HIDE DEF S
<1>5. 0..n \subseteq S
  BY <1>1, <1>3, <1>4, UpTo
<1>6. j \in 0..n /\ i \in 0..n /\ j \in S
  BY <1>1, <1>5
<1> QED
  BY <1>1, <1>2, <1>6 DEF S, e

(* The views ScratchCursor hands out start aligned, one after the other, and *)
(* end where its offset ends.                                               *)
LEMMA CarveRegions ==
    ASSUME NEW sizes \in Seq(Nat), NEW b
    PROVE  LET r == Carve(b, sizes)
           IN  /\ DOMAIN r = 1..Len(sizes)
               /\ \A i \in 1..Len(sizes) :
                    /\ r[i].block = b
                    /\ r[i].start = align_up(Ends(sizes)[i - 1])
                    /\ r[i].end = Ends(sizes)[i]
  BY DEF Carve

LEMMA CarveFits ==
    ASSUME NEW sizes \in Seq(Nat), NEW b, NEW i \in DOMAIN Carve(b, sizes)
    PROVE  /\ Carve(b, sizes)[i].block = b
           /\ Carve(b, sizes)[i].end \in Nat
           /\ Carve(b, sizes)[i].end <= Ends(sizes)[Len(sizes)]
<1>1. i \in 1..Len(sizes) /\ Carve(b, sizes)[i].block = b
      /\ Carve(b, sizes)[i].end = Ends(sizes)[i]
  BY CarveRegions
<1>2. i \in 0..Len(sizes) /\ Len(sizes) \in i..Len(sizes)
  BY <1>1
<1> QED
  BY <1>1, <1>2, EndsGrow

LEMMA CarveDisjoint ==
    ASSUME NEW sizes \in Seq(Nat), NEW b,
           NEW i \in DOMAIN Carve(b, sizes), NEW j \in DOMAIN Carve(b, sizes)
    PROVE  LET r == Carve(b, sizes)
           IN  /\ r[i].start % Align = 0
               /\ i # j => r[i].end <= r[j].start \/ r[j].end <= r[i].start
<1> DEFINE n == Len(sizes)
           e == Ends(sizes)
           r == Carve(b, sizes)
<1>1. n \in Nat /\ i \in 1..n /\ j \in 1..n
  BY CarveRegions
<1>2. \A k \in 1..n : r[k].start = align_up(e[k - 1]) /\ r[k].end = e[k]
  BY CarveRegions
<1>3. \A k \in 0..n : e[k] \in Nat
  BY EndsUnfold
<1>4. \A k \in 0..n : \A l \in k..n : e[k] <= e[l]
  BY EndsGrow
<1> HIDE DEF n, e, r
<1>5. ASSUME NEW k \in 1..n, NEW l \in 1..n, k < l PROVE r[k].end <= r[l].start
  <2>1. k \in 0..n /\ l - 1 \in k..n /\ l - 1 \in 0..n
    BY <1>1, <1>5
  <2>2. e[k] <= e[l - 1] /\ e[k] \in Nat /\ e[l - 1] \in Nat
    BY <1>3, <1>4, <2>1
  <2>3. align_up(e[l - 1]) \in Nat /\ align_up(e[l - 1]) >= e[l - 1]
    BY <2>2, AlignUp
  <2>4. e[k] <= align_up(e[l - 1])
    BY <2>2, <2>3
  <2> QED
    BY <1>2, <2>4
<1>6. r[i].start % Align = 0
  <2>1. i - 1 \in 0..n
    BY <1>1
  <2> QED
    BY <1>1, <1>2, <1>3, <2>1, AlignUp
<1>7. i # j => i < j \/ j < i
  BY <1>1
<1> QED
  BY <1>1, <1>5, <1>6, <1>7 DEF r

(* The bytes ScratchSizer asks for are enough for ScratchCursor.             *)
LEMMA SizerFits ==
    ASSUME NEW sizes \in Seq(Nat), sizes # <<>>
    PROVE  /\ SizerBytes(sizes) \in Nat
           /\ Ends(sizes)[Len(sizes)] \in Nat
           /\ SizerBytes(sizes) >= Ends(sizes)[Len(sizes)]
           /\ \A len : Fits(sizes, len) <=> Ends(sizes)[Len(sizes)] <= len
<1>1. Len(sizes) \in Nat /\ Len(sizes) \in 1..Len(sizes) /\ Len(sizes) \in 0..Len(sizes)
  OBVIOUS
<1>2. Ends(sizes)[Len(sizes)] \in Nat
  BY <1>1, EndsUnfold
<1>3. SizerBytes(sizes) = align_up(Ends(sizes)[Len(sizes)])
  BY OffsetsAreEnds DEF SizerBytes
<1>4. Last(Carve(Null, sizes)).end = Ends(sizes)[Len(sizes)]
  <2> DEFINE r == Carve(Null, sizes)
  <2>1. r \in Seq({r[i] : i \in 1..Len(sizes)}) /\ Len(r) = Len(sizes)
    BY <1>1 DEF Carve
  <2>2. Last(r) = r[Len(sizes)]
    BY <2>1 DEF Last
  <2> QED
    BY <1>1, <2>2, CarveRegions
<1> QED
  BY <1>2, <1>3, <1>4, AlignUp DEF Fits

LEMMA ArityBitsNat ==
    ASSUME NEW c \in Shape, NEW i \in 0..Len(c.arity_bits)
    PROVE  ArityBits(c)[i] \in Nat
<1> DEFINE s == c.arity_bits
           n == Len(s)
           g == [p \in (1..n) \X Nat |-> p[2] + s[p[1]]]
           e == ArityBits(c)
<1>1. s \in Seq(Nat) /\ n \in Nat /\ \A k \in 1..n : s[k] \in Nat
  BY DEF Shape
<1> HIDE DEF n, s
<1>2. g \in [(1..n) \X Nat -> Nat] /\ \A k \in 1..n, v \in Nat : g[<<k, v>>] = v + s[k]
  BY <1>1
<1> HIDE DEF g
<1>3. PICK h \in [0..n -> Nat] : Recursion(h, n, 0, g)
  BY <1>1, <1>2, RecursionExists
<1>4. h = [k \in 0..n |-> IF k = 0 THEN 0 ELSE h[k - 1] + s[k]]
  <2> DEFINE w(k) == IF k = 0 THEN 0 ELSE g[<<k, h[k - 1]>>]
  <2>1. h = [k \in 0..n |-> w(k)]
    BY <1>3 DEF Recursion
  <2> HIDE DEF w
  <2>2. \A k \in 0..n : h[k] = w(k)
    BY <2>1
  <2>3. ASSUME NEW k \in 0..n PROVE h[k] = IF k = 0 THEN 0 ELSE h[k - 1] + s[k]
    <3>1. k # 0 => k \in 1..n /\ h[k - 1] \in Nat
      BY <1>1, <1>3
    <3> QED
      BY <1>2, <2>2, <3>1 DEF w
  <2> QED
    BY <1>3, <2>3
<1>5. e = [k \in 0..n |-> IF k = 0 THEN 0 ELSE e[k - 1] + s[k]]
  BY <1>4, Zenon DEF ArityBits, n, s
<1> HIDE DEF e
<1>6. \A k \in 0..n : e[k] = IF k = 0 THEN 0 ELSE e[k - 1] + s[k]
  <2> DEFINE w(k) == IF k = 0 THEN 0 ELSE e[k - 1] + s[k]
  <2>1. e = [k \in 0..n |-> w(k)]
    BY <1>5
  <2> HIDE DEF w
  <2>2. \A k \in 0..n : e[k] = w(k)
    BY <2>1
  <2> QED
    BY <2>2 DEF w
<1> DEFINE S == {k \in 0..n : e[k] \in Nat}
<1>7. 0 \in S
  BY <1>1, <1>6
<1>8. ASSUME NEW k \in 0..(n - 1), k \in S PROVE k + 1 \in S
  <2>1. /\ k + 1 \in 0..n /\ k + 1 # 0 /\ (k + 1) - 1 = k /\ e[k] \in Nat
        /\ s[k + 1] \in Nat
    BY <1>1, <1>8
  <2>2. e[k + 1] = e[k] + s[k + 1]
    BY <1>6, <2>1
  <2> QED
    BY <2>1, <2>2
<1> HIDE DEF S
<1>9. 0..n \subseteq S
  BY <1>1, <1>7, <1>8, UpTo
<1> QED
  BY <1>9 DEF S, e, n, s

(* The witgen regions: three, and the one of the witness is not empty.       *)
LEMMA SoaSizesType ==
    ASSUME NEW c \in Shape
    PROVE  /\ SoaSizes(c) \in Seq(Nat) /\ Len(SoaSizes(c)) = 3
           /\ witgen_captured_bytes(c) \in Nat \ {0}
           /\ MapBytes(c) \in Nat
<1>1. /\ c.read_len \in Nat /\ c.witness_len \in Nat \ {0}
      /\ c.params_len \in Nat /\ c.rep_map_len \in Nat
  BY DEF Shape
<1>2. /\ SoaSizes(c) \in Seq(Nat) /\ Len(SoaSizes(c)) = 3
      /\ SoaSizes(c) # <<>> /\ SoaSizes(c)[2] > 0 /\ SoaSizes(c)[2] \in Nat
  BY <1>1 DEF SoaSizes, U32, Goldilocks, Usize
<1>3. Ends(SoaSizes(c))[2] = align_up(Ends(SoaSizes(c))[1]) + SoaSizes(c)[2]
  <2>1. 2 \in 1..Len(SoaSizes(c)) /\ 2 - 1 = 1
    BY <1>2
  <2> QED
    BY <1>2, <2>1, EndsUnfold
<1>4. /\ Ends(SoaSizes(c))[1] \in Nat /\ Ends(SoaSizes(c))[2] \in Nat
      /\ Ends(SoaSizes(c))[3] \in Nat
      /\ Ends(SoaSizes(c))[2] <= Ends(SoaSizes(c))[3]
  <2>1. /\ 1 \in 0..Len(SoaSizes(c)) /\ 2 \in 0..Len(SoaSizes(c))
        /\ 2 \in 1..Len(SoaSizes(c)) /\ 3 \in 2..Len(SoaSizes(c))
    BY <1>2
  <2> QED
    BY <1>2, <2>1, EndsGrow
<1>5. Ends(SoaSizes(c))[2] > 0
  <2>1. align_up(Ends(SoaSizes(c))[1]) \in Nat
    BY <1>4, AlignUp
  <2> QED
    BY <1>2, <1>3, <2>1
<1>6. witgen_captured_bytes(c) \in Nat /\ witgen_captured_bytes(c) >= Ends(SoaSizes(c))[3]
  BY <1>2, SizerFits DEF witgen_captured_bytes
<1>7. MapBytes(c) \in Nat
  BY <1>1 DEF MapBytes, U32
<1> QED
  BY <1>2, <1>4, <1>5, <1>6, <1>7

(* The delayed trees and the FRI views: the three trees come first.          *)
LEMMA PostSizesType ==
    ASSUME NEW c \in Shape
    PROVE  /\ PostSizes(c) \in Seq(Nat) /\ PostSizes(c) # <<>>
           /\ post_witgen_bytes(c) \in Nat
<1> DEFINE k == Len(c.arity_bits)
           leaves == c.degree * c.extension_degree * Two[c.rate_bits]
           b == ArityBits(c)
           Round(i) == <<merkle_tree_len(c) \div Two[b[i]], leaves \div Two[b[i - 1]],
                         leaves \div Two[b[i - 1]], leaves \div Two[b[i]]>>
           rounds == [i \in 1..k |-> Round(i)]
           trees == [i \in 1..3 |-> merkle_tree_len(c)]
           views == [i \in 1..4 * k |-> rounds[(i + 3) \div 4][1 + ((i + 3) % 4)]]
           lens == trees \o views
<1>1. /\ k \in Nat /\ c.degree \in Nat /\ c.extension_degree \in Nat
      /\ c.rate_bits \in Nat
  BY DEF Shape
<1>2. merkle_tree_len(c) \in Nat /\ leaves \in Nat
  <2>1. \A x, y, z \in Nat : 8 * x * z \in Nat /\ x * y * z \in Nat
    OBVIOUS
  <2>2. Two[c.rate_bits] \in Nat
    BY <1>1, TwoPositive
  <2> QED
    BY <1>1, <2>1, <2>2 DEF merkle_tree_len
<1>3. \A i \in 0..k : Two[b[i]] \in Nat \ {0}
  BY TwoPositive, ArityBitsNat
<1>4. PostSizes(c) = [i \in DOMAIN lens |-> Goldilocks * lens[i]]
  BY DEF PostSizes
<1> HIDE DEF k, leaves, b
<1>5. ASSUME NEW x \in Nat, NEW y \in Nat \ {0} PROVE x \div y \in Nat
  OBVIOUS
<1>6. ASSUME NEW i \in 1..k, NEW j \in 1..4 PROVE Round(i)[j] \in Nat
  <2>1. i \in 0..k /\ i - 1 \in 0..k
    BY <1>1
  <2>2. Two[b[i]] \in Nat \ {0} /\ Two[b[i - 1]] \in Nat \ {0}
    BY <1>3, <2>1
  <2>3. /\ merkle_tree_len(c) \div Two[b[i]] \in Nat
        /\ leaves \div Two[b[i - 1]] \in Nat
        /\ leaves \div Two[b[i]] \in Nat
    BY <1>2, <1>5, <2>2
  <2> QED
    BY <2>3
<1> HIDE DEF Round
<1>7. ASSUME NEW i \in 1..4 * k
      PROVE  rounds[(i + 3) \div 4][1 + ((i + 3) % 4)] \in Nat
  <2>1. (i + 3) \div 4 \in 1..k /\ 1 + ((i + 3) % 4) \in 1..4
    BY <1>1
  <2> QED
    BY <1>6, <2>1
<1> HIDE DEF rounds
<1>8. trees \in Seq(Nat) /\ Len(trees) = 3
  BY <1>2
<1>9. views \in Seq(Nat)
  BY <1>1, <1>7
<1> HIDE DEF trees, views
<1>10. lens \in Seq(Nat) /\ Len(lens) >= 3 /\ Len(lens) \in Nat
  <2>1. Len(views) \in Nat
    BY <1>9
  <2>2. lens \in Seq(Nat)
    BY <1>8, <1>9
  <2>3. Len(lens) = Len(trees) + Len(views)
    BY <1>8, <1>9, ConcatProperties, Zenon
  <2> HIDE DEF lens
  <2> QED
    BY <1>8, <2>1, <2>2, <2>3
<1> HIDE DEF lens
<1>11. DOMAIN lens = 1..Len(lens) /\ \A i \in 1..Len(lens) : lens[i] \in Nat
  BY <1>10
<1>12. PostSizes(c) = [i \in 1..Len(lens) |-> Goldilocks * lens[i]]
  BY <1>4, <1>11
<1>13. PostSizes(c) \in Seq(Nat) /\ PostSizes(c) # <<>>
  <2>1. \A i \in 1..Len(lens) : Goldilocks * lens[i] \in Nat
    BY <1>11 DEF Goldilocks
  <2>2. PostSizes(c) \in Seq(Nat)
    BY <1>10, <1>12, <2>1
  <2>3. 1 \in DOMAIN PostSizes(c)
    BY <1>10, <1>12
  <2> QED
    BY <2>2, <2>3
<1> QED
  BY <1>13, SizerFits DEF post_witgen_bytes

----------------------------------------------------------------------------
(* Blocks and owners *)

\* Heap h with a block for the name n, and without block a.
Exchange(h, a, n, size) ==
    [x \in (DOMAIN h \ {a}) \cup {n} |->
        IF x = n THEN size ELSE [y \in DOMAIN h \ {a} |-> h[y]][x]]

(* One owner gets a new block and gives its old one back.                    *)
LEMMA ReplaceBlock ==
    ASSUME NEW h, NEW n, NEW a, NEW b, NEW c, NEW size \in Nat, NEW h2,
           Owners(h, n, a, b, c), h2 = Exchange(h, a, n + 1, size)
    PROVE  /\ Owners(h2, n + 1, n + 1, b, c)
           /\ n + 1 # Null /\ h2[n + 1] = size
           /\ b # Null => h2[b] = h[b]
           /\ c # Null => h2[c] = h[c]
<1>1. n \in Nat /\ n + 1 \in Nat /\ n + 1 # 0
  BY DEF Owners
<1>2. \A x \in {a, b, c} : x \in Nat /\ x # n + 1 /\ x \in 0..(n + 1)
  BY <1>1 DEF Owners
<1>3. DOMAIN h = {a, b, c} \ {0} /\ \A x \in {a, b, c} \ {0} : h[x] \in Nat
  BY DEF Owners, Null
<1>4. (DOMAIN h \ {a}) \cup {n + 1} = {n + 1, b, c} \ {0}
  BY <1>1, <1>2, <1>3 DEF Owners, Null
<1>5. ASSUME NEW x \in {b, c} \ {0} PROVE h2[x] = h[x] /\ h[x] \in Nat
  <2>1. x # n + 1 /\ x \in DOMAIN h \ {a}
    BY <1>2, <1>3, <1>5 DEF Owners, Null
  <2> QED
    BY <1>3, <2>1 DEF Exchange
<1>6. h2[n + 1] = size
  BY DEF Exchange
<1>7. h2 \in [{n + 1, b, c} \ {0} -> Nat]
  <2>1. \A x \in {n + 1, b, c} \ {0} : h2[x] \in Nat
    BY <1>5, <1>6
  <2>2. DOMAIN h2 = {n + 1, b, c} \ {0}
    BY <1>4 DEF Exchange
  <2>3. h2 = [x \in DOMAIN h2 |-> h2[x]]
    BY DEF Exchange
  <2> QED
    BY <2>1, <2>2, <2>3
<1> QED
  BY <1>1, <1>2, <1>5, <1>6, <1>7 DEF Owners, Null

\* Heap h without block a.
Cut(h, a) == [x \in DOMAIN h \ {a} |-> h[x]]

(* One owner gives its block back.                                           *)
LEMMA ReleaseBlock ==
    ASSUME NEW h, NEW n, NEW a, NEW b, NEW c, NEW h2,
           Owners(h, n, a, b, c), h2 = Cut(h, a)
    PROVE  /\ Owners(h2, n, Null, b, c)
           /\ b # Null => h2[b] = h[b]
           /\ c # Null => h2[c] = h[c]
<1>1. DOMAIN h = {a, b, c} \ {0} /\ \A x \in {a, b, c} \ {0} : h[x] \in Nat
  BY DEF Owners, Null
<1>2. DOMAIN h \ {a} = {0, b, c} \ {0}
  BY <1>1 DEF Owners, Null
<1>3. h2 \in [{0, b, c} \ {0} -> Nat]
  BY <1>1, <1>2 DEF Cut
<1>4. \A x \in {b, c} \ {0} : h2[x] = h[x]
  BY <1>1, <1>2 DEF Cut
<1> QED
  BY <1>3, <1>4 DEF Owners, Null

LEMMA OwnersInAnyOrder ==
    ASSUME NEW h, NEW n, NEW a, NEW b, NEW c, Owners(h, n, a, b, c)
    PROVE  Owners(h, n, b, a, c) /\ Owners(h, n, c, b, a)
<1>1. {a, b, c} = {b, a, c} /\ {a, b, c} = {c, b, a}
  OBVIOUS
<1> QED
  BY <1>1 DEF Owners

LEMMA OwnedLen ==
    ASSUME NEW h, NEW n, NEW a, NEW b, NEW c, Owners(h, n, a, b, c)
    PROVE  LenIn(h, a) \in Nat /\ LenIn(h, b) \in Nat /\ LenIn(h, c) \in Nat
  BY DEF Owners, LenIn, Null

(* Regions stay held while the lengths of their blocks do.                   *)
LEMMA HeldStays ==
    ASSUME NEW h, NEW h2, NEW r, NEW o, NEW o2, HeldIn(h, r, o),
           \A b \in o : b # Null => b \in o2 /\ h2[b] = h[b]
    PROVE  HeldIn(h2, r, o2)
  BY DEF HeldIn

LEMMA NothingHeld == ASSUME NEW h, NEW o PROVE HeldIn(h, <<>>, o)
  BY DEF HeldIn

(* The views of a block that is long enough are held in it.                  *)
LEMMA CarveHeld ==
    ASSUME NEW sizes \in Seq(Nat), NEW b, b # Null, NEW h, NEW o, b \in o,
           h[b] \in Nat, Ends(sizes)[Len(sizes)] <= h[b]
    PROVE  HeldIn(h, Carve(b, sizes), o)
<1> SUFFICES ASSUME NEW i \in DOMAIN Carve(b, sizes)
             PROVE  /\ Carve(b, sizes)[i].block \in o
                    /\ Carve(b, sizes)[i].block # Null
                    /\ Carve(b, sizes)[i].end <= h[Carve(b, sizes)[i].block]
  BY DEF HeldIn
<1>1. /\ Carve(b, sizes)[i].block = b
      /\ Carve(b, sizes)[i].end \in Nat
      /\ Carve(b, sizes)[i].end <= Ends(sizes)[Len(sizes)]
  BY CarveFits
<1>2. Ends(sizes)[Len(sizes)] \in Nat
  BY EndsUnfold
<1> QED
  BY <1>1, <1>2

LEMMA MaxOfTwo ==
    ASSUME NEW a \in Nat, NEW b \in Nat
    PROVE  Max({a, b}) = IF a >= b THEN a ELSE b
<1> DEFINE m == IF a >= b THEN a ELSE b
<1>1. m \in {a, b} /\ \A y \in {a, b} : m >= y
  OBVIOUS
<1>2. \A x \in {a, b} : (\A y \in {a, b} : x >= y) => x = m
  OBVIOUS
<1> HIDE DEF m
<1>3. Max({a, b}) = m
  BY <1>1, <1>2 DEF Max
<1> QED
  BY <1>3 DEF m

----------------------------------------------------------------------------
(* The steps preserve the invariant *)

(* What is known of the sizes of the circuit.                                *)
LEMMA CircuitSizes ==
    ASSUME HeapInv
    PROVE  /\ circuit \in Shape /\ circuit.capacity \in Nat
           /\ SoaSizes(circuit) \in Seq(Nat) /\ SoaSizes(circuit) # <<>>
           /\ witgen_captured_bytes(circuit) \in Nat \ {0}
           /\ MapBytes(circuit) \in Nat
           /\ PostSizes(circuit) \in Seq(Nat) /\ PostSizes(circuit) # <<>>
           /\ post_witgen_bytes(circuit) \in Nat
           /\ Ends(SoaSizes(circuit))[Len(SoaSizes(circuit))] <= witgen_captured_bytes(circuit)
           /\ Ends(PostSizes(circuit))[Len(PostSizes(circuit))] <= post_witgen_bytes(circuit)
<1>1. circuit \in Shape
  BY LifecycleAssumption DEF HeapInv
<1>2. circuit.capacity \in Nat
  BY <1>1 DEF Shape
<1>3. /\ SoaSizes(circuit) \in Seq(Nat) /\ Len(SoaSizes(circuit)) = 3
      /\ witgen_captured_bytes(circuit) \in Nat \ {0}
      /\ MapBytes(circuit) \in Nat
  BY <1>1, SoaSizesType
<1>4. SoaSizes(circuit) # <<>>
  BY DEF SoaSizes
<1>5. /\ PostSizes(circuit) \in Seq(Nat) /\ PostSizes(circuit) # <<>>
      /\ post_witgen_bytes(circuit) \in Nat
  BY <1>1, PostSizesType
<1>6. Ends(SoaSizes(circuit))[Len(SoaSizes(circuit))] <= witgen_captured_bytes(circuit)
  BY <1>3, <1>4, SizerFits DEF witgen_captured_bytes
<1>7. Ends(PostSizes(circuit))[Len(PostSizes(circuit))] <= post_witgen_bytes(circuit)
  BY <1>5, SizerFits DEF post_witgen_bytes
<1> QED
  BY <1>1, <1>2, <1>3, <1>4, <1>5, <1>6, <1>7

LEMMA LifeInit == Init => LifeInv
<1> SUFFICES ASSUME Init PROVE LifeInv
  OBVIOUS
<1>1. Owners(heap, blocks, scratch, fri_scratch, representative_map)
  <2>1. {scratch, fri_scratch, representative_map} \ {Null} = {}
    BY DEF Init
  <2>2. heap \in [{} -> Nat]
    BY DEF Init
  <2> QED
    BY <2>1, <2>2 DEF Init, Owners, Null
<1>2. HeapInv
  <2>1. circuit.capacity \in Nat
    BY LifecycleAssumption DEF Init, Shape
  <2> QED
    BY <1>1, <2>1 DEF Init, HeapInv, Pcs, LenIn, Accounts
<1>3. ViewInv
  BY NothingHeld DEF Init, ViewInv, NoKernels
<1>4. FirstInv
  BY DEF Init, FirstInv, Building, Proving, FirstProveCompletes, Null
<1>5. PostViewsDisjoint
  BY DEF Init, PostViewsDisjoint
<1> QED
  BY <1>2, <1>3, <1>4, <1>5 DEF LifeInv

(* The steps that leave the device's memory and its owners alone.            *)
Quiet == UNCHANGED <<circuit, heap, free_bytes, blocks, scratch, fri_scratch,
                     representative_map>>

LEMMA QuietHeap ==
    ASSUME HeapInv, Quiet, pc' \in Pcs, proves' \in Nat
    PROVE  HeapInv'
  BY DEF HeapInv, Quiet

(* Block lengths are those of the heap.                                      *)
LEMMA BlockLens ==
    ASSUME HeapInv
    PROVE  /\ BlockLen(scratch) = LenIn(heap, scratch)
           /\ BlockLen(fri_scratch) = LenIn(heap, fri_scratch)
           /\ BlockLen(representative_map) = LenIn(heap, representative_map)
           /\ LenIn(heap, scratch) \in Nat /\ LenIn(heap, fri_scratch) \in Nat
           /\ LenIn(heap, representative_map) \in Nat /\ LenIn(heap, Null) = 0
           /\ blocks \in Nat
<1>1. Owners(heap, blocks, scratch, fri_scratch, representative_map)
  BY DEF HeapInv
<1> QED
  BY <1>1, OwnedLen DEF BlockLen, LenIn, Owners

\* Owner a has a new block of this size.
Gets(a, size) ==
    /\ heap' = With(Without({a}), Fresh, size)
    /\ free_bytes' = free_bytes - size + BlockLen(a)
    /\ blocks' = Fresh

\* Owner a has no block any more.
GivesBack(a) ==
    /\ heap' = Without({a})
    /\ free_bytes' = free_bytes + BlockLen(a)
    /\ blocks' = blocks

LEMMA GetsBlock ==
    ASSUME NEW cap \in Nat, NEW a, NEW b, NEW c, NEW size \in Nat,
           Owners(heap, blocks, a, b, c), Accounts(cap, free_bytes, heap, a, b, c),
           Gets(a, size)
    PROVE  /\ Owners(heap', blocks', Fresh, b, c)
           /\ Accounts(cap, free_bytes', heap', Fresh, b, c)
           /\ Fresh # Null /\ heap'[Fresh] = size
           /\ b # Null => heap'[b] = heap[b]
           /\ c # Null => heap'[c] = heap[c]
<1> DEFINE h2 == heap'
           f2 == free_bytes'
           x == LenIn(heap, a)
           y == LenIn(heap, b)
           z == LenIn(heap, c)
<1>1. h2 = Exchange(heap, a, blocks + 1, size)
  BY DEF Gets, With, Without, Fresh, Exchange
<1>2. blocks' = blocks + 1 /\ Fresh = blocks + 1
  BY DEF Gets, Fresh
<1>3. f2 = free_bytes - size + x
  BY DEF Gets, BlockLen, LenIn
<1>4. x \in Nat /\ y \in Nat /\ z \in Nat /\ free_bytes = cap - x - y - z
  BY OwnedLen DEF Accounts
<1> HIDE DEF h2, f2
<1>5. /\ Owners(h2, blocks + 1, blocks + 1, b, c)
      /\ blocks + 1 # Null /\ h2[blocks + 1] = size
      /\ b # Null => h2[b] = heap[b]
      /\ c # Null => h2[c] = heap[c]
  BY <1>1, ReplaceBlock
<1>6. LenIn(h2, b) = y /\ LenIn(h2, c) = z /\ LenIn(h2, blocks + 1) = size
  BY <1>5 DEF LenIn
<1> HIDE DEF x, y, z
<1>7. f2 = cap - size - y - z
  BY <1>3, <1>4
<1>8. Accounts(cap, f2, h2, blocks + 1, b, c)
  BY <1>6, <1>7 DEF Accounts
<1> QED
  BY <1>2, <1>5, <1>8 DEF h2, f2

LEMMA GivesBackBlock ==
    ASSUME NEW cap \in Nat, NEW a, NEW b, NEW c, Owners(heap, blocks, a, b, c),
           Accounts(cap, free_bytes, heap, a, b, c), GivesBack(a)
    PROVE  /\ Owners(heap', blocks', Null, b, c)
           /\ Accounts(cap, free_bytes', heap', Null, b, c)
           /\ b # Null => heap'[b] = heap[b]
           /\ c # Null => heap'[c] = heap[c]
<1> DEFINE h2 == heap'
           f2 == free_bytes'
           x == LenIn(heap, a)
           y == LenIn(heap, b)
           z == LenIn(heap, c)
<1>1. h2 = Cut(heap, a) /\ blocks' = blocks
  BY DEF GivesBack, Without, Cut
<1>2. f2 = free_bytes + x
  BY DEF GivesBack, BlockLen, LenIn
<1>3. x \in Nat /\ y \in Nat /\ z \in Nat /\ free_bytes = cap - x - y - z
  BY OwnedLen DEF Accounts
<1> HIDE DEF h2, f2
<1>4. /\ Owners(h2, blocks, Null, b, c)
      /\ b # Null => h2[b] = heap[b]
      /\ c # Null => h2[c] = heap[c]
  BY <1>1, ReleaseBlock
<1>5. LenIn(h2, b) = y /\ LenIn(h2, c) = z /\ LenIn(h2, Null) = 0
  BY <1>4 DEF LenIn
<1> HIDE DEF x, y, z
<1>6. f2 = cap - 0 - y - z
  BY <1>2, <1>3
<1>7. Accounts(cap, f2, h2, Null, b, c)
  BY <1>5, <1>6 DEF Accounts
<1> QED
  BY <1>1, <1>4, <1>7 DEF h2, f2

LEMMA AccountsInAnyOrder ==
    ASSUME NEW cap \in Nat, NEW free, NEW h, NEW n, NEW a, NEW b, NEW c,
           Owners(h, n, a, b, c), Accounts(cap, free, h, a, b, c)
    PROVE  Accounts(cap, free, h, b, a, c) /\ Accounts(cap, free, h, c, b, a)
<1> DEFINE x == LenIn(h, a)
           y == LenIn(h, b)
           z == LenIn(h, c)
<1>1. x \in Nat /\ y \in Nat /\ z \in Nat /\ free = cap - x - y - z
  BY OwnedLen DEF Accounts
<1> HIDE DEF x, y, z
<1>2. free = cap - y - x - z /\ free = cap - z - y - x
  BY <1>1
<1> QED
  BY <1>2 DEF x, y, z, Accounts

(* The owners' steps, one lemma each.                                        *)
LEMMA ScratchGets ==
    ASSUME HeapInv, NEW size \in Nat, Gets(scratch, size), scratch' = Fresh,
           UNCHANGED <<circuit, proves, fri_scratch, representative_map>>, pc' \in Pcs
    PROVE  /\ HeapInv' /\ Fresh # Null /\ heap'[Fresh] = size
           /\ fri_scratch # Null => heap'[fri_scratch] = heap[fri_scratch]
           /\ representative_map # Null =>
                heap'[representative_map] = heap[representative_map]
  BY GetsBlock, CircuitSizes DEF HeapInv

LEMMA FriGets ==
    ASSUME HeapInv, NEW size \in Nat, Gets(fri_scratch, size), fri_scratch' = Fresh,
           UNCHANGED <<circuit, proves, scratch, representative_map>>, pc' \in Pcs
    PROVE  /\ HeapInv' /\ Fresh # Null /\ heap'[Fresh] = size
           /\ scratch # Null => heap'[scratch] = heap[scratch]
           /\ representative_map # Null =>
                heap'[representative_map] = heap[representative_map]
<1>1. /\ Owners(heap, blocks, fri_scratch, scratch, representative_map)
      /\ Accounts(circuit.capacity, free_bytes, heap, fri_scratch, scratch,
                  representative_map)
  BY OwnersInAnyOrder, AccountsInAnyOrder, CircuitSizes DEF HeapInv
<1>2. /\ Owners(heap', blocks', Fresh, scratch, representative_map)
      /\ Accounts(circuit.capacity, free_bytes', heap', Fresh, scratch,
                  representative_map)
      /\ Fresh # Null /\ heap'[Fresh] = size
      /\ scratch # Null => heap'[scratch] = heap[scratch]
      /\ representative_map # Null =>
           heap'[representative_map] = heap[representative_map]
  BY <1>1, GetsBlock, CircuitSizes
<1>3. /\ Owners(heap', blocks', scratch, Fresh, representative_map)
      /\ Accounts(circuit.capacity, free_bytes', heap', scratch, Fresh,
                  representative_map)
  BY <1>2, OwnersInAnyOrder, AccountsInAnyOrder, CircuitSizes
<1> QED
  BY <1>2, <1>3 DEF HeapInv

LEMMA MapGets ==
    ASSUME HeapInv, NEW size \in Nat, Gets(representative_map, size),
           representative_map' = Fresh,
           UNCHANGED <<circuit, proves, scratch, fri_scratch>>, pc' \in Pcs
    PROVE  /\ HeapInv' /\ Fresh # Null /\ heap'[Fresh] = size
           /\ scratch # Null => heap'[scratch] = heap[scratch]
           /\ fri_scratch # Null => heap'[fri_scratch] = heap[fri_scratch]
<1>1. /\ Owners(heap, blocks, representative_map, fri_scratch, scratch)
      /\ Accounts(circuit.capacity, free_bytes, heap, representative_map,
                  fri_scratch, scratch)
  BY OwnersInAnyOrder, AccountsInAnyOrder, CircuitSizes DEF HeapInv
<1>2. /\ Owners(heap', blocks', Fresh, fri_scratch, scratch)
      /\ Accounts(circuit.capacity, free_bytes', heap', Fresh, fri_scratch, scratch)
      /\ Fresh # Null /\ heap'[Fresh] = size
      /\ scratch # Null => heap'[scratch] = heap[scratch]
      /\ fri_scratch # Null => heap'[fri_scratch] = heap[fri_scratch]
  BY <1>1, GetsBlock, CircuitSizes
<1>3. /\ Owners(heap', blocks', scratch, fri_scratch, Fresh)
      /\ Accounts(circuit.capacity, free_bytes', heap', scratch, fri_scratch, Fresh)
  BY <1>2, OwnersInAnyOrder, AccountsInAnyOrder, CircuitSizes
<1> QED
  BY <1>2, <1>3 DEF HeapInv

LEMMA ScratchGivesBack ==
    ASSUME HeapInv, GivesBack(scratch), scratch' = Null,
           UNCHANGED <<circuit, proves, fri_scratch, representative_map>>, pc' \in Pcs
    PROVE  /\ HeapInv'
           /\ fri_scratch # Null => heap'[fri_scratch] = heap[fri_scratch]
           /\ representative_map # Null =>
                heap'[representative_map] = heap[representative_map]
  BY GivesBackBlock, CircuitSizes DEF HeapInv

LEMMA MapGivesBack ==
    ASSUME HeapInv, GivesBack(representative_map), representative_map' = Null,
           UNCHANGED <<circuit, proves, scratch, fri_scratch>>, pc' \in Pcs
    PROVE  /\ HeapInv'
           /\ scratch # Null => heap'[scratch] = heap[scratch]
           /\ fri_scratch # Null => heap'[fri_scratch] = heap[fri_scratch]
<1>1. /\ Owners(heap, blocks, representative_map, fri_scratch, scratch)
      /\ Accounts(circuit.capacity, free_bytes, heap, representative_map,
                  fri_scratch, scratch)
  BY OwnersInAnyOrder, AccountsInAnyOrder, CircuitSizes DEF HeapInv
<1>2. /\ Owners(heap', blocks', Null, fri_scratch, scratch)
      /\ Accounts(circuit.capacity, free_bytes', heap', Null, fri_scratch, scratch)
      /\ scratch # Null => heap'[scratch] = heap[scratch]
      /\ fri_scratch # Null => heap'[fri_scratch] = heap[fri_scratch]
  BY <1>1, GivesBackBlock, CircuitSizes
<1>3. /\ Owners(heap', blocks', scratch, fri_scratch, Null)
      /\ Accounts(circuit.capacity, free_bytes', heap', scratch, fri_scratch, Null)
  BY <1>2, OwnersInAnyOrder, AccountsInAnyOrder, CircuitSizes
<1> QED
  BY <1>2, <1>3 DEF HeapInv

LEMMA AllGiveBack ==
    ASSUME HeapInv, DropFields
    PROVE  HeapInv'
<1> DEFINE cap == circuit.capacity
           x == LenIn(heap, scratch)
           y == LenIn(heap, fri_scratch)
           z == LenIn(heap, representative_map)
           h2 == heap'
<1>1. Owners(heap, blocks, scratch, fri_scratch, representative_map)
  BY DEF HeapInv
<1>2. DOMAIN heap \ {representative_map, scratch, fri_scratch} = {}
  BY <1>1 DEF Owners
<1>3. h2 = [b \in {} |-> heap[b]]
  BY <1>2 DEF DropFields, Without
<1>4. h2 \in [{Null, Null, Null} \ {Null} -> Nat]
  <2> HIDE DEF h2
  <2>1. {Null, Null, Null} \ {Null} = {}
    OBVIOUS
  <2> QED
    BY <1>3, <2>1
<1> HIDE DEF h2
<1>5. Owners(h2, blocks, Null, Null, Null)
  BY <1>1, <1>4 DEF Owners, Null
<1>6. free_bytes' = free_bytes + z + x + y
  BY BlockLens DEF DropFields
<1>7. free_bytes = cap - x - y - z
  BY DEF HeapInv, Accounts
<1>8. cap \in Nat /\ x \in Nat /\ y \in Nat /\ z \in Nat
  BY BlockLens, CircuitSizes
<1>9. free_bytes' = cap - 0 - 0 - 0
  <2> HIDE DEF cap, x, y, z
  <2> QED
    BY <1>6, <1>7, <1>8
<1>10. /\ circuit' = circuit /\ proves' = proves /\ blocks' = blocks
       /\ pc' = "dropped" /\ scratch' = Null /\ fri_scratch' = Null
       /\ representative_map' = Null
  BY DEF DropFields
<1>11. LenIn(h2, Null) = 0
  BY DEF LenIn
<1> QED
  BY <1>5, <1>9, <1>10, <1>11 DEF HeapInv, Pcs, Accounts, h2, cap

(* Steps that keep the blocks, by what they do to the rest.                  *)
LEMMA PanicStep ==
    ASSUME LifeInv, Panic,
           proves <= 1 =>
             circuit.capacity < Max({witgen_captured_bytes(circuit) + MapBytes(circuit),
                                     post_witgen_bytes(circuit)})
    PROVE  LifeInv'
<1>1. /\ Quiet /\ pc' = "panicked"
      /\ UNCHANGED <<proves, post, soa, graph, stream, scatter, wires, plan>>
  BY DEF Panic, Quiet, device, buildVars
<1>2. HeapInv'
  BY <1>1, QuietHeap DEF LifeInv, HeapInv, Pcs
<1>3. ViewInv'
  BY <1>1 DEF LifeInv, ViewInv, Quiet
<1>4. FirstInv'
  BY <1>1 DEF LifeInv, FirstInv, Quiet, Building, Proving, FirstProveCompletes
<1>5. PostViewsDisjoint'
  BY <1>1 DEF LifeInv, PostViewsDisjoint
<1> QED
  BY <1>2, <1>3, <1>4, <1>5 DEF LifeInv

(* prove before the scatter map is released, and after the path is bound:    *)
(* only pc and the counters change.                                          *)
LEMMA BeginProveStep == ASSUME LifeInv, BeginProve PROVE LifeInv'
<1>1. /\ Quiet /\ pc = "idle" /\ pc' = "upload" /\ proves' = proves + 1
      /\ UNCHANGED <<post, soa, graph, stream, scatter, wires, plan>>
  BY DEF BeginProve, Quiet, device, buildVars
<1>2. HeapInv'
  BY <1>1, QuietHeap DEF LifeInv, HeapInv, Pcs
<1>3. ViewInv'
  BY <1>1 DEF LifeInv, ViewInv, Quiet
<1>4. FirstInv'
  <2>1. proves \in Nat
    BY DEF LifeInv, HeapInv
  <2> QED
    BY <1>1, <2>1 DEF LifeInv, FirstInv, Quiet, Building, Proving, FirstProveCompletes
<1>5. PostViewsDisjoint'
  BY <1>1 DEF LifeInv, PostViewsDisjoint
<1> QED
  BY <1>2, <1>3, <1>4, <1>5 DEF LifeInv

LEMMA UploadInputsStep == ASSUME LifeInv, UploadInputs PROVE LifeInv'
<1>1. CASE circuit.has_inputs /\ soa = <<>>
  <2>1. Panic /\ pc = "upload"
    BY <1>1 DEF UploadInputs
  <2>2. ~(proves <= 1)
    BY <1>1, <2>1 DEF LifeInv, FirstInv, Proving, HeapInv
  <2> QED
    BY <2>1, <2>2, PanicStep
<1>2. CASE ~(circuit.has_inputs /\ soa = <<>>)
  <2>1. /\ Quiet /\ pc = "upload" /\ pc' = "replay"
        /\ UNCHANGED <<proves, post, soa, graph, stream, scatter, wires, plan>>
    BY <1>2 DEF UploadInputs, Quiet, device, buildVars
  <2>2. HeapInv'
    BY <2>1, QuietHeap DEF LifeInv, HeapInv, Pcs
  <2>3. ViewInv'
    BY <2>1 DEF LifeInv, ViewInv, Quiet
  <2>4. FirstInv'
    BY <2>1 DEF LifeInv, FirstInv, Quiet, Building, Proving, FirstProveCompletes
  <2>5. PostViewsDisjoint'
    BY <2>1 DEF LifeInv, PostViewsDisjoint
  <2> QED
    BY <2>2, <2>3, <2>4, <2>5 DEF LifeInv
<1> QED
  BY <1>1, <1>2

LEMMA ReplayStep == ASSUME LifeInv, Replay PROVE LifeInv'
<1>1. pc = "replay" /\ (proves <= 1 => proves = 1)
  BY DEF Replay, LifeInv, FirstInv, Proving, HeapInv
<1>2. proves <= 1 => scatter # <<>> /\ (graph # <<>> \/ stream # <<>>) /\ plan = TRUE
  BY <1>1 DEF LifeInv, FirstInv
<1>3. CASE /\ wires' = IF scatter = <<>> THEN wires
                       ELSE IF plan THEN "witness" ELSE "garbage"
           /\ pc' = "hash_pi"
           /\ UNCHANGED <<circuit, proves, device, scratch, fri_scratch,
                          representative_map, soa, post, graph, stream, scatter,
                          plan, proofVars>>
  <2>1. /\ Quiet /\ UNCHANGED <<proves, post, soa, graph, stream, scatter, plan>>
        /\ pc = "replay" /\ pc' = "hash_pi" /\ (proves = 1 => wires' = "witness")
    BY <1>1, <1>2, <1>3 DEF Quiet, device, LifeInv, HeapInv
  <2>2. HeapInv'
    BY <2>1, QuietHeap DEF LifeInv, HeapInv, Pcs
  <2>3. ViewInv'
    BY <2>1 DEF LifeInv, ViewInv, Quiet
  <2>4. FirstInv'
    BY <2>1 DEF LifeInv, FirstInv, Quiet, Building, Proving, FirstProveCompletes
  <2>5. PostViewsDisjoint'
    BY <2>1 DEF LifeInv, PostViewsDisjoint
  <2> QED
    BY <2>2, <2>3, <2>4, <2>5 DEF LifeInv
<1>4. CASE Panic /\ ~plan
  <2>1. ~(proves <= 1)
    BY <1>2, <1>4
  <2> QED
    BY <1>4, <2>1, PanicStep
<1>5. CASE Panic /\ stream = <<>> /\ ~has_live_graph
  <2>1. ~(proves <= 1)
    BY <1>2, <1>5 DEF has_live_graph
  <2> QED
    BY <1>5, <2>1, PanicStep
<1> QED
  BY <1>3, <1>4, <1>5 DEF Replay

LEMMA HashPiStep == ASSUME LifeInv, HashPi PROVE LifeInv'
<1>1. CASE circuit.has_public_inputs /\ soa = <<>>
  <2>1. Panic /\ pc = "hash_pi"
    BY <1>1 DEF HashPi
  <2>2. ~(proves <= 1)
    BY <1>1, <2>1 DEF LifeInv, FirstInv, Proving, HeapInv
  <2> QED
    BY <2>1, <2>2, PanicStep
<1>2. CASE ~(circuit.has_public_inputs /\ soa = <<>>)
  <2>1. /\ Quiet /\ pc = "hash_pi" /\ pc' = "release"
        /\ UNCHANGED <<proves, post, soa, graph, stream, scatter, wires, plan>>
    BY <1>2 DEF HashPi, Quiet, device, buildVars
  <2>2. HeapInv'
    BY <2>1, QuietHeap DEF LifeInv, HeapInv, Pcs
  <2>3. ViewInv'
    BY <2>1 DEF LifeInv, ViewInv, Quiet
  <2>4. FirstInv'
    BY <2>1 DEF LifeInv, FirstInv, Quiet, Building, Proving, FirstProveCompletes
  <2>5. PostViewsDisjoint'
    BY <2>1 DEF LifeInv, PostViewsDisjoint
  <2> QED
    BY <2>2, <2>3, <2>4, <2>5 DEF LifeInv
<1> QED
  BY <1>1, <1>2

LEMMA ChoosePathStep == ASSUME LifeInv, ChoosePath PROVE LifeInv'
<1>1. CASE extra_fri
  <2>1. /\ Quiet /\ pc = "choose" /\ pc' = "bind_extra"
        /\ UNCHANGED <<proves, post, soa, graph, stream, scatter, wires, plan>>
    BY <1>1 DEF ChoosePath, Quiet, device
  <2>6. free_bytes >= post_witgen_bytes(circuit)
    <3>1. free_bytes >= post_witgen_bytes(circuit) + Slack /\ Slack \in Nat
      BY <1>1, LifecycleAssumption DEF extra_fri
    <3>2. post_witgen_bytes(circuit) \in Nat /\ free_bytes \in Int
      BY CircuitSizes, BlockLens DEF LifeInv, HeapInv, Accounts
    <3> QED
      BY <3>1, <3>2
  <2>2. HeapInv'
    BY <2>1, QuietHeap DEF LifeInv, HeapInv, Pcs
  <2>3. ViewInv'
    BY <2>1 DEF LifeInv, ViewInv, Quiet
  <2>4. FirstInv'
    BY <2>1, <2>6 DEF LifeInv, FirstInv, Quiet, Building, Proving, FirstProveCompletes
  <2>5. PostViewsDisjoint'
    BY <2>1 DEF LifeInv, PostViewsDisjoint
  <2> QED
    BY <2>2, <2>3, <2>4, <2>5 DEF LifeInv
<1>2. CASE overlay_soa /\ ~extra_fri
  <2>1. /\ Quiet /\ pc = "choose" /\ pc' = "bind_overlay"
        /\ UNCHANGED <<proves, post, soa, graph, stream, scatter, wires, plan>>
    BY <1>2 DEF ChoosePath, Quiet, device
  <2>6. scratch # Null /\ LenIn(heap, scratch) >= post_witgen_bytes(circuit)
    BY <1>2, BlockLens DEF overlay_soa, has_live_graph, LifeInv, ViewInv
  <2>2. HeapInv'
    BY <2>1, QuietHeap DEF LifeInv, HeapInv, Pcs
  <2>3. ViewInv'
    BY <2>1 DEF LifeInv, ViewInv, Quiet
  <2>4. FirstInv'
    BY <2>1, <2>6 DEF LifeInv, FirstInv, Quiet, Building, Proving, FirstProveCompletes
  <2>5. PostViewsDisjoint'
    BY <2>1 DEF LifeInv, PostViewsDisjoint
  <2> QED
    BY <2>2, <2>3, <2>4, <2>5 DEF LifeInv
<1>3. CASE ~(extra_fri \/ overlay_soa)
  <2>1. /\ Quiet /\ pc = "choose" /\ pc' = "recycle"
        /\ graph' = <<>> /\ stream' = <<>> /\ scatter' = <<>>
        /\ UNCHANGED <<proves, post, soa, wires, plan>>
    BY <1>3 DEF ChoosePath, Quiet, device
  <2>2. HeapInv'
    BY <2>1, QuietHeap DEF LifeInv, HeapInv, Pcs
  <2>3. ViewInv'
    BY <2>1, NothingHeld DEF LifeInv, ViewInv, Quiet, NoKernels
  <2>4. FirstInv'
    BY <2>1 DEF LifeInv, FirstInv, Quiet, Building, Proving, FirstProveCompletes
  <2>5. PostViewsDisjoint'
    BY <2>1 DEF LifeInv, PostViewsDisjoint
  <2> QED
    BY <2>2, <2>3, <2>4, <2>5 DEF LifeInv
<1> QED
  BY <1>1, <1>2, <1>3

LEMMA CommitAndProveStep == ASSUME LifeInv, CommitAndProve PROVE LifeInv'
<1>1. /\ Quiet /\ pc = "commit" /\ pc' = "copy_caps"
      /\ UNCHANGED <<proves, post, soa, graph, stream, scatter>>
  <2>1. post # <<>>
    BY DEF CommitAndProve, LifeInv, FirstInv
  <2> QED
    BY <2>1 DEF CommitAndProve, Quiet, device
<1>2. HeapInv'
  BY <1>1, QuietHeap DEF LifeInv, HeapInv, Pcs
<1>3. ViewInv'
  BY <1>1 DEF LifeInv, ViewInv, Quiet
<1>4. FirstInv'
  BY <1>1 DEF LifeInv, FirstInv, Quiet, Building, Proving, FirstProveCompletes
<1>5. PostViewsDisjoint'
  BY <1>1 DEF LifeInv, PostViewsDisjoint
<1> QED
  BY <1>2, <1>3, <1>4, <1>5 DEF LifeInv

LEMMA LaunchCapCopiesStep == ASSUME LifeInv, LaunchCapCopies PROVE LifeInv'
<1>1. /\ Quiet /\ pc = "copy_caps" /\ pc' = "assemble"
      /\ UNCHANGED <<proves, post, soa, graph, stream, scatter, wires, plan>>
  BY DEF LaunchCapCopies, Quiet, device, buildVars
<1>2. HeapInv'
  BY <1>1, QuietHeap DEF LifeInv, HeapInv, Pcs
<1>3. ViewInv'
  BY <1>1 DEF LifeInv, ViewInv, Quiet
<1>4. FirstInv'
  BY <1>1 DEF LifeInv, FirstInv, Quiet, Building, Proving, FirstProveCompletes
<1>5. PostViewsDisjoint'
  BY <1>1 DEF LifeInv, PostViewsDisjoint
<1> QED
  BY <1>2, <1>3, <1>4, <1>5 DEF LifeInv

LEMMA AssembleCapsStep == ASSUME LifeInv, AssembleCaps PROVE LifeInv'
<1>1. /\ Quiet /\ pc = "assemble" /\ pc' = "idle" /\ proves >= 1
      /\ UNCHANGED <<proves, post, soa, graph, stream, scatter, wires, plan>>
  BY DEF AssembleCaps, Quiet, device, buildVars, LifeInv, FirstInv, Proving
<1>2. HeapInv'
  BY <1>1, QuietHeap DEF LifeInv, HeapInv, Pcs
<1>3. ViewInv'
  BY <1>1 DEF LifeInv, ViewInv, Quiet
<1>4. FirstInv'
  BY <1>1 DEF LifeInv, FirstInv, Quiet, Building, Proving, FirstProveCompletes
<1>5. PostViewsDisjoint'
  BY <1>1 DEF LifeInv, PostViewsDisjoint
<1> QED
  BY <1>2, <1>3, <1>4, <1>5 DEF LifeInv

LEMMA StutterStep ==
    ASSUME LifeInv, (\E stage \in Stages : CopyCap(stage)) \/ UNCHANGED vars
    PROVE  LifeInv'
<1>1. /\ Quiet /\ pc' = pc
      /\ UNCHANGED <<proves, post, soa, graph, stream, scatter, wires, plan>>
  BY DEF CopyCap, Quiet, device, buildVars, vars
<1>2. HeapInv'
  BY <1>1, QuietHeap DEF LifeInv, HeapInv, Pcs
<1>3. ViewInv'
  BY <1>1 DEF LifeInv, ViewInv, Quiet, NoKernels
<1>4. FirstInv'
  BY <1>1 DEF LifeInv, FirstInv, Quiet, Building, Proving, FirstProveCompletes
<1>5. PostViewsDisjoint'
  BY <1>1 DEF LifeInv, PostViewsDisjoint
<1> QED
  BY <1>2, <1>3, <1>4, <1>5 DEF LifeInv

LEMMA DropGraphStep == ASSUME LifeInv, DropGraph PROVE LifeInv'
<1>1. /\ Quiet /\ pc \in {"idle", "panicked"} /\ pc' = "drop_fields"
      /\ graph' = <<>> /\ stream' = <<>> /\ scatter' = <<>>
      /\ UNCHANGED <<proves, post, soa, wires, plan>>
  BY DEF DropGraph, Quiet, device
<1>2. HeapInv'
  BY <1>1, QuietHeap DEF LifeInv, HeapInv, Pcs
<1>3. ViewInv'
  <2>1. /\ HeldIn(heap, graph, {scratch})'
        /\ HeldIn(heap, stream, {scratch})'
        /\ HeldIn(heap, scatter, {scratch, representative_map})'
    BY <1>1, NothingHeld
  <2>2. HeldIn(heap, soa, {scratch})'
    BY <1>1 DEF LifeInv, ViewInv, Quiet
  <2> QED
    BY <1>1, <2>1, <2>2 DEF LifeInv, ViewInv, Quiet, NoKernels
<1>4. FirstInv'
  BY <1>1 DEF LifeInv, FirstInv, Quiet, Building, Proving, FirstProveCompletes
<1>5. PostViewsDisjoint'
  BY <1>1 DEF LifeInv, PostViewsDisjoint
<1> QED
  BY <1>2, <1>3, <1>4, <1>5 DEF LifeInv

(* Views of the delayed trees and of FRI, wherever they are carved.          *)
LEMMA PostCarved ==
    ASSUME LifeInv, NEW b, post' = Carve(b, PostSizes(circuit))
    PROVE  PostViewsDisjoint' /\ post' # <<>>
<1> DEFINE sizes == PostSizes(circuit)
           r == Carve(b, sizes)
<1>1. sizes \in Seq(Nat) /\ sizes # <<>>
  BY CircuitSizes DEF LifeInv
<1> HIDE DEF sizes
<1>2. \A i, j \in DOMAIN r :
        /\ r[i].start % Align = 0
        /\ i # j => r[i].end <= r[j].start \/ r[j].end <= r[i].start
  BY <1>1, CarveDisjoint
<1>3. r # <<>>
  <2>1. DOMAIN r = 1..Len(sizes)
    BY <1>1, CarveRegions
  <2>2. 1 \in 1..Len(sizes)
    BY <1>1
  <2> HIDE DEF r
  <2> QED
    BY <2>1, <2>2
<1>4. post' = r
  BY DEF sizes
<1> HIDE DEF r
<1> QED
  BY <1>2, <1>3, <1>4 DEF PostViewsDisjoint

(* build_gpu                                                                 *)
LEMMA EnsureScratchStep == ASSUME LifeInv, EnsureScratch PROVE LifeInv'
<1> DEFINE needed == witgen_captured_bytes(circuit)
<1>1. HeapInv /\ ViewInv /\ FirstInv /\ PostViewsDisjoint /\ pc = "build_scratch"
  BY DEF LifeInv, EnsureScratch
<1>2. needed \in Nat \ {0} /\ SoaSizes(circuit) \in Seq(Nat)
      /\ Ends(SoaSizes(circuit))[Len(SoaSizes(circuit))] <= needed
  BY <1>1, CircuitSizes
<1>3. BlockLen(scratch) = 0
  BY <1>1 DEF ViewInv, BlockLen
<1>4. /\ Gets(scratch, needed) /\ scratch' = Fresh /\ pc' = "build_map"
      /\ soa' = Carve(Fresh, SoaSizes(circuit))
      /\ UNCHANGED <<circuit, proves, fri_scratch, representative_map, post, graph,
                     stream, scatter, wires, plan>>
  <2>1. ~(BlockLen(scratch) >= needed)
    BY <1>2, <1>3
  <2> QED
    BY <2>1 DEF EnsureScratch, Gets
<1>5. HeapInv' /\ Fresh # Null /\ heap'[Fresh] = needed
  BY <1>1, <1>2, <1>4, ScratchGets DEF Pcs
<1>6. ViewInv'
  <2>1. graph = <<>> /\ stream = <<>> /\ scatter = <<>> /\ post = <<>>
    BY <1>1 DEF ViewInv, NoKernels, FirstInv, Building
  <2>2. HeldIn(heap', Carve(Fresh, SoaSizes(circuit)), {Fresh})
    BY <1>2, <1>5, CarveHeld
  <2>3. HeldIn(heap, soa, {scratch})'
    BY <1>4, <2>2
  <2>4. /\ HeldIn(heap, graph, {scratch})' /\ HeldIn(heap, stream, {scratch})'
        /\ HeldIn(heap, scatter, {scratch, representative_map})'
        /\ HeldIn(heap, post, {scratch, fri_scratch})'
    BY <1>4, <2>1, NothingHeld
  <2> QED
    BY <1>4, <2>1, <2>3, <2>4 DEF ViewInv, NoKernels
<1>7. FirstInv'
  <2>1. (LenIn(heap, scratch) = witgen_captured_bytes(circuit))'
    BY <1>4, <1>5 DEF LenIn
  <2> QED
    BY <1>1, <1>4, <2>1 DEF FirstInv, Building, Proving, FirstProveCompletes
<1>8. PostViewsDisjoint'
  BY <1>1, <1>4 DEF PostViewsDisjoint
<1> QED
  BY <1>5, <1>6, <1>7, <1>8 DEF LifeInv

LEMMA EnsureScratchFailsStep == ASSUME LifeInv, EnsureScratchFails PROVE LifeInv'
<1> DEFINE needed == witgen_captured_bytes(circuit)
           other == post_witgen_bytes(circuit)
           map == MapBytes(circuit)
           cap == circuit.capacity
<1>1. HeapInv /\ ViewInv /\ FirstInv /\ pc = "build_scratch" /\ Panic
  BY DEF LifeInv, EnsureScratchFails
<1>2. /\ needed \in Nat \ {0} /\ other \in Nat /\ map \in Nat /\ cap \in Nat
      /\ SoaSizes(circuit) \in Seq(Nat) /\ SoaSizes(circuit) # <<>>
      /\ Ends(SoaSizes(circuit))[Len(SoaSizes(circuit))] <= needed
  BY <1>1, CircuitSizes
<1>3. BlockLen(scratch) = 0 /\ Max({BlockLen(scratch), needed}) = needed
  <2>1. BlockLen(scratch) = 0
    BY <1>1 DEF ViewInv, BlockLen
  <2>2. Max({0, needed}) = needed
    <3> HIDE DEF needed
    <3> QED
      BY <1>2, MaxOfTwo
  <2> QED
    BY <2>1, <2>2
<1>4. Fits(SoaSizes(circuit), needed)
  BY <1>2, SizerFits
<1>5. free_bytes < needed
  BY <1>3, <1>4 DEF EnsureScratchFails
<1>6. free_bytes = cap - 0 - 0 - 0
  BY <1>1 DEF HeapInv, Accounts, ViewInv, FirstInv, Building, LenIn
<1>7. cap < Max({needed + map, other})
  <2> HIDE DEF needed, map, other, cap
  <2>1. needed + map \in Nat /\ cap < needed
    BY <1>2, <1>5, <1>6
  <2>2. Max({needed + map, other}) = IF needed + map >= other THEN needed + map ELSE other
    BY <1>2, <2>1, MaxOfTwo
  <2> QED
    BY <1>2, <2>1, <2>2
<1> QED
  BY <1>1, <1>7, PanicStep

LEMMA AllocMapStep == ASSUME LifeInv, AllocMap PROVE LifeInv'
<1> DEFINE size == MapBytes(circuit)
<1>1. HeapInv /\ ViewInv /\ FirstInv /\ PostViewsDisjoint /\ pc = "build_map"
  BY DEF LifeInv, AllocMap
<1>2. size \in Nat
  BY <1>1, CircuitSizes
<1>3. /\ Gets(representative_map, size) /\ representative_map' = Fresh
      /\ pc' = "build_graph" /\ plan' = TRUE
      /\ UNCHANGED <<circuit, proves, scratch, fri_scratch, soa, post, graph,
                     stream, scatter, wires>>
  BY DEF AllocMap, Gets
<1>4. /\ HeapInv' /\ Fresh # Null /\ heap'[Fresh] = size
      /\ scratch # Null => heap'[scratch] = heap[scratch]
  BY <1>1, <1>2, <1>3, MapGets DEF Pcs
<1>5. ViewInv'
  <2>1. graph = <<>> /\ stream = <<>> /\ scatter = <<>> /\ post = <<>>
    BY <1>1 DEF ViewInv, NoKernels, FirstInv, Building
  <2>2. HeldIn(heap', soa, {scratch})
    BY <1>1, <1>4, HeldStays DEF ViewInv
  <2>3. HeldIn(heap, soa, {scratch})'
    BY <1>3, <2>2
  <2>4. /\ HeldIn(heap, graph, {scratch})' /\ HeldIn(heap, stream, {scratch})'
        /\ HeldIn(heap, scatter, {scratch, representative_map})'
        /\ HeldIn(heap, post, {scratch, fri_scratch})'
    BY <1>3, <2>1, NothingHeld
  <2>5. soa' = Carve(scratch, SoaSizes(circuit))'
    BY <1>1, <1>3 DEF ViewInv
  <2>6. (representative_map # Null /\ heap[representative_map] = MapBytes(circuit))'
    BY <1>3, <1>4
  <2> QED
    BY <1>3, <2>1, <2>3, <2>4, <2>5, <2>6 DEF ViewInv, NoKernels
<1>6. FirstInv'
  BY <1>1, <1>3 DEF FirstInv, Building, Proving, FirstProveCompletes
<1>7. PostViewsDisjoint'
  BY <1>1, <1>3 DEF PostViewsDisjoint
<1> QED
  BY <1>4, <1>5, <1>6, <1>7 DEF LifeInv

LEMMA AllocMapFailsStep == ASSUME LifeInv, AllocMapFails PROVE LifeInv'
<1> DEFINE needed == witgen_captured_bytes(circuit)
           other == post_witgen_bytes(circuit)
           map == MapBytes(circuit)
           cap == circuit.capacity
<1>1. HeapInv /\ FirstInv /\ pc = "build_map" /\ Panic /\ free_bytes < map
  BY DEF LifeInv, AllocMapFails
<1>2. needed \in Nat /\ other \in Nat /\ map \in Nat /\ cap \in Nat
  BY <1>1, CircuitSizes
<1>3. free_bytes = cap - needed - 0 - 0
  BY <1>1 DEF HeapInv, Accounts, FirstInv, Building, LenIn
<1>4. cap < Max({needed + map, other})
  <2> HIDE DEF needed, map, other, cap
  <2>1. needed + map \in Nat /\ cap < needed + map
    BY <1>1, <1>2, <1>3
  <2>2. Max({needed + map, other}) = IF needed + map >= other THEN needed + map ELSE other
    BY <1>2, <2>1, MaxOfTwo
  <2> QED
    BY <1>2, <2>1, <2>2
<1> QED
  BY <1>1, <1>4, PanicStep

LEMMA BuildGraphStep == ASSUME LifeInv, BuildGraph PROVE LifeInv'
<1>1. HeapInv /\ ViewInv /\ FirstInv /\ PostViewsDisjoint /\ pc = "build_graph"
  BY DEF LifeInv, BuildGraph
<1>2. /\ Quiet /\ pc' = "idle" /\ scatter' = MakeScatter
      /\ UNCHANGED <<proves, post, soa, plan>>
      /\ \/ stream' = soa /\ graph' = graph
         \/ graph' = soa /\ stream' = stream
  BY DEF BuildGraph, Quiet, device
<1>3. /\ soa = Carve(scratch, SoaSizes(circuit)) /\ graph = <<>> /\ stream = <<>>
      /\ representative_map # Null /\ heap[representative_map] = MapBytes(circuit)
      /\ HeldIn(heap, soa, {scratch}) /\ HeldIn(heap, post, {scratch, fri_scratch})
  BY <1>1 DEF ViewInv, NoKernels
<1>4. 2 \in DOMAIN soa /\ soa # <<>> /\ scratch # Null
  <2>1. SoaSizes(circuit) \in Seq(Nat) /\ Len(SoaSizes(circuit)) = 3
    BY <1>1, CircuitSizes, SoaSizesType
  <2>2. DOMAIN soa = 1..3
    BY <1>3, <2>1, CarveRegions
  <2>3. 2 \in DOMAIN soa
    BY <2>2
  <2> QED
    BY <1>3, <2>3 DEF HeldIn
<1>5. MapBytes(circuit) \in Nat
  BY <1>1, CircuitSizes
<1>6. HeldIn(heap, MakeScatter, {scratch, representative_map})
  <2>1. /\ soa[2].block = scratch /\ scratch # Null
        /\ soa[2].end <= heap[soa[2].block]
    BY <1>3, <1>4 DEF HeldIn
  <2>2. DOMAIN MakeScatter = {1, 2} /\ MakeScatter[1] = soa[2]
        /\ MakeScatter[2] = [block |-> representative_map, start |-> 0, end |-> MapBytes(circuit)]
    BY DEF MakeScatter
  <2>3. MakeScatter[2].block = representative_map /\ MakeScatter[2].end = MapBytes(circuit)
    BY <2>2
  <2>4. MakeScatter[2].end <= heap[MakeScatter[2].block]
    BY <1>3, <1>5, <2>3
  <2> QED
    BY <1>3, <2>1, <2>2, <2>3, <2>4 DEF HeldIn
<1>7. MakeScatter # <<>>
  BY DEF MakeScatter
<1>8. HeapInv'
  BY <1>1, <1>2, QuietHeap DEF HeapInv, Pcs
<1>9. ViewInv'
  <2>1. HeldIn(heap, scatter, {scratch, representative_map})'
    BY <1>2, <1>6 DEF Quiet
  <2>2. HeldIn(heap, graph, {scratch})' /\ HeldIn(heap, stream, {scratch})'
    BY <1>2, <1>3, NothingHeld DEF Quiet
  <2>3. HeldIn(heap, soa, {scratch})' /\ HeldIn(heap, post, {scratch, fri_scratch})'
    BY <1>2, <1>3 DEF Quiet
  <2> QED
    BY <1>2, <1>4, <2>1, <2>2, <2>3 DEF ViewInv, Quiet
<1>10. FirstInv'
  BY <1>1, <1>2, <1>4, <1>7 DEF FirstInv, Quiet, Building, Proving, FirstProveCompletes
<1>11. PostViewsDisjoint'
  BY <1>1, <1>2 DEF PostViewsDisjoint
<1> QED
  BY <1>8, <1>9, <1>10, <1>11 DEF LifeInv

(* prove                                                                     *)
LEMMA ReleaseUncapturedStep == ASSUME LifeInv, ReleaseUncaptured PROVE LifeInv'
<1>1. HeapInv /\ ViewInv /\ FirstInv /\ PostViewsDisjoint /\ pc = "release"
  BY DEF LifeInv, ReleaseUncaptured
<1>2. /\ GivesBack(representative_map) /\ representative_map' = Null
      /\ pc' = "choose" /\ scatter' = <<>>
      /\ UNCHANGED <<circuit, proves, scratch, fri_scratch, soa, post, graph,
                     stream, wires, plan>>
  BY DEF ReleaseUncaptured, GivesBack
<1>3. /\ HeapInv'
      /\ scratch # Null => heap'[scratch] = heap[scratch]
      /\ fri_scratch # Null => heap'[fri_scratch] = heap[fri_scratch]
  BY <1>1, <1>2, MapGivesBack DEF Pcs
<1>4. ViewInv'
  <2>1. /\ HeldIn(heap', soa, {scratch}) /\ HeldIn(heap', graph, {scratch})
        /\ HeldIn(heap', stream, {scratch})
    BY <1>1, <1>3, HeldStays DEF ViewInv
  <2>2. HeldIn(heap', post, {scratch, fri_scratch})
    BY <1>1, <1>3, HeldStays DEF ViewInv
  <2>3. HeldIn(heap', <<>>, {scratch, Null})
    BY NothingHeld
  <2> QED
    BY <1>1, <1>2, <2>1, <2>2, <2>3 DEF ViewInv
<1>5. FirstInv'
  BY <1>1, <1>2 DEF FirstInv, Building, Proving, FirstProveCompletes
<1>6. PostViewsDisjoint'
  BY <1>1, <1>2 DEF PostViewsDisjoint
<1> QED
  BY <1>3, <1>4, <1>5, <1>6 DEF LifeInv

LEMMA BindExtraStep == ASSUME LifeInv, BindExtra PROVE LifeInv'
<1> DEFINE size == post_witgen_bytes(circuit)
<1>1. HeapInv /\ ViewInv /\ FirstInv /\ PostViewsDisjoint /\ pc = "bind_extra"
  BY DEF LifeInv, BindExtra
<1>2. /\ size \in Nat /\ PostSizes(circuit) \in Seq(Nat) /\ PostSizes(circuit) # <<>>
      /\ Ends(PostSizes(circuit))[Len(PostSizes(circuit))] <= size
  BY <1>1, CircuitSizes
<1>3. free_bytes >= size /\ Fits(PostSizes(circuit), size)
  BY <1>1, <1>2, SizerFits DEF FirstInv
<1>4. /\ Gets(fri_scratch, size) /\ fri_scratch' = Fresh
      /\ post' = Carve(Fresh, PostSizes(circuit)) /\ soa' = <<>> /\ pc' = "commit"
      /\ UNCHANGED <<circuit, proves, scratch, representative_map, graph, stream,
                     scatter, wires, plan>>
  BY <1>3 DEF BindExtra, Gets
<1>5. /\ HeapInv' /\ Fresh # Null /\ heap'[Fresh] = size
      /\ scratch # Null => heap'[scratch] = heap[scratch]
      /\ representative_map # Null => heap'[representative_map] = heap[representative_map]
  BY <1>1, <1>2, <1>4, FriGets DEF Pcs
<1>6. PostViewsDisjoint' /\ post' # <<>>
  BY <1>4, PostCarved
<1>7. ViewInv'
  <2>1. /\ HeldIn(heap', graph, {scratch}) /\ HeldIn(heap', stream, {scratch})
        /\ HeldIn(heap', scatter, {scratch, representative_map})
    BY <1>1, <1>5, HeldStays DEF ViewInv
  <2>2. HeldIn(heap', Carve(Fresh, PostSizes(circuit)), {scratch, Fresh})
    BY <1>2, <1>5, CarveHeld
  <2>3. HeldIn(heap', <<>>, {scratch})
    BY NothingHeld
  <2> QED
    BY <1>1, <1>4, <2>1, <2>2, <2>3 DEF ViewInv
<1>8. FirstInv'
  BY <1>1, <1>4, <1>6 DEF FirstInv, Building, Proving, FirstProveCompletes
<1> QED
  BY <1>5, <1>6, <1>7, <1>8 DEF LifeInv

LEMMA BindOverlayStep == ASSUME LifeInv, BindOverlay PROVE LifeInv'
<1> DEFINE size == post_witgen_bytes(circuit)
           last == Ends(PostSizes(circuit))[Len(PostSizes(circuit))]
<1>1. HeapInv /\ ViewInv /\ FirstInv /\ PostViewsDisjoint /\ pc = "bind_overlay"
  BY DEF LifeInv, BindOverlay
<1>2. /\ size \in Nat /\ PostSizes(circuit) \in Seq(Nat) /\ PostSizes(circuit) # <<>>
      /\ last <= size /\ last \in Nat
  BY <1>1, CircuitSizes, SizerFits
<1>3. /\ BlockLen(scratch) >= size /\ BlockLen(scratch) = LenIn(heap, scratch)
      /\ BlockLen(scratch) \in Nat
  BY <1>1, BlockLens DEF FirstInv
<1>4. last <= BlockLen(scratch)
  <2> HIDE DEF last, size
  <2> QED
    BY <1>2, <1>3
<1>5. Fits(PostSizes(circuit), BlockLen(scratch))
  BY <1>2, <1>4, SizerFits
<1>6. /\ Quiet /\ post' = Carve(scratch, PostSizes(circuit)) /\ soa' = <<>>
      /\ pc' = "commit"
      /\ UNCHANGED <<proves, graph, stream, scatter, wires, plan>>
  BY <1>3, <1>5 DEF BindOverlay, Quiet, device
<1>7. HeapInv'
  BY <1>1, <1>6, QuietHeap DEF HeapInv, Pcs
<1>8. PostViewsDisjoint' /\ post' # <<>>
  BY <1>6, PostCarved
<1>9. ViewInv'
  <2>1. scratch # Null /\ heap[scratch] = BlockLen(scratch)
    BY <1>1 DEF FirstInv, BlockLen
  <2>2. HeldIn(heap, Carve(scratch, PostSizes(circuit)), {scratch, fri_scratch})
    BY <1>2, <1>3, <1>4, <2>1, CarveHeld
  <2>3. HeldIn(heap, <<>>, {scratch})
    BY NothingHeld
  <2> QED
    BY <1>1, <1>6, <2>2, <2>3 DEF ViewInv, Quiet
<1>10. FirstInv'
  BY <1>1, <1>6, <1>8 DEF FirstInv, Quiet, Building, Proving, FirstProveCompletes
<1> QED
  BY <1>7, <1>8, <1>9, <1>10 DEF LifeInv

LEMMA FreeSoaStep == ASSUME LifeInv, FreeSoa PROVE LifeInv'
<1>1. HeapInv /\ ViewInv /\ FirstInv /\ PostViewsDisjoint /\ pc = "recycle"
  BY DEF LifeInv, FreeSoa
<1>2. /\ GivesBack(scratch) /\ scratch' = Null /\ pc' = "alloc_post" /\ soa' = <<>>
      /\ UNCHANGED <<circuit, proves, fri_scratch, representative_map, post, graph,
                     stream, scatter, wires>>
  BY DEF FreeSoa, GivesBack
<1>3. HeapInv'
  BY <1>1, <1>2, ScratchGivesBack DEF Pcs
<1>4. ViewInv'
  <2>1. graph = <<>> /\ stream = <<>> /\ scatter = <<>>
    BY <1>1 DEF ViewInv, NoKernels
  <2>2. /\ HeldIn(heap, graph, {scratch})' /\ HeldIn(heap, stream, {scratch})'
        /\ HeldIn(heap, scatter, {scratch, representative_map})'
        /\ HeldIn(heap, soa, {scratch})'
    BY <1>2, <2>1, NothingHeld
  <2> QED
    BY <1>2, <2>1, <2>2 DEF ViewInv, NoKernels
<1>5. FirstInv'
  BY <1>1, <1>2 DEF FirstInv, Building, Proving, FirstProveCompletes
<1>6. PostViewsDisjoint'
  BY <1>1, <1>2 DEF PostViewsDisjoint
<1> QED
  BY <1>3, <1>4, <1>5, <1>6 DEF LifeInv

LEMMA AllocPostStep == ASSUME LifeInv, AllocPost PROVE LifeInv'
<1> DEFINE size == post_witgen_bytes(circuit)
           needed == witgen_captured_bytes(circuit)
           map == MapBytes(circuit)
           cap == circuit.capacity
<1>1. HeapInv /\ ViewInv /\ FirstInv /\ PostViewsDisjoint /\ pc = "alloc_post"
  BY DEF LifeInv, AllocPost
<1>2. /\ size \in Nat /\ PostSizes(circuit) \in Seq(Nat) /\ PostSizes(circuit) # <<>>
      /\ Ends(PostSizes(circuit))[Len(PostSizes(circuit))] <= size
      /\ needed \in Nat /\ map \in Nat /\ cap \in Nat
  BY <1>1, CircuitSizes
<1>3. Fits(PostSizes(circuit), size)
  BY <1>2, SizerFits
<1>4. scratch = Null /\ graph = <<>> /\ stream = <<>> /\ scatter = <<>> /\ soa = <<>>
  BY <1>1 DEF ViewInv, NoKernels
<1>5. CASE free_bytes >= size
  <2>1. Without({scratch}) = heap /\ BlockLen(scratch) = 0
    <3>1. DOMAIN heap \ {scratch} = DOMAIN heap /\ heap = [b \in DOMAIN heap |-> heap[b]]
      BY <1>1, <1>4 DEF HeapInv, Owners
    <3> QED
      BY <1>4, <3>1 DEF Without, BlockLen
  <2>2. free_bytes - size = free_bytes - size + 0
    <3>1. free_bytes \in Int
      BY <1>1, BlockLens, CircuitSizes DEF HeapInv, Accounts
    <3> QED
      BY <1>2, <3>1
  <2>3. /\ heap' = With(heap, Fresh, size) /\ free_bytes' = free_bytes - size
        /\ blocks' = Fresh /\ scratch' = Fresh
        /\ post' = Carve(Fresh, PostSizes(circuit)) /\ pc' = "commit"
        /\ UNCHANGED <<circuit, proves, fri_scratch, representative_map, soa, graph,
                       stream, scatter, wires, plan>>
    BY <1>3, <1>5 DEF AllocPost, buildVars
  <2>4. Gets(scratch, size)
    BY <2>1, <2>2, <2>3 DEF Gets
  <2>5. HeapInv' /\ Fresh # Null /\ heap'[Fresh] = size
    BY <1>1, <1>2, <2>3, <2>4, ScratchGets DEF Pcs
  <2>6. PostViewsDisjoint' /\ post' # <<>>
    BY <2>3, PostCarved
  <2>7. ViewInv'
    <3>1. HeldIn(heap', Carve(Fresh, PostSizes(circuit)), {Fresh, fri_scratch})
      BY <1>2, <2>5, CarveHeld
    <3>2. /\ HeldIn(heap, graph, {scratch})' /\ HeldIn(heap, stream, {scratch})'
          /\ HeldIn(heap, scatter, {scratch, representative_map})'
          /\ HeldIn(heap, soa, {scratch})'
      BY <1>4, <2>3, NothingHeld
    <3> QED
      BY <1>4, <2>3, <3>1, <3>2 DEF ViewInv
  <2>8. FirstInv'
    BY <1>1, <2>3, <2>6 DEF FirstInv, Building, Proving, FirstProveCompletes
  <2> QED
    BY <2>5, <2>6, <2>7, <2>8 DEF LifeInv
<1>6. CASE ~(free_bytes >= size)
  <2>1. Panic
    BY <1>6 DEF AllocPost
  <2>2. ASSUME proves <= 1 PROVE cap < Max({needed + map, size})
    <3>1. fri_scratch = Null /\ representative_map = Null
      BY <1>1, <2>2 DEF FirstInv, Proving, HeapInv
    <3>2. free_bytes = cap - 0 - 0 - 0
      BY <1>1, <1>4, <3>1 DEF HeapInv, Accounts, LenIn
    <3> HIDE DEF cap, needed, map, size
    <3>3. needed + map \in Nat /\ cap < size
      BY <1>2, <1>6, <3>2
    <3>4. Max({needed + map, size}) = IF needed + map >= size THEN needed + map ELSE size
      BY <1>2, <3>3, MaxOfTwo
    <3> QED
      BY <1>2, <3>3, <3>4
  <2> QED
    BY <2>1, <2>2, PanicStep
<1> QED
  BY <1>5, <1>6

LEMMA DropFieldsStep == ASSUME LifeInv, DropFields PROVE LifeInv'
<1>1. HeapInv /\ ViewInv /\ FirstInv /\ PostViewsDisjoint /\ pc = "drop_fields"
  BY DEF LifeInv, DropFields
<1>2. HeapInv'
  BY <1>1, AllGiveBack
<1>3. /\ pc' = "dropped" /\ scratch' = Null /\ fri_scratch' = Null
      /\ representative_map' = Null /\ soa' = <<>> /\ post' = <<>>
      /\ UNCHANGED <<circuit, proves, graph, stream, scatter, wires>>
  BY DEF DropFields
<1>4. graph' = <<>> /\ stream' = <<>> /\ scatter' = <<>>
  BY <1>1, <1>3 DEF ViewInv, NoKernels
<1>5. ViewInv'
  <2>1. /\ HeldIn(heap, graph, {scratch})' /\ HeldIn(heap, stream, {scratch})'
        /\ HeldIn(heap, scatter, {scratch, representative_map})'
        /\ HeldIn(heap, soa, {scratch})' /\ HeldIn(heap, post, {scratch, fri_scratch})'
    BY <1>3, <1>4, NothingHeld
  <2> QED
    BY <1>3, <1>4, <2>1 DEF ViewInv, NoKernels
<1>6. FirstInv'
  BY <1>1, <1>3 DEF FirstInv, Building, Proving, FirstProveCompletes
<1>7. PostViewsDisjoint'
  BY <1>3 DEF PostViewsDisjoint
<1> QED
  BY <1>2, <1>5, <1>6, <1>7 DEF LifeInv

LEMMA LifeStep == LifeInv /\ [Next]_vars => LifeInv'
<1> SUFFICES ASSUME LifeInv, [Next]_vars PROVE LifeInv'
  OBVIOUS
<1>1. CASE Build
  BY <1>1, EnsureScratchStep, EnsureScratchFailsStep, AllocMapStep,
     AllocMapFailsStep, BuildGraphStep DEF Build
<1>2. CASE Prove
  BY <1>2, BeginProveStep, UploadInputsStep, ReplayStep, HashPiStep,
     ReleaseUncapturedStep, ChoosePathStep, BindExtraStep, BindOverlayStep,
     FreeSoaStep, AllocPostStep, CommitAndProveStep, LaunchCapCopiesStep,
     AssembleCapsStep DEF Prove
<1>3. CASE Drop
  BY <1>3, DropGraphStep, DropFieldsStep, StutterStep DEF Drop, Dropped
<1>4. CASE (\E stage \in Stages : CopyCap(stage)) \/ UNCHANGED vars
  BY <1>4, StutterStep
<1> QED
  BY <1>1, <1>2, <1>3, <1>4 DEF Next

----------------------------------------------------------------------------
(* The theorems *)

(* The invariant holds in every reachable state.                             *)
THEOREM LifecycleInvariant == Spec => []LifeInv
  BY LifeInit, LifeStep, PTL DEF Spec

(* Device memory has one owner: whatever paths the proves take and wherever  *)
(* one of them panics, every live block belongs to exactly one field of      *)
(* GpuWorkspace and WitnessBuffers, and the others are freed (OwnedOnce).    *)
THEOREM NothingLeaks == Spec => []OwnedOnce
<1>1. LifeInv => OwnedOnce
  <2> SUFFICES ASSUME LifeInv PROVE OwnedOnce
    OBVIOUS
  <2>1. Owners(heap, blocks, scratch, fri_scratch, representative_map)
    BY DEF LifeInv, HeapInv
  <2>2. DOMAIN heap = {b \in {scratch, fri_scratch, representative_map} : b # Null}
    BY <2>1 DEF Owners
  <2> QED
    BY <2>1, <2>2 DEF Owners, OwnedOnce
<1> QED
  BY <1>1, LifecycleInvariant, PTL

LEMMA HeldBacked ==
    ASSUME LifeInv, NEW r, NEW o \in SUBSET {scratch, fri_scratch, representative_map},
           HeldIn(heap, r, o)
    PROVE  Backed(r)
<1>1. DOMAIN heap = {scratch, fri_scratch, representative_map} \ {Null}
  BY DEF LifeInv, HeapInv, Owners
<1> QED
  BY <1>1 DEF HeldIn, Backed

(* The raw pointers of the captured graph, of the streamed kernels and of    *)
(* the scatter kernel never outlive their memory (CapturedMemoryLive).       *)
THEOREM CapturedPointersValid == Spec => []CapturedMemoryLive
<1>1. LifeInv => CapturedMemoryLive
  <2> SUFFICES ASSUME LifeInv PROVE CapturedMemoryLive
    OBVIOUS
  <2>1. /\ HeldIn(heap, graph, {scratch}) /\ HeldIn(heap, stream, {scratch})
        /\ HeldIn(heap, scatter, {scratch, representative_map})
    BY DEF LifeInv, ViewInv
  <2> QED
    BY <2>1, HeldBacked DEF CapturedMemoryLive
<1> QED
  BY <1>1, LifecycleInvariant, PTL

(* Every bound DeviceView lies in a live block, outside the exchange of the  *)
(* block in bind_post_witgen_views and a panic in it (ViewsBacked).          *)
THEOREM ViewsValid == Spec => []ViewsBacked
<1>1. LifeInv => ViewsBacked
  <2> SUFFICES ASSUME LifeInv PROVE ViewsBacked
    OBVIOUS
  <2>1. /\ HeldIn(heap, soa, {scratch})
        /\ pc \notin {"alloc_post", "panicked", "drop_fields"} =>
             HeldIn(heap, post, {scratch, fri_scratch})
    BY DEF LifeInv, ViewInv
  <2> QED
    BY <2>1, HeldBacked DEF ViewsBacked
<1> QED
  BY <1>1, LifecycleInvariant, PTL

(* ScratchSizer and ScratchCursor agree for every list of sizes: the delayed *)
(* trees and the FRI views of one block are aligned and share no byte        *)
(* (PostViewsDisjoint).                                                      *)
THEOREM ViewsNeverOverlap == Spec => []PostViewsDisjoint
<1>1. LifeInv => PostViewsDisjoint
  BY DEF LifeInv
<1> QED
  BY <1>1, LifecycleInvariant, PTL

(* A device that can hold the larger of witness generation and the delayed   *)
(* commitments with FRI completes the first prove on every path              *)
(* (FirstProveCompletes).                                                    *)
THEOREM PeakIsMaximum == Spec => []FirstProveCompletes
<1>1. LifeInv => FirstProveCompletes
  BY DEF LifeInv, FirstInv
<1> QED
  BY <1>1, LifecycleInvariant, PTL

(* The first prove commits to the witness of its own replay, not to what the *)
(* warm-up of build_graph left (FirstProveCommitsWitness).                   *)
THEOREM WitnessCommitted == Spec => []FirstProveCommitsWitness
<1>1. LifeInv => FirstProveCommitsWitness
  BY DEF LifeInv, FirstInv, FirstProveCommitsWitness
<1> QED
  BY <1>1, LifecycleInvariant, PTL
=============================================================================
