------------------------- MODULE ResolverPlayback_proofs -------------------------
(***************************************************************************)
(* The circuit resolver's recording and playback, for every client, every   *)
(* number of places, every parallelism, every guide and every buffer size:  *)
(* the order that is recorded, the record of it, and the playback from it.  *)
(***************************************************************************)
EXTENDS ResolverPlayback, DataInduction, FiniteSetTheorems

(***************************************************************************)
(* What the guide's operators do to the spans, for every number and length  *)
(* of them.  The spans that have ever been in the guide are taken together, *)
(* by their ids, in one function H: those below `base' have been released,  *)
(* the others are in the guide.                                             *)
(***************************************************************************)

OrderItem == [value : Nat, parallelism : Nat]

Location == [id : Nat, pos : Nat]

Spans == [SpanIxs -> [id : Nat, buffer : Seq(OrderItem)]]

Guides == [parallelism : Nat \ {0}, spans : Spans, next_target : Nat]

(* Item x of a span of N items, behind which the next span has M, may run   *)
(* with par items: they do not reach past the next span, nor to an item of  *)
(* it that may depend on item x or on one before.                           *)
WindowFits(par, x, N, M) ==
    /\ par \in Nat /\ par > 0
    /\ x + par <= N + M
    /\ \A y \in 0..(M - 1) : x <= y => x + par <= N + y

Windows(H, base) ==
    \A d \in 0..(base - 1) : \A x \in 0..(Len(H[d]) - 1) :
        WindowFits(H[d][x + 1].parallelism, x, Len(H[d]), Len(H[d + 1]))

(* The first n spans, one after another.                                    *)
FirstSpans(H, n) == [k \in 1..n |-> H[k - 1]]

InGuide(H, base, g) ==
    /\ \A i \in SpanIxs : g.spans[i].id = base + i /\ g.spans[i].buffer = H[base + i]
    /\ \A d \in base..(base + LastSpan) : \A q \in 1..Len(H[d]) :
            H[d][q].parallelism = g.parallelism

Shape(H, base, g, order) ==
    /\ base \in Nat /\ g \in Guides
    /\ H \in [0..(base + LastSpan) -> Seq(OrderItem)]
    /\ InGuide(H, base, g)
    /\ Windows(H, base)
    /\ order = FlattenSeq(FirstSpans(H, base))
    /\ g.next_target = Len(order)

(* W gives the location of each resolver in the spans.                      *)
Placed(H, W) ==
    /\ \A r \in DOMAIN W :
        /\ W[r] \in Location /\ W[r].id \in DOMAIN H /\ W[r].pos < Len(H[W[r].id])
        /\ H[W[r].id][W[r].pos + 1].value = r
    /\ \A d \in DOMAIN H : \A q \in 1..Len(H[d]) :
        /\ H[d][q].value \in DOMAIN W
        /\ W[H[d][q].value] = [id |-> d, pos |-> q - 1]

LEMMA LastSpanType == LastSpan \in Nat /\ LastSpan >= 2 /\ GUIDE_SIZE = LastSpan + 1
BY GuideSizeAssumption DEF LastSpan

---------------------------------------------------------------------------
(* calculate_parallelism gives windows that fit.                            *)
Allowed(P, N, M, x) ==
    CASE N >= P /\ M >= P -> P
      [] N >= P /\ M <  P -> IF x < M THEN P ELSE IF P - x + M > 1 THEN P - x + M ELSE 1
      [] N <  P /\ M >= P -> N
      [] N <  P /\ M <  P -> IF M + N - x < N THEN M + N - x ELSE N

LEMMA AllowedFits ==
    ASSUME NEW P \in Nat \ {0}, NEW N \in Nat, NEW M \in Nat, NEW x \in Nat, x < N
    PROVE  WindowFits(Allowed(P, N, M, x), x, N, M)
<1>1. CASE N >= P /\ M >= P
  <2>1. Allowed(P, N, M, x) = P
    BY <1>1 DEF Allowed
  <2> QED
    BY <1>1, <2>1 DEF WindowFits
<1>2. CASE N >= P /\ M < P
  <2>1. Allowed(P, N, M, x) = IF x < M THEN P ELSE IF P - x + M > 1 THEN P - x + M ELSE 1
    BY <1>2 DEF Allowed
  <2>2. CASE x < M
    BY <1>2, <2>1, <2>2 DEF WindowFits
  <2>3. CASE ~(x < M) /\ P - x + M > 1
    BY <1>2, <2>1, <2>3 DEF WindowFits
  <2>4. CASE ~(x < M) /\ ~(P - x + M > 1)
    BY <1>2, <2>1, <2>4 DEF WindowFits
  <2> QED
    BY <2>2, <2>3, <2>4
<1>3. CASE N < P /\ M >= P
  <2>1. Allowed(P, N, M, x) = N
    BY <1>3 DEF Allowed
  <2> QED
    BY <1>3, <2>1 DEF WindowFits
<1>4. CASE N < P /\ M < P
  <2>1. Allowed(P, N, M, x) = IF M + N - x < N THEN M + N - x ELSE N
    BY <1>4 DEF Allowed
  <2>2. CASE M + N - x < N
    BY <1>4, <2>1, <2>2 DEF WindowFits
  <2>3. CASE ~(M + N - x < N)
    BY <1>4, <2>1, <2>3 DEF WindowFits
  <2> QED
    BY <2>2, <2>3
<1> QED
  BY <1>1, <1>2, <1>3, <1>4

LEMMA ParallelismFits ==
    ASSUME NEW H, NEW base, NEW g, NEW order, Shape(H, base, g, order),
           NEW i \in SpanIxs, NEW x \in 0..(Len(H[base + i]) - 1)
    PROVE  WindowFits(ItemParallelism(g, i, x), x, Len(H[base + i]),
                      IF i = LastSpan THEN 0 ELSE Len(H[base + i + 1]))
<1>1. /\ base \in Nat /\ LastSpan \in Nat /\ g.parallelism \in Nat \ {0}
      /\ i \in Nat /\ i <= LastSpan
  BY LastSpanType DEF Shape, Guides, SpanIxs
<1>2. g.spans[i].buffer = H[base + i] /\ H[base + i] \in Seq(OrderItem)
      /\ Len(H[base + i]) \in Nat
  <2>1. base + i \in 0..(base + LastSpan)
    BY <1>1
  <2> QED
    BY <2>1 DEF Shape, InGuide
<1>3. PICK P \in Nat \ {0}, N \in Nat : P = g.parallelism /\ N = Len(H[base + i])
  BY <1>1, <1>2
<1>4. x \in Nat /\ x < N
  BY <1>3
<1>5. CASE i = LastSpan
  <2>1. ItemParallelism(g, i, x) = N - x
    BY <1>2, <1>3, <1>5 DEF ItemParallelism
  <2>2. WindowFits(N - x, x, N, 0)
    BY <1>4 DEF WindowFits
  <2> QED
    BY <1>3, <1>5, <2>1, <2>2
<1>6. CASE i # LastSpan
  <2>1. i + 1 \in SpanIxs /\ base + (i + 1) \in 0..(base + LastSpan)
        /\ base + (i + 1) = base + i + 1
    BY <1>1, <1>6 DEF SpanIxs
  <2>2. g.spans[i + 1].buffer = H[base + i + 1] /\ H[base + i + 1] \in Seq(OrderItem)
    BY <2>1 DEF Shape, InGuide
  <2>3. PICK M \in Nat : M = Len(H[base + i + 1])
    BY <2>2
  <2>4. H[base + i][x + 1].parallelism = P
    <3>1. base + i \in base..(base + LastSpan) /\ x + 1 \in 1..Len(H[base + i])
      BY <1>1, <1>3, <1>4
    <3> QED
      BY <1>3, <3>1 DEF Shape, InGuide
  <2>5. ItemParallelism(g, i, x) = Allowed(P, N, M, x)
    BY <1>2, <1>3, <1>6, <2>2, <2>3, <2>4, Zenon DEF ItemParallelism, Allowed
  <2>6. WindowFits(Allowed(P, N, M, x), x, N, M)
    BY <1>4, AllowedFits
  <2> QED
    BY <1>3, <1>6, <2>3, <2>5, <2>6
<1> QED
  BY <1>5, <1>6

---------------------------------------------------------------------------
(* An item put at the end of a span other than the first keeps the shape,   *)
(* and is the only new one.                                                 *)
Extended(W, r, loc) == [q \in (DOMAIN W) \union {r} |-> IF q = r THEN loc ELSE W[q]]

LEMMA PlacedAppend ==
    ASSUME NEW n \in Nat, NEW H \in [0..n -> Seq(OrderItem)], NEW W, Placed(H, W),
           NEW d \in 0..n, NEW item \in OrderItem, item.value \notin DOMAIN W
    PROVE  Placed([H EXCEPT ![d] = Append(@, item)],
                  Extended(W, item.value, [id |-> d, pos |-> Len(H[d])]))
<1>1. PICK r \in Nat : r = item.value
  BY DEF OrderItem
<1>2. PICK k \in Nat : k = Len(H[d])
  BY LenProperties
<1>3. PICK b \in Seq(OrderItem) : b = Append(H[d], item)
  BY AppendProperties
<1>4. Len(b) = k + 1 /\ b[k + 1] = item /\ \A q \in 1..k : b[q] = H[d][q]
  <2>1. H[d] \in Seq(OrderItem)
    OBVIOUS
  <2> QED
    BY <1>2, <1>3, <2>1, AppendProperties
<1>5. PICK H2 \in [0..n -> Seq(OrderItem)] :
        H2 = [H EXCEPT ![d] = b]
  OBVIOUS
<1>6. H2[d] = b /\ \A e \in 0..n : e # d => H2[e] = H[e]
  BY <1>5
<1>7. PICK V : V = Extended(W, r, [id |-> d, pos |-> k])
  OBVIOUS
<1>8. /\ DOMAIN V = (DOMAIN W) \union {r} /\ V[r] = [id |-> d, pos |-> k]
      /\ \A q \in DOMAIN W : V[q] = W[q]
  BY <1>1, <1>7 DEF Extended
<1>9. ASSUME NEW q \in DOMAIN V
      PROVE  /\ V[q] \in Location /\ V[q].id \in 0..n /\ V[q].pos < Len(H2[V[q].id])
             /\ H2[V[q].id][V[q].pos + 1].value = q
  <2>1. CASE q = r
    <3>1. V[q] = [id |-> d, pos |-> k] /\ V[q] \in Location /\ V[q].id = d /\ V[q].pos = k
      BY <1>8, <2>1 DEF Location
    <3> QED
      BY <1>1, <1>4, <1>6, <2>1, <3>1
  <2>2. CASE q # r
    <3>1. q \in DOMAIN W /\ V[q] = W[q]
      BY <1>8, <2>2
    <3>2. PICK e \in 0..n, p \in Nat : e = W[q].id /\ p = W[q].pos
      BY <3>1 DEF Placed, Location
    <3>3. W[q] \in Location /\ p < Len(H[e]) /\ H[e][p + 1].value = q
      BY <3>1, <3>2 DEF Placed
    <3>4. CASE e = d
      <4>1. p < Len(H2[d]) /\ p + 1 \in 1..k
        BY <1>2, <1>4, <1>6, <3>3, <3>4
      <4>2. H2[d][p + 1] = H[d][p + 1]
        BY <1>4, <1>6, <4>1
      <4> QED
        BY <3>1, <3>2, <3>3, <3>4, <4>1, <4>2
    <3>5. CASE e # d
      BY <1>6, <3>1, <3>2, <3>3, <3>5
    <3> QED
      BY <3>4, <3>5
  <2> QED
    BY <2>1, <2>2
<1>10. ASSUME NEW e \in 0..n, NEW q \in 1..Len(H2[e])
       PROVE  /\ H2[e][q].value \in DOMAIN V
              /\ V[H2[e][q].value] = [id |-> e, pos |-> q - 1]
  <2>1. CASE e = d /\ q = k + 1
    <3>1. H2[e][q].value = r /\ q - 1 = k
      BY <1>1, <1>2, <1>4, <1>6, <2>1
    <3> QED
      BY <1>8, <2>1, <3>1
  <2>2. CASE ~(e = d /\ q = k + 1)
    <3>1. q \in 1..Len(H[e]) /\ H2[e][q] = H[e][q]
      <4>1. CASE e = d
        <5>1. q \in 1..(k + 1) /\ q # k + 1
          BY <1>4, <1>6, <2>2, <4>1
        <5>2. q \in 1..k
          BY <5>1
        <5> QED
          BY <1>2, <1>4, <1>6, <4>1, <5>2
      <4>2. CASE e # d
        BY <1>6, <4>2
      <4> QED
        BY <4>1, <4>2
    <3>2. H[e][q].value \in DOMAIN W /\ W[H[e][q].value] = [id |-> e, pos |-> q - 1]
      BY <3>1 DEF Placed
    <3> QED
      BY <1>8, <3>1, <3>2
  <2> QED
    BY <2>1, <2>2
<1>11. Placed(H2, V)
  BY <1>9, <1>10 DEF Placed
<1> QED
  BY <1>1, <1>2, <1>3, <1>5, <1>7, <1>11

LEMMA AppendShape ==
    ASSUME NEW H, NEW base, NEW g, NEW order, Shape(H, base, g, order),
           NEW m \in 1..LastSpan, NEW item \in OrderItem,
           item.parallelism = g.parallelism
    PROVE  Shape([H EXCEPT ![base + m] = Append(@, item)], base,
                 [g EXCEPT !.spans = PushInto(g.spans, m, item)], order)
<1>1. /\ base \in Nat /\ LastSpan \in Nat /\ g \in Guides /\ m \in SpanIxs
      /\ base + m \in 0..(base + LastSpan)
      /\ H \in [0..(base + LastSpan) -> Seq(OrderItem)]
  BY LastSpanType DEF Shape, SpanIxs
<1>2. PICK b \in Seq(OrderItem) : b = Append(H[base + m], item)
  BY <1>1, AppendProperties
<1>3. PICK k \in Nat : k = Len(H[base + m])
  BY <1>1, LenProperties
<1>4. Len(b) = k + 1 /\ b[k + 1] = item /\ \A q \in 1..k : b[q] = H[base + m][q]
  <2>1. H[base + m] \in Seq(OrderItem)
    BY <1>1
  <2> QED
    BY <1>2, <1>3, <2>1, AppendProperties
<1>5. PICK H2 \in [0..(base + LastSpan) -> Seq(OrderItem)] :
        H2 = [H EXCEPT ![base + m] = b]
  BY <1>1
<1>6. H2[base + m] = b /\ \A e \in 0..(base + LastSpan) : e # base + m => H2[e] = H[e]
  BY <1>1, <1>5
<1>7. PICK s \in Spans : s = [g.spans EXCEPT ![m].buffer = b]
  <2>1. g.spans \in Spans
    BY <1>1 DEF Guides
  <2> QED
    BY <1>1, <2>1 DEF Spans
<1>8. /\ s[m].id = g.spans[m].id /\ s[m].buffer = b
      /\ \A i \in SpanIxs : i # m => s[i] = g.spans[i]
  <2>1. g.spans \in Spans
    BY <1>1 DEF Guides
  <2> QED
    BY <1>1, <1>7, <2>1 DEF Spans
<1>9. s = PushInto(g.spans, m, item)
  <2>1. g.spans[m].buffer = H[base + m]
    BY <1>1 DEF Shape, InGuide
  <2> QED
    BY <1>2, <1>7, <2>1 DEF PushInto
<1>10. PICK g2 \in Guides : g2 = [g EXCEPT !.spans = s]
  BY <1>1 DEF Guides
<1>11. g2.spans = s /\ g2.parallelism = g.parallelism /\ g2.next_target = g.next_target
  BY <1>1, <1>10 DEF Guides
<1>12. InGuide(H2, base, g2)
  <2>1. ASSUME NEW i \in SpanIxs
        PROVE  g2.spans[i].id = base + i /\ g2.spans[i].buffer = H2[base + i]
    <3>1. base + i \in 0..(base + LastSpan) /\ (i # m => base + i # base + m)
      BY <1>1 DEF SpanIxs
    <3>2. g.spans[i].id = base + i /\ g.spans[i].buffer = H[base + i]
      BY DEF Shape, InGuide
    <3>3. CASE i = m
      BY <1>6, <1>8, <1>11, <3>2, <3>3
    <3>4. CASE i # m
      BY <1>6, <1>8, <1>11, <3>1, <3>2, <3>4
    <3> QED
      BY <3>3, <3>4
  <2>2. ASSUME NEW d \in base..(base + LastSpan), NEW q \in 1..Len(H2[d])
        PROVE  H2[d][q].parallelism = g2.parallelism
    <3>1. d \in 0..(base + LastSpan)
      BY <1>1
    <3>2. \A p \in 1..Len(H[d]) : H[d][p].parallelism = g.parallelism
      BY DEF Shape, InGuide
    <3>3. CASE d = base + m
      <4>1. q \in 1..(k + 1)
        BY <1>4, <1>6, <3>3
      <4>2. CASE q = k + 1
        BY <1>4, <1>6, <1>11, <3>3, <4>2
      <4>3. CASE q # k + 1
        <5>1. q \in 1..k
          BY <4>1, <4>3
        <5> QED
          BY <1>3, <1>4, <1>6, <1>11, <3>2, <3>3, <5>1
      <4> QED
        BY <4>2, <4>3
    <3>4. CASE d # base + m
      BY <1>6, <1>11, <3>1, <3>2, <3>4
    <3> QED
      BY <3>3, <3>4
  <2> QED
    BY <2>1, <2>2 DEF InGuide
<1>13. \A e \in 0..base : H2[e] = H[e]
  <2>1. \A e \in 0..base : e \in 0..(base + LastSpan) /\ e # base + m
    BY <1>1
  <2> QED
    BY <1>6, <2>1
<1>14. Windows(H2, base)
  <2> SUFFICES ASSUME NEW d \in 0..(base - 1), NEW x \in 0..(Len(H2[d]) - 1)
               PROVE  WindowFits(H2[d][x + 1].parallelism, x, Len(H2[d]), Len(H2[d + 1]))
    BY DEF Windows
  <2>1. d \in 0..base /\ d + 1 \in 0..base
    BY <1>1
  <2>2. H2[d] = H[d] /\ H2[d + 1] = H[d + 1]
    BY <1>13, <2>1
  <2>3. \A y \in 0..(Len(H[d]) - 1) :
            WindowFits(H[d][y + 1].parallelism, y, Len(H[d]), Len(H[d + 1]))
    BY DEF Shape, Windows
  <2> QED
    BY <2>2, <2>3
<1>15. FirstSpans(H2, base) = FirstSpans(H, base)
  <2>1. \A k1 \in 1..base : k1 - 1 \in 0..base
    BY <1>1
  <2>2. \A k1 \in 1..base : H2[k1 - 1] = H[k1 - 1]
    BY <1>13, <2>1
  <2> QED
    BY <2>2 DEF FirstSpans
<1>16. Shape(H2, base, g2, order)
  BY <1>1, <1>5, <1>10, <1>11, <1>12, <1>14, <1>15 DEF Shape
<1> QED
  BY <1>2, <1>5, <1>9, <1>10, <1>16

---------------------------------------------------------------------------
(* Releasing the first n spans of the guide keeps the shape: only the       *)
(* parallelism of their items changes, n empty spans follow the last one,   *)
(* and what is written goes behind the order.                               *)
Recalculated(H, base, g, d) ==
    [q \in 1..Len(H[d]) |->
        [H[d][q] EXCEPT !.parallelism = ItemParallelism(g, d - base, q - 1)]]

AfterRelease(H, base, g, n) ==
    [d \in 0..(base + n + LastSpan) |->
        IF d >= base /\ d < base + n THEN Recalculated(H, base, g, d)
        ELSE IF d <= base + LastSpan THEN H[d] ELSE <<>>]

LEMMA RecalculatedType ==
    ASSUME NEW H, NEW base, NEW g, NEW order, Shape(H, base, g, order),
           NEW d \in base..(base + LastSpan)
    PROVE  /\ Recalculated(H, base, g, d) \in Seq(OrderItem)
           /\ Len(Recalculated(H, base, g, d)) = Len(H[d])
           /\ \A q \in 1..Len(H[d]) :
                /\ Recalculated(H, base, g, d)[q].value = H[d][q].value
                /\ WindowFits(Recalculated(H, base, g, d)[q].parallelism, q - 1, Len(H[d]),
                              IF d = base + LastSpan THEN 0 ELSE Len(H[d + 1]))
<1>1. base \in Nat /\ LastSpan \in Nat /\ d \in 0..(base + LastSpan)
  BY LastSpanType DEF Shape
<1>2. PICK i \in SpanIxs : d = base + i /\ d - base = i
        /\ (d = base + LastSpan <=> i = LastSpan)
  <2>1. d - base \in SpanIxs /\ d = base + (d - base)
        /\ (d = base + LastSpan <=> d - base = LastSpan)
    BY <1>1 DEF SpanIxs
  <2> QED
    BY <2>1
<1>3. H[d] \in Seq(OrderItem)
  BY <1>1 DEF Shape
<1>4. PICK N \in Nat : N = Len(H[d])
  BY <1>3
<1>5. PICK M : M = IF d = base + LastSpan THEN 0 ELSE Len(H[d + 1])
  OBVIOUS
<1>6. ASSUME NEW q \in 1..N
      PROVE  WindowFits(ItemParallelism(g, i, q - 1), q - 1, N, M)
  <2>1. q - 1 \in 0..(N - 1)
    OBVIOUS
  <2>2. WindowFits(ItemParallelism(g, i, q - 1), q - 1, Len(H[base + i]),
                   IF i = LastSpan THEN 0 ELSE Len(H[base + i + 1]))
    BY <1>2, <1>4, <2>1, ParallelismFits
  <2> QED
    BY <1>2, <1>4, <1>5, <2>2
<1> DEFINE it(q) == [H[d][q] EXCEPT !.parallelism = ItemParallelism(g, i, q - 1)]
<1>7. ASSUME NEW q \in 1..N
      PROVE  /\ it(q) \in OrderItem /\ it(q).value = H[d][q].value
             /\ it(q).parallelism = ItemParallelism(g, i, q - 1)
  <2>1. H[d][q] \in OrderItem
    BY <1>3, <1>4
  <2>2. ItemParallelism(g, i, q - 1) \in Nat
    BY <1>6 DEF WindowFits
  <2> QED
    BY <2>1, <2>2 DEF OrderItem
<1>8. Recalculated(H, base, g, d) = [q \in 1..N |-> it(q)]
  BY <1>2, <1>4 DEF Recalculated
<1> HIDE DEF it
<1>9. [q \in 1..N |-> it(q)] \in [1..N -> OrderItem]
  BY <1>7
<1>10. /\ Recalculated(H, base, g, d) \in Seq(OrderItem)
       /\ Len(Recalculated(H, base, g, d)) = N
  BY <1>8, <1>9, LenProperties
<1>11. \A q \in 1..N : Recalculated(H, base, g, d)[q] = it(q)
  BY <1>8
<1> QED
  BY <1>4, <1>5, <1>6, <1>7, <1>10, <1>11

LEMMA AfterReleaseValues ==
    ASSUME NEW H, NEW base, NEW g, NEW order, Shape(H, base, g, order),
           NEW n \in 0..GUIDE_SIZE
    PROVE  /\ AfterRelease(H, base, g, n) \in [0..(base + n + LastSpan) -> Seq(OrderItem)]
           /\ \A d \in 0..(base + LastSpan) :
                d < base \/ d >= base + n => AfterRelease(H, base, g, n)[d] = H[d]
           /\ \A d \in 0..(base + n + LastSpan) :
                d > base + LastSpan => AfterRelease(H, base, g, n)[d] = <<>>
           /\ \A d \in base..(base + LastSpan) :
                d < base + n => AfterRelease(H, base, g, n)[d] = Recalculated(H, base, g, d)
<1>1. /\ base \in Nat /\ LastSpan \in Nat /\ n \in 0..(LastSpan + 1)
      /\ H \in [0..(base + LastSpan) -> Seq(OrderItem)]
  BY LastSpanType DEF Shape
<1> DEFINE e(d) == IF d >= base /\ d < base + n THEN Recalculated(H, base, g, d)
                   ELSE IF d <= base + LastSpan THEN H[d] ELSE <<>>
<1>2. \A d \in 0..(base + LastSpan) : d < base \/ d >= base + n => e(d) = H[d]
  BY <1>1
<1>3. \A d \in 0..(base + n + LastSpan) : d > base + LastSpan => e(d) = <<>>
  BY <1>1
<1>4. \A d \in base..(base + LastSpan) : d < base + n => e(d) = Recalculated(H, base, g, d)
  BY <1>1
<1>5. ASSUME NEW d \in 0..(base + n + LastSpan) PROVE e(d) \in Seq(OrderItem)
  <2>1. CASE d > base + LastSpan
    <3>1. <<>> \in Seq(OrderItem)
      OBVIOUS
    <3> HIDE DEF e
    <3> QED
      BY <1>3, <2>1, <3>1
  <2>2. CASE d < base + n /\ d >= base /\ d <= base + LastSpan
    <3>1. d \in base..(base + LastSpan)
      BY <1>1, <2>2
    <3>2. Recalculated(H, base, g, d) \in Seq(OrderItem)
      BY <3>1, RecalculatedType
    <3> HIDE DEF e
    <3> QED
      BY <1>4, <2>2, <3>1, <3>2
  <2>3. CASE d <= base + LastSpan /\ (d < base \/ d >= base + n)
    <3>1. d \in 0..(base + LastSpan)
      BY <1>1, <2>3
    <3> HIDE DEF e
    <3> QED
      BY <1>1, <1>2, <2>3, <3>1
  <2> QED
    BY <1>1, <2>1, <2>2, <2>3
<1>6. AfterRelease(H, base, g, n) = [d \in 0..(base + n + LastSpan) |-> e(d)]
  BY DEF AfterRelease
<1>7. \A d \in 0..(base + LastSpan) : d \in 0..(base + n + LastSpan)
  BY <1>1
<1>8. \A d \in base..(base + LastSpan) : d \in 0..(base + n + LastSpan)
  BY <1>1
<1> HIDE DEF e
<1> QED
  BY <1>2, <1>3, <1>4, <1>5, <1>6, <1>7, <1>8

LEMMA CalculatedSpans ==
    ASSUME NEW H, NEW base, NEW g, NEW order, Shape(H, base, g, order),
           NEW n \in 0..GUIDE_SIZE, NEW i \in SpanIxs
    PROVE  CalculateParallelism(g, n)[i]
            = [id |-> base + i, buffer |-> AfterRelease(H, base, g, n)[base + i]]
<1>1. /\ base \in Nat /\ LastSpan \in Nat /\ n \in 0..(LastSpan + 1) /\ i \in 0..LastSpan
      /\ H \in [0..(base + LastSpan) -> Seq(OrderItem)]
  BY LastSpanType DEF Shape, SpanIxs
<1>2. base + i \in 0..(base + LastSpan) /\ base + i \in base..(base + LastSpan)
      /\ (base + i < base + n <=> i < n) /\ ~(base + i < base) /\ (base + i) - base = i
  BY <1>1
<1>3. g.spans[i] \in [id : Nat, buffer : Seq(OrderItem)]
  BY DEF Shape, Guides, Spans
<1>4. g.spans[i].id = base + i /\ g.spans[i].buffer = H[base + i]
  BY DEF Shape, InGuide
<1>5. CASE i < n
  <2> DEFINE e(k) == [H[base + i][k] EXCEPT !.parallelism = ItemParallelism(g, i, k - 1)]
  <2>1. CalculateParallelism(g, n)[i]
            = [g.spans[i] EXCEPT !.buffer = [k \in DOMAIN H[base + i] |-> e(k)]]
    BY <1>4, <1>5 DEF CalculateParallelism
  <2>2. DOMAIN H[base + i] = 1..Len(H[base + i])
    BY <1>1, <1>2
  <2>3. Recalculated(H, base, g, base + i) = [k \in 1..Len(H[base + i]) |-> e(k)]
    BY <1>2 DEF Recalculated
  <2> HIDE DEF e
  <2>4. CalculateParallelism(g, n)[i]
            = [g.spans[i] EXCEPT !.buffer = Recalculated(H, base, g, base + i)]
    BY <2>1, <2>2, <2>3
  <2>5. AfterRelease(H, base, g, n)[base + i] = Recalculated(H, base, g, base + i)
    BY <1>2, <1>5, AfterReleaseValues
  <2> QED
    BY <1>3, <1>4, <2>4, <2>5
<1>6. CASE ~(i < n)
  <2>1. CalculateParallelism(g, n)[i] = g.spans[i]
    BY <1>6 DEF CalculateParallelism
  <2>2. base + i >= base + n
    BY <1>1, <1>6
  <2>3. AfterRelease(H, base, g, n)[base + i] = H[base + i]
    BY <1>2, <2>2, AfterReleaseValues
  <2> QED
    BY <1>3, <1>4, <2>1, <2>3
<1> QED
  BY <1>5, <1>6

LEMMA ExpropriatedSpans ==
    ASSUME NEW H, NEW base, NEW g, NEW order, Shape(H, base, g, order),
           NEW n \in 0..GUIDE_SIZE, NEW i \in SpanIxs
    PROVE  Expropriate(CalculateParallelism(g, n), n)[i]
            = [id |-> base + n + i, buffer |-> AfterRelease(H, base, g, n)[base + n + i]]
<1>1. /\ base \in Nat /\ LastSpan \in Nat /\ n \in 0..(LastSpan + 1) /\ i \in 0..LastSpan
  BY LastSpanType DEF Shape, SpanIxs
<1>2. CASE i + n <= LastSpan
  <2>1. i + n \in SpanIxs /\ base + (i + n) = base + n + i
    BY <1>1, <1>2 DEF SpanIxs
  <2>2. Expropriate(CalculateParallelism(g, n), n)[i] = CalculateParallelism(g, n)[i + n]
    BY <1>2 DEF Expropriate
  <2>3. CalculateParallelism(g, n)[i + n]
            = [id |-> base + (i + n), buffer |-> AfterRelease(H, base, g, n)[base + (i + n)]]
    BY <2>1, CalculatedSpans
  <2> QED
    BY <2>1, <2>2, <2>3
<1>3. CASE ~(i + n <= LastSpan)
  <2>1. LastSpan \in SpanIxs
    BY <1>1 DEF SpanIxs
  <2>2. CalculateParallelism(g, n)[LastSpan].id = base + LastSpan
    <3>1. CalculateParallelism(g, n)[LastSpan] = [id |-> base + LastSpan,
                buffer |-> AfterRelease(H, base, g, n)[base + LastSpan]]
      BY <2>1, CalculatedSpans
    <3> QED
      BY <3>1
  <2>3. Expropriate(CalculateParallelism(g, n), n)[i]
            = NewSpan(base + LastSpan + i + n - LastSpan)
    BY <1>3, <2>2 DEF Expropriate
  <2>4. base + LastSpan + i + n - LastSpan = base + n + i
    BY <1>1
  <2>5. base + n + i \in 0..(base + n + LastSpan) /\ base + n + i > base + LastSpan
    BY <1>1, <1>3
  <2>6. AfterRelease(H, base, g, n)[base + n + i] = <<>>
    BY <2>5, AfterReleaseValues
  <2> QED
    BY <2>3, <2>4, <2>6 DEF NewSpan
<1> QED
  BY <1>2, <1>3

LEMMA ReleasedOrder ==
    ASSUME NEW H, NEW base, NEW g, NEW order, Shape(H, base, g, order),
           NEW n \in 0..GUIDE_SIZE
    PROVE  /\ Released(CalculateParallelism(g, n), n) \in Seq(OrderItem)
           /\ order \in Seq(OrderItem)
           /\ FlattenSeq(FirstSpans(AfterRelease(H, base, g, n), base + n))
                = order \o Released(CalculateParallelism(g, n), n)
<1>1. /\ base \in Nat /\ LastSpan \in Nat /\ n \in 0..(LastSpan + 1) /\ n \in Nat
      /\ H \in [0..(base + LastSpan) -> Seq(OrderItem)]
  BY LastSpanType DEF Shape
<1>2. PICK H2 \in [0..(base + n + LastSpan) -> Seq(OrderItem)] :
        H2 = AfterRelease(H, base, g, n)
  <2>1. AfterRelease(H, base, g, n) \in [0..(base + n + LastSpan) -> Seq(OrderItem)]
    BY AfterReleaseValues
  <2> QED
    BY <2>1
<1>3. \A d \in 0..(base + LastSpan) : d < base => H2[d] = H[d]
  <2>1. \A d \in 0..(base + LastSpan) :
                d < base \/ d >= base + n => AfterRelease(H, base, g, n)[d] = H[d]
    BY AfterReleaseValues
  <2> QED
    BY <1>2, <2>1
<1> DEFINE a == FirstSpans(H, base)
           b == [k \in 1..n |-> CalculateParallelism(g, n)[k - 1].buffer]
           s == FirstSpans(H2, base + n)
<1>4. a \in [1..base -> Seq(OrderItem)]
  <2>1. \A k \in 1..base : k - 1 \in 0..(base + LastSpan)
    BY <1>1
  <2> QED
    BY <1>1, <2>1 DEF FirstSpans
<1>5. s \in [1..(base + n) -> Seq(OrderItem)] /\ \A k \in 1..(base + n) : s[k] = H2[k - 1]
  <2>1. \A k \in 1..(base + n) : k - 1 \in 0..(base + n + LastSpan)
    BY <1>1
  <2> QED
    BY <1>2, <2>1 DEF FirstSpans
<1>6. \A k \in 1..base : s[k] = a[k]
  <2>1. \A k \in 1..base : k - 1 \in 0..(base + LastSpan) /\ k - 1 < base /\ k \in 1..(base + n)
    BY <1>1
  <2>2. \A k \in 1..base : a[k] = H[k - 1]
    BY DEF FirstSpans
  <2> HIDE DEF a, s
  <2> QED
    BY <1>3, <1>5, <2>1, <2>2
<1>7. ASSUME NEW k \in 1..n PROVE b[k] \in Seq(OrderItem) /\ s[base + k] = b[k]
  <2>1. k - 1 \in SpanIxs /\ base + k \in 1..(base + n) /\ (base + k) - 1 = base + (k - 1)
        /\ base + (k - 1) \in 0..(base + n + LastSpan)
    BY <1>1 DEF SpanIxs
  <2>2. CalculateParallelism(g, n)[k - 1]
            = [id |-> base + (k - 1), buffer |-> H2[base + (k - 1)]]
    <3>1. CalculateParallelism(g, n)[k - 1] = [id |-> base + (k - 1),
                buffer |-> AfterRelease(H, base, g, n)[base + (k - 1)]]
      BY <2>1, CalculatedSpans
    <3> QED
      BY <1>2, <3>1
  <2>3. b[k] = H2[base + (k - 1)]
    BY <2>2
  <2>4. s[base + k] = H2[base + (k - 1)]
    BY <1>5, <2>1
  <2> HIDE DEF b, s
  <2> QED
    BY <1>2, <2>1, <2>3, <2>4
<1>8. b \in [1..n -> Seq(OrderItem)]
  <2>1. b = [k \in 1..n |-> b[k]]
    OBVIOUS
  <2> HIDE DEF b
  <2> QED
    BY <1>7, <2>1
<1>9. FlattenSeq(b) = Released(CalculateParallelism(g, n), n)
  BY DEF Released
<1>10. FlattenSeq(a) = order
  BY DEF Shape
<1> HIDE DEF a, b, s
<1>11. FlattenSeq(s) = FlattenSeq(a) \o FlattenSeq(b)
  <2>1. InParts(OrderItem, s, a, base, b, n)
    BY <1>1, <1>4, <1>5, <1>6, <1>7, <1>8 DEF InParts
  <2> QED
    BY <2>1, FlattenConcat
<1>12. FlattenSeq(a) \in Seq(OrderItem) /\ FlattenSeq(b) \in Seq(OrderItem)
  BY <1>1, <1>4, <1>8, FlattenType
<1>13. FlattenSeq(s) = FlattenSeq(FirstSpans(AfterRelease(H, base, g, n), base + n))
  BY <1>2 DEF s
<1> QED
  BY <1>9, <1>10, <1>11, <1>12, <1>13

LEMMA AfterReleaseSame ==
    ASSUME NEW H, NEW base, NEW g, NEW order, Shape(H, base, g, order),
           NEW n \in 0..GUIDE_SIZE, NEW d \in 0..(base + LastSpan)
    PROVE  /\ Len(AfterRelease(H, base, g, n)[d]) = Len(H[d])
           /\ \A q \in 1..Len(H[d]) : AfterRelease(H, base, g, n)[d][q].value = H[d][q].value
<1>1. base \in Nat /\ LastSpan \in Nat /\ n \in Nat
  BY LastSpanType DEF Shape
<1>2. CASE d < base \/ d >= base + n
  <2>1. AfterRelease(H, base, g, n)[d] = H[d]
    BY <1>2, AfterReleaseValues
  <2> QED
    BY <2>1
<1>3. CASE ~(d < base \/ d >= base + n)
  <2>1. d \in base..(base + LastSpan) /\ d < base + n
    BY <1>1, <1>3
  <2>2. AfterRelease(H, base, g, n)[d] = Recalculated(H, base, g, d)
    BY <2>1, AfterReleaseValues
  <2>3. /\ Len(Recalculated(H, base, g, d)) = Len(H[d])
        /\ \A q \in 1..Len(H[d]) : Recalculated(H, base, g, d)[q].value = H[d][q].value
    BY <2>1, RecalculatedType
  <2> QED
    BY <2>2, <2>3
<1> QED
  BY <1>2, <1>3

LEMMA AfterReleaseWindows ==
    ASSUME NEW H, NEW base, NEW g, NEW order, Shape(H, base, g, order),
           NEW n \in 0..GUIDE_SIZE
    PROVE  Windows(AfterRelease(H, base, g, n), base + n)
<1>1. base \in Nat /\ LastSpan \in Nat /\ n \in 0..(LastSpan + 1)
  BY LastSpanType DEF Shape
<1>2. PICK H2 : H2 = AfterRelease(H, base, g, n)
  OBVIOUS
<1>3. ASSUME NEW d \in 0..(base + n - 1), NEW x \in 0..(Len(H2[d]) - 1)
      PROVE  WindowFits(H2[d][x + 1].parallelism, x, Len(H2[d]), Len(H2[d + 1]))
  <2>1. d \in 0..(base + LastSpan)
    BY <1>1
  <2>2. Len(H2[d]) = Len(H[d])
    BY <1>2, <2>1, AfterReleaseSame
  <2>3. CASE d < base
    <3>1. d + 1 \in 0..(base + LastSpan) /\ d \in 0..(base - 1)
      BY <1>1, <2>3
    <3>2. H2[d] = H[d]
      <4>1. AfterRelease(H, base, g, n)[d] = H[d]
        BY <2>1, <2>3, AfterReleaseValues
      <4> QED
        BY <1>2, <4>1
    <3>3. Len(H2[d + 1]) = Len(H[d + 1])
      BY <1>2, <3>1, AfterReleaseSame
    <3>4. WindowFits(H[d][x + 1].parallelism, x, Len(H[d]), Len(H[d + 1]))
      BY <2>2, <3>1 DEF Shape, Windows
    <3> QED
      BY <3>2, <3>3, <3>4
  <2>4. CASE ~(d < base)
    <3>1. d \in base..(base + LastSpan) /\ d < base + n
      BY <1>1, <2>1, <2>4
    <3>2. H2[d] = Recalculated(H, base, g, d)
      <4>1. AfterRelease(H, base, g, n)[d] = Recalculated(H, base, g, d)
        BY <3>1, AfterReleaseValues
      <4> QED
        BY <1>2, <4>1
    <3>3. PICK N \in Nat : N = Len(H[d])
      <4>1. H[d] \in Seq(OrderItem)
        BY <2>1 DEF Shape
      <4> QED
        BY <4>1
    <3>4. x \in 0..(N - 1)
      BY <2>2, <3>3
    <3>5. x + 1 \in 1..N /\ (x + 1) - 1 = x
      BY <3>4
    <3>6. WindowFits(H2[d][x + 1].parallelism, x, N,
                     IF d = base + LastSpan THEN 0 ELSE Len(H[d + 1]))
      <4>1. \A q \in 1..Len(H[d]) :
                WindowFits(Recalculated(H, base, g, d)[q].parallelism, q - 1, Len(H[d]),
                           IF d = base + LastSpan THEN 0 ELSE Len(H[d + 1]))
        BY <3>1, RecalculatedType
      <4>2. \A q \in 1..N :
                WindowFits(H2[d][q].parallelism, q - 1, N,
                           IF d = base + LastSpan THEN 0 ELSE Len(H[d + 1]))
        BY <3>2, <3>3, <4>1
      <4>3. WindowFits(H2[d][x + 1].parallelism, (x + 1) - 1, N,
                       IF d = base + LastSpan THEN 0 ELSE Len(H[d + 1]))
        BY <3>5, <4>2
      <4> QED
        BY <3>5, <4>3
    <3>7. Len(H2[d + 1]) = IF d = base + LastSpan THEN 0 ELSE Len(H[d + 1])
      <4>1. CASE d = base + LastSpan
        <5>1. d + 1 \in 0..(base + n + LastSpan) /\ d + 1 > base + LastSpan
          BY <1>1, <3>1, <4>1
        <5>2. AfterRelease(H, base, g, n)[d + 1] = <<>>
          BY <5>1, AfterReleaseValues
        <5> QED
          BY <1>2, <4>1, <5>2
      <4>2. CASE d # base + LastSpan
        <5>1. d + 1 \in 0..(base + LastSpan)
          BY <1>1, <2>1, <4>2
        <5> QED
          BY <1>2, <4>2, <5>1, AfterReleaseSame
      <4> QED
        BY <4>1, <4>2
    <3> QED
      BY <2>2, <3>3, <3>6, <3>7
  <2> QED
    BY <2>3, <2>4
<1>4. PICK b \in Nat : b = base + n
  BY <1>1
<1>5. Windows(H2, b)
  <2> SUFFICES ASSUME NEW d \in 0..(b - 1), NEW x \in 0..(Len(H2[d]) - 1)
               PROVE  WindowFits(H2[d][x + 1].parallelism, x, Len(H2[d]), Len(H2[d + 1]))
    BY DEF Windows
  <2>1. d \in 0..(base + n - 1)
    BY <1>1, <1>4
  <2> QED
    BY <1>3, <2>1
<1> QED
  BY <1>2, <1>4, <1>5

ReleasedGuide(g, n) ==
    [g EXCEPT !.spans = Expropriate(CalculateParallelism(g, n), n),
              !.next_target = @ + Len(Released(CalculateParallelism(g, n), n))]

LEMMA ReleaseShape ==
    ASSUME NEW H, NEW base, NEW g, NEW order, Shape(H, base, g, order),
           NEW n \in 0..GUIDE_SIZE
    PROVE  Shape(AfterRelease(H, base, g, n), base + n, ReleasedGuide(g, n),
                 order \o Released(CalculateParallelism(g, n), n))
<1>1. /\ base \in Nat /\ LastSpan \in Nat /\ n \in 0..(LastSpan + 1) /\ n \in Nat
      /\ g \in Guides /\ H \in [0..(base + LastSpan) -> Seq(OrderItem)]
  BY LastSpanType DEF Shape
<1>2. PICK H2 : H2 = AfterRelease(H, base, g, n)
  OBVIOUS
<1>3. H2 \in [0..(base + n + LastSpan) -> Seq(OrderItem)]
  BY <1>2, AfterReleaseValues
<1>4. PICK rel, out \in Seq(OrderItem) :
        /\ rel = Released(CalculateParallelism(g, n), n)
        /\ out = order \o rel
  <2>1. Released(CalculateParallelism(g, n), n) \in Seq(OrderItem) /\ order \in Seq(OrderItem)
    BY ReleasedOrder
  <2>2. order \o Released(CalculateParallelism(g, n), n) \in Seq(OrderItem)
    BY <2>1, ConcatProperties
  <2> QED
    BY <2>1, <2>2
<1>5. FlattenSeq(FirstSpans(H2, base + n)) = out
  <2>1. FlattenSeq(FirstSpans(AfterRelease(H, base, g, n), base + n))
                = order \o Released(CalculateParallelism(g, n), n)
    BY ReleasedOrder
  <2> QED
    BY <1>2, <1>4, <2>1
<1>6. Len(out) = Len(order) + Len(rel) /\ Len(rel) \in Nat
  <2>1. order \in Seq(OrderItem)
    BY ReleasedOrder
  <2> QED
    BY <1>4, <2>1, ConcatProperties
<1>7. PICK s \in Spans : s = Expropriate(CalculateParallelism(g, n), n)
  <2>1. ASSUME NEW i \in SpanIxs
        PROVE  Expropriate(CalculateParallelism(g, n), n)[i] \in [id : Nat, buffer : Seq(OrderItem)]
    <3>1. Expropriate(CalculateParallelism(g, n), n)[i]
            = [id |-> base + n + i, buffer |-> AfterRelease(H, base, g, n)[base + n + i]]
      BY ExpropriatedSpans
    <3>2. base + n + i \in Nat /\ base + n + i \in 0..(base + n + LastSpan)
      BY <1>1 DEF SpanIxs
    <3>3. H2[base + n + i] \in Seq(OrderItem)
      BY <1>3, <3>2
    <3> QED
      BY <1>2, <3>1, <3>2, <3>3
  <2>2. Expropriate(CalculateParallelism(g, n), n)
            = [i \in SpanIxs |-> Expropriate(CalculateParallelism(g, n), n)[i]]
    BY DEF Expropriate
  <2> QED
    BY <2>1, <2>2 DEF Spans
<1>8. \A i \in SpanIxs : s[i].id = base + n + i /\ s[i].buffer = H2[base + n + i]
  <2> TAKE i \in SpanIxs
  <2>1. Expropriate(CalculateParallelism(g, n), n)[i]
            = [id |-> base + n + i, buffer |-> AfterRelease(H, base, g, n)[base + n + i]]
    BY ExpropriatedSpans
  <2> QED
    BY <1>2, <1>7, <2>1
<1>9. PICK g2 \in Guides : g2 = [g EXCEPT !.spans = s, !.next_target = @ + Len(rel)]
  <2>1. g.next_target + Len(rel) \in Nat
    BY <1>1, <1>6 DEF Guides
  <2> QED
    BY <1>1, <2>1 DEF Guides
<1>10. /\ g2.spans = s /\ g2.parallelism = g.parallelism
       /\ g2.next_target = g.next_target + Len(rel)
  BY <1>1, <1>9 DEF Guides
<1>11. g2.next_target = Len(out)
  BY <1>6, <1>10 DEF Shape
<1>12. InGuide(H2, base + n, g2)
  <2>1. ASSUME NEW d \in (base + n)..(base + n + LastSpan), NEW q \in 1..Len(H2[d])
        PROVE  H2[d][q].parallelism = g2.parallelism
    <3>1. CASE d > base + LastSpan
      <4>1. d \in 0..(base + n + LastSpan)
        BY <1>1
      <4>2. AfterRelease(H, base, g, n)[d] = <<>>
        BY <3>1, <4>1, AfterReleaseValues
      <4>3. H2[d] = <<>>
        BY <1>2, <4>2
      <4> QED
        BY <4>3
    <3>2. CASE ~(d > base + LastSpan)
      <4>1. d \in 0..(base + LastSpan) /\ d \in base..(base + LastSpan) /\ d >= base + n
        BY <1>1, <3>2
      <4>2. AfterRelease(H, base, g, n)[d] = H[d]
        BY <4>1, AfterReleaseValues
      <4>3. \A p \in 1..Len(H[d]) : H[d][p].parallelism = g.parallelism
        BY <4>1 DEF Shape, InGuide
      <4>4. H2[d] = H[d]
        BY <1>2, <4>2
      <4> QED
        BY <1>10, <4>3, <4>4
    <3> QED
      BY <3>1, <3>2
  <2> QED
    BY <1>8, <1>10, <2>1 DEF InGuide
<1>13. Windows(H2, base + n)
  BY <1>2, AfterReleaseWindows
<1>14. Shape(H2, base + n, g2, out)
  <2>1. base + n \in Nat
    BY <1>1
  <2> QED
    BY <1>3, <1>5, <1>9, <1>11, <1>12, <1>13, <2>1 DEF Shape
<1>15. g2 = ReleasedGuide(g, n)
  BY <1>4, <1>7, <1>9 DEF ReleasedGuide
<1> QED
  BY <1>2, <1>4, <1>14, <1>15

LEMMA PlacedRelease ==
    ASSUME NEW H, NEW base, NEW g, NEW order, Shape(H, base, g, order),
           NEW n \in 0..GUIDE_SIZE, NEW W, Placed(H, W)
    PROVE  Placed(AfterRelease(H, base, g, n), W)
<1>1. /\ base \in Nat /\ LastSpan \in Nat /\ n \in Nat
      /\ DOMAIN H = 0..(base + LastSpan)
  BY LastSpanType DEF Shape
<1>2. PICK H2 : H2 = AfterRelease(H, base, g, n)
  OBVIOUS
<1>3. DOMAIN H2 = 0..(base + n + LastSpan)
  BY <1>2, AfterReleaseValues
<1>4. \A d \in 0..(base + LastSpan) : d \in 0..(base + n + LastSpan) /\ Len(H2[d]) = Len(H[d])
        /\ \A q \in 1..Len(H[d]) : H2[d][q].value = H[d][q].value
  <2> TAKE d \in 0..(base + LastSpan)
  <2>1. d \in 0..(base + n + LastSpan)
    BY <1>1
  <2> QED
    BY <1>2, <2>1, AfterReleaseSame
<1>5. ASSUME NEW r \in DOMAIN W
      PROVE  /\ W[r] \in Location /\ W[r].id \in DOMAIN H2 /\ W[r].pos < Len(H2[W[r].id])
             /\ H2[W[r].id][W[r].pos + 1].value = r
  <2>1. W[r] \in Location /\ W[r].id \in DOMAIN H /\ W[r].pos < Len(H[W[r].id])
        /\ H[W[r].id][W[r].pos + 1].value = r
    BY DEF Placed
  <2>2. PICK d \in 0..(base + LastSpan), p \in Nat : d = W[r].id /\ p = W[r].pos
    BY <1>1, <2>1 DEF Location
  <2>3. H[d] \in Seq(OrderItem)
    BY DEF Shape
  <2>4. PICK N \in Nat : N = Len(H[d])
    BY <2>3
  <2>5. p + 1 \in 1..N
    BY <2>1, <2>2, <2>4
  <2> QED
    BY <1>3, <1>4, <2>1, <2>2, <2>4, <2>5
<1>6. ASSUME NEW d \in DOMAIN H2, NEW q \in 1..Len(H2[d])
      PROVE  H2[d][q].value \in DOMAIN W /\ W[H2[d][q].value] = [id |-> d, pos |-> q - 1]
  <2>1. CASE d > base + LastSpan
    <3>1. d \in 0..(base + n + LastSpan)
      BY <1>3
    <3>2. AfterRelease(H, base, g, n)[d] = <<>>
      BY <2>1, <3>1, AfterReleaseValues
    <3>3. H2[d] = <<>>
      BY <1>2, <3>2
    <3> QED
      BY <3>3
  <2>2. CASE ~(d > base + LastSpan)
    <3>1. d \in 0..(base + LastSpan)
      BY <1>1, <1>3, <2>2
    <3>2. q \in 1..Len(H[d]) /\ H2[d][q].value = H[d][q].value
      BY <1>4, <3>1
    <3>3. H[d][q].value \in DOMAIN W /\ W[H[d][q].value] = [id |-> d, pos |-> q - 1]
      BY <1>1, <3>1, <3>2 DEF Placed
    <3> QED
      BY <3>2, <3>3
  <2> QED
    BY <2>1, <2>2
<1> QED
  BY <1>2, <1>5, <1>6 DEF Placed

---------------------------------------------------------------------------
(* Where push puts an item: behind the location it depends on, by more than *)
(* one span, or by one span and no nearer to its start.                     *)
Follows(l, m) == l.id + 1 < m.id \/ (l.id + 1 = m.id /\ l.pos <= m.pos)

MatchedLoc(H, base, m) ==
    [id  |-> base + m.span + m.new,
     pos |-> IF m.new > 0 THEN 0 ELSE Len(H[base + m.span])]

LEMMA MatchedSpanFollows ==
    ASSUME NEW H, NEW base, NEW g, NEW order, Shape(H, base, g, order), NEW after,
           after = None \/ (after \in Location /\ after.id <= base + LastSpan)
    PROVE  /\ MatchedSpan(g, after) \in [new : 0..2, span : 1..LastSpan]
           /\ MatchedSpan(g, after).new > 0 => MatchedSpan(g, after).span = LastSpan
           /\ after # None => Follows(after, MatchedLoc(H, base, MatchedSpan(g, after)))
<1>1. base \in Nat /\ LastSpan \in Nat /\ LastSpan >= 2 /\ 0 \in SpanIxs
  BY LastSpanType DEF Shape, SpanIxs
<1>2. g.spans[0].id = base
  BY <1>1 DEF Shape, InGuide
<1>3. PICK m : m = MatchedSpan(g, after)
  OBVIOUS
<1>4. CASE after = None
  <2>1. m = [new |-> 0, span |-> 1]
    BY <1>3, <1>4 DEF MatchedSpan
  <2> QED
    BY <1>1, <1>3, <1>4, <2>1
<1>5. CASE after # None
  <2>1. PICK a \in Nat, p \in Nat : a = after.id /\ p = after.pos /\ a <= base + LastSpan
    BY <1>5 DEF Location
  <2>2. PICK d \in Int : d = a - base /\ a = base + d /\ d <= LastSpan
    <3>1. a - base \in Int /\ a = base + (a - base) /\ a - base <= LastSpan
      BY <1>1, <2>1
    <3> QED
      BY <3>1
  <2>3. CASE d < 0
    <3>1. m = [new |-> 0, span |-> 1]
      BY <1>2, <1>3, <1>5, <2>1, <2>2, <2>3 DEF MatchedSpan
    <3>2. MatchedLoc(H, base, m).id = base + 1
      BY <1>1, <3>1 DEF MatchedLoc
    <3>3. Follows(after, MatchedLoc(H, base, m))
      BY <1>1, <2>1, <2>2, <2>3, <3>2 DEF Follows
    <3> QED
      BY <1>1, <1>3, <3>1, <3>3
  <2>4. CASE d = LastSpan
    <3>1. m = [new |-> 2, span |-> LastSpan]
      BY <1>1, <1>2, <1>3, <1>5, <2>1, <2>2, <2>4 DEF MatchedSpan
    <3>2. MatchedLoc(H, base, m).id = base + LastSpan + 2
      BY <1>1, <3>1 DEF MatchedLoc
    <3>3. Follows(after, MatchedLoc(H, base, m))
      BY <1>1, <2>1, <2>2, <2>4, <3>2 DEF Follows
    <3> QED
      BY <1>1, <1>3, <3>1, <3>3
  <2>5. CASE d >= 0 /\ d # LastSpan
    <3>1. d + 1 \in SpanIxs /\ d \in Nat /\ base + (d + 1) \in 0..(base + LastSpan)
          /\ d + 1 <= LastSpan
      BY <1>1, <2>2, <2>5 DEF SpanIxs
    <3>2. PICK len \in Nat : len = Len(H[base + (d + 1)])
      <4>1. H[base + (d + 1)] \in Seq(OrderItem)
        BY <3>1 DEF Shape
      <4> QED
        BY <4>1
    <3>3. g.spans[d + 1].buffer = H[base + (d + 1)]
      BY <3>1 DEF Shape, InGuide
    <3>4. PICK from \in Nat : from = SpanBehind(g, after, d)
            /\ ((from = d + 1 /\ p <= len) \/ from = d + 2)
      <4>1. SpanBehind(g, after, d) = IF p > len THEN d + 2 ELSE d + 1
        BY <2>1, <3>2, <3>3 DEF SpanBehind
      <4>2. d + 1 \in Nat /\ d + 2 \in Nat
        BY <3>1
      <4> QED
        BY <4>1, <4>2
    <3>5. PICK free : free = NotFullFrom(g, from)
      OBVIOUS
    <3>6. free \in SUBSET (from..LastSpan)
      BY <3>5 DEF NotFullFrom
    <3>7. m = IF free = {} THEN [new |-> 1, span |-> LastSpan]
              ELSE [new |-> 0, span |-> CHOOSE i \in free : \A j \in free : i <= j]
      <4>1. ~(d < 0)
        BY <2>5
      <4> QED
        BY <1>2, <1>3, <1>5, <2>1, <2>2, <2>5, <3>4, <3>5, <4>1 DEF MatchedSpan
    <3>8. CASE free = {}
      <4>1. m = [new |-> 1, span |-> LastSpan]
        BY <3>7, <3>8
      <4>2. MatchedLoc(H, base, m).id = base + LastSpan + 1
        BY <1>1, <4>1 DEF MatchedLoc
      <4>3. Follows(after, MatchedLoc(H, base, m))
        BY <1>1, <2>1, <2>2, <2>5, <3>1, <4>2 DEF Follows
      <4> QED
        BY <1>1, <1>3, <4>1, <4>3
    <3>9. CASE free # {}
      <4>1. \E i \in free : \A j \in free : i <= j
        <5>1. free \in SUBSET Nat
          BY <3>6
        <5> QED
          BY <3>9, <5>1, LeastExists
      <4>2. PICK i : i = CHOOSE k \in free : \A j \in free : k <= j
        OBVIOUS
      <4>3. i \in free
        BY <4>1, <4>2
      <4>4. i \in Nat /\ i >= from /\ i <= LastSpan
        BY <3>6, <4>3
      <4>5. m = [new |-> 0, span |-> i]
        BY <3>7, <3>9, <4>2
      <4>6. i \in 1..LastSpan
        BY <1>1, <3>1, <3>4, <4>4
      <4>7. MatchedLoc(H, base, m) = [id |-> base + i, pos |-> Len(H[base + i])]
        BY <1>1, <4>4, <4>5 DEF MatchedLoc
      <4>8. Follows(after, MatchedLoc(H, base, m))
        <5>1. CASE i = d + 1
          <6>1. p <= len
            BY <3>1, <3>4, <4>4, <5>1
          <6>2. MatchedLoc(H, base, m).id = a + 1 /\ MatchedLoc(H, base, m).pos = len
            BY <1>1, <2>2, <3>1, <3>2, <4>7, <5>1
          <6> QED
            BY <2>1, <6>1, <6>2 DEF Follows
        <5>2. CASE i # d + 1
          <6>1. i >= d + 2
            BY <3>1, <3>4, <4>4, <5>2
          <6>2. a + 1 < base + i
            BY <1>1, <2>2, <4>4, <6>1
          <6> QED
            BY <2>1, <4>7, <6>2 DEF Follows
        <5> QED
          BY <5>1, <5>2
      <4> QED
        BY <1>3, <4>5, <4>6, <4>8
    <3> QED
      BY <3>8, <3>9
  <2> QED
    BY <2>2, <2>3, <2>4, <2>5
<1> QED
  BY <1>4, <1>5

---------------------------------------------------------------------------
(* push and flush as a whole.                                               *)
PushedAt(loc, order, W, r, push) ==
    /\ push.loc = loc
    /\ push.released \in Seq(OrderItem)
    /\ \E H, base : /\ Shape(H, base, push.guide, order \o push.released)
                    /\ Placed(H, Extended(W, r, push.loc))

LEMMA PushInSpan ==
    ASSUME NEW H, NEW base, NEW g, NEW order, Shape(H, base, g, order),
           NEW W, Placed(H, W), NEW r \in Nat, r \notin DOMAIN W, NEW after,
           NEW k \in 1..LastSpan, MatchedSpan(g, after) = [new |-> 0, span |-> k]
    PROVE  PushedAt([id |-> base + k, pos |-> Len(H[base + k])], order, W, r,
                    GuidePush(g, r, after))
<1>1. /\ base \in Nat /\ LastSpan \in Nat /\ g \in Guides /\ k \in SpanIxs
      /\ base + k \in 0..(base + LastSpan)
      /\ H \in [0..(base + LastSpan) -> Seq(OrderItem)]
  BY LastSpanType DEF Shape, SpanIxs
<1>2. PICK item \in OrderItem : /\ item = [value |-> r, parallelism |-> g.parallelism]
                                /\ item.value = r /\ item.parallelism = g.parallelism
  <2>1. PICK P \in Nat : P = g.parallelism
    BY <1>1 DEF Guides
  <2>2. [value |-> r, parallelism |-> P] \in OrderItem
    BY DEF OrderItem
  <2> QED
    BY <2>1, <2>2
<1>3. g.spans[k].id = base + k /\ g.spans[k].buffer = H[base + k]
  BY <1>1 DEF Shape, InGuide
<1>4. PICK p \in Nat : p = Len(H[base + k])
  BY <1>1, LenProperties
<1>5. PICK H1 : H1 = [H EXCEPT ![base + k] = Append(@, item)]
  OBVIOUS
<1>6. PICK g1 : g1 = [g EXCEPT !.spans = PushInto(g.spans, k, item)]
  OBVIOUS
<1>7. Shape(H1, base, g1, order)
  BY <1>2, <1>5, <1>6, AppendShape
<1>8. Placed(H1, Extended(W, r, [id |-> base + k, pos |-> p]))
  <2>1. base + LastSpan \in Nat
    BY <1>1
  <2>2. Placed([H EXCEPT ![base + k] = Append(@, item)],
               Extended(W, item.value, [id |-> base + k, pos |-> Len(H[base + k])]))
    BY <1>1, <1>2, <2>1, PlacedAppend
  <2> QED
    BY <1>2, <1>4, <1>5, <2>2
<1>9. PICK n \in 0..GUIDE_SIZE : n = ReleasesAt(g, p)
  BY GuideSizeAssumption DEF ReleasesAt
<1>10. PICK push : push = GuidePush(g, r, after)
  OBVIOUS
<1>11. push = [loc      |-> [id |-> base + k + 0, pos |-> p],
               released |-> Released(CalculateParallelism(g1, n), n),
               guide    |-> [g EXCEPT
                    !.spans = Expropriate(CalculateParallelism(g1, n), n),
                    !.next_target = @ + Len(Released(CalculateParallelism(g1, n), n))]]
  <2>1. /\ MatchedSpan(g, after).new = 0 /\ MatchedSpan(g, after).span = k
        /\ ~(MatchedSpan(g, after).new > 0) /\ ~(0 > 0)
    OBVIOUS
  <2> QED
    BY <1>2, <1>3, <1>4, <1>6, <1>9, <1>10, <2>1, Zenon DEF GuidePush
<1>12. push.loc = [id |-> base + k, pos |-> p]
  <2>1. base + k + 0 = base + k
    BY <1>1
  <2> QED
    BY <1>11, <2>1
<1>13. push.released = Released(CalculateParallelism(g1, n), n)
  BY <1>11
<1>14. push.guide = ReleasedGuide(g1, n)
  <2>1. PICK s : s = Expropriate(CalculateParallelism(g1, n), n)
    OBVIOUS
  <2>2. PICK l : l = Len(Released(CalculateParallelism(g1, n), n))
    OBVIOUS
  <2>3. PICK s1 : s1 = PushInto(g.spans, k, item)
    OBVIOUS
  <2>4. [[g EXCEPT !.spans = s1] EXCEPT !.spans = s, !.next_target = @ + l]
            = [g EXCEPT !.spans = s, !.next_target = @ + l]
    BY <1>1 DEF Guides
  <2>5. ReleasedGuide(g1, n) = [g1 EXCEPT !.spans = s, !.next_target = @ + l]
    BY <2>1, <2>2 DEF ReleasedGuide
  <2>6. push.guide = [g EXCEPT !.spans = s, !.next_target = @ + l]
    BY <1>11, <2>1, <2>2
  <2> QED
    BY <1>6, <2>3, <2>4, <2>5, <2>6
<1>15. Shape(AfterRelease(H1, base, g1, n), base + n, push.guide, order \o push.released)
  <2>1. Shape(AfterRelease(H1, base, g1, n), base + n, ReleasedGuide(g1, n),
              order \o Released(CalculateParallelism(g1, n), n))
    BY <1>7, ReleaseShape
  <2> QED
    BY <1>13, <1>14, <2>1
<1>16. Placed(AfterRelease(H1, base, g1, n), Extended(W, r, push.loc))
  BY <1>7, <1>8, <1>12, PlacedRelease
<1>17. push.released \in Seq(OrderItem)
  BY <1>7, <1>13, ReleasedOrder
<1> QED
  BY <1>4, <1>10, <1>12, <1>15, <1>16, <1>17 DEF PushedAt

LEMMA PushInNewSpan ==
    ASSUME NEW H, NEW base, NEW g, NEW order, Shape(H, base, g, order),
           NEW W, Placed(H, W), NEW r \in Nat, r \notin DOMAIN W, NEW after,
           NEW n \in 1..2, MatchedSpan(g, after) = [new |-> n, span |-> LastSpan]
    PROVE  PushedAt([id |-> base + LastSpan + n, pos |-> 0], order, W, r,
                    GuidePush(g, r, after))
<1>1. /\ base \in Nat /\ LastSpan \in Nat /\ LastSpan >= 2 /\ g \in Guides
      /\ n \in 0..GUIDE_SIZE /\ LastSpan \in SpanIxs /\ LastSpan \in 1..LastSpan
      /\ H \in [0..(base + LastSpan) -> Seq(OrderItem)]
  BY LastSpanType DEF Shape, SpanIxs
<1>2. PICK item \in OrderItem : /\ item = [value |-> r, parallelism |-> g.parallelism]
                                /\ item.value = r /\ item.parallelism = g.parallelism
  <2>1. PICK P \in Nat : P = g.parallelism
    BY <1>1 DEF Guides
  <2>2. [value |-> r, parallelism |-> P] \in OrderItem
    BY DEF OrderItem
  <2> QED
    BY <2>1, <2>2
<1>3. g.spans[LastSpan].id = base + LastSpan
  BY <1>1 DEF Shape, InGuide
<1>4. PICK H1 : H1 = AfterRelease(H, base, g, n)
  OBVIOUS
<1>5. PICK g1 : g1 = ReleasedGuide(g, n)
  OBVIOUS
<1>6. PICK rel : rel = Released(CalculateParallelism(g, n), n)
  OBVIOUS
<1>7. rel \in Seq(OrderItem)
  BY <1>1, <1>6, ReleasedOrder
<1>8. PICK b \in Nat : b = base + n
  BY <1>1
<1>9. Shape(H1, b, g1, order \o rel)
  BY <1>1, <1>4, <1>5, <1>6, <1>8, ReleaseShape
<1>10. Placed(H1, W)
  BY <1>1, <1>4, PlacedRelease
<1>11. g1 \in Guides /\ H1 \in [0..(b + LastSpan) -> Seq(OrderItem)]
  BY <1>9 DEF Shape
<1>12. PICK s : s = Expropriate(CalculateParallelism(g, n), n)
  OBVIOUS
<1>13. g1 = [g EXCEPT !.spans = s, !.next_target = @ + Len(rel)]
  BY <1>5, <1>6, <1>12 DEF ReleasedGuide
<1>14. g1.spans = s /\ g1.parallelism = g.parallelism
  BY <1>1, <1>13 DEF Guides
<1>15. H1[b + LastSpan] = <<>>
  <2>1. b + LastSpan \in 0..(base + n + LastSpan) /\ b + LastSpan > base + LastSpan
    BY <1>1, <1>8
  <2>2. \A d \in 0..(base + n + LastSpan) :
                d > base + LastSpan => AfterRelease(H, base, g, n)[d] = <<>>
    <3>1. n \in 0..GUIDE_SIZE
      BY <1>1
    <3> QED
      BY <3>1, AfterReleaseValues
  <2> QED
    BY <1>4, <2>1, <2>2
<1>16. PICK H2 : H2 = [H1 EXCEPT ![b + LastSpan] = Append(@, item)]
  OBVIOUS
<1>17. PICK g2 : g2 = [g1 EXCEPT !.spans = PushInto(g1.spans, LastSpan, item)]
  OBVIOUS
<1>18. Shape(H2, b, g2, order \o rel)
  BY <1>1, <1>2, <1>9, <1>14, <1>16, <1>17, AppendShape
<1>19. Placed(H2, Extended(W, r, [id |-> b + LastSpan, pos |-> 0]))
  <2>1. b + LastSpan \in Nat /\ b + LastSpan \in 0..(b + LastSpan)
    BY <1>1
  <2>2. Placed([H1 EXCEPT ![b + LastSpan] = Append(@, item)],
               Extended(W, item.value, [id |-> b + LastSpan, pos |-> Len(H1[b + LastSpan])]))
    BY <1>2, <1>10, <1>11, <2>1, PlacedAppend
  <2>3. Len(H1[b + LastSpan]) = 0
    BY <1>15
  <2> QED
    BY <1>2, <1>16, <2>2, <2>3
<1>20. PICK push : push = GuidePush(g, r, after)
  OBVIOUS
<1>21. push = [loc      |-> [id |-> base + LastSpan + n, pos |-> 0],
               released |-> rel,
               guide    |-> [g EXCEPT !.spans = PushInto(s, LastSpan, item),
                                      !.next_target = @ + Len(rel)]]
  <2>1. /\ MatchedSpan(g, after).new = n /\ MatchedSpan(g, after).span = LastSpan
        /\ MatchedSpan(g, after).new > 0 /\ n > 0
    OBVIOUS
  <2> QED
    BY <1>2, <1>3, <1>6, <1>12, <1>20, <2>1, Zenon DEF GuidePush
<1>22. push.guide = g2
  <2>1. PICK s2 : s2 = PushInto(s, LastSpan, item)
    OBVIOUS
  <2>2. PICK l : l = Len(rel)
    OBVIOUS
  <2>3. [[g EXCEPT !.spans = s, !.next_target = @ + l] EXCEPT !.spans = s2]
            = [g EXCEPT !.spans = s2, !.next_target = @ + l]
    BY <1>1 DEF Guides
  <2> QED
    BY <1>13, <1>14, <1>17, <1>21, <2>1, <2>2, <2>3
<1>23. push.released = rel /\ push.loc = [id |-> base + LastSpan + n, pos |-> 0]
  BY <1>21
<1>24. b + LastSpan = base + LastSpan + n
  BY <1>1, <1>8
<1> QED
  BY <1>7, <1>18, <1>19, <1>20, <1>22, <1>23, <1>24 DEF PushedAt

(* What push does, for the location `after' of an item it depends on.       *)
Pushed(H, base, order, W, r, after, push) ==
    /\ push.released \in Seq(OrderItem)
    /\ push.loc \in Location /\ push.loc.id >= 1
    /\ after # None => Follows(after, push.loc)
    /\ Shape(H, base, push.guide, order \o push.released)
    /\ Placed(H, Extended(W, r, push.loc))

LEMMA PushShape ==
    ASSUME NEW H, NEW base, NEW g, NEW order, Shape(H, base, g, order),
           NEW W, Placed(H, W), NEW r \in Nat, r \notin DOMAIN W, NEW after,
           after = None \/ (after \in Location /\ after.id <= base + LastSpan)
    PROVE  \E H2, base2 : Pushed(H2, base2, order, W, r, after, GuidePush(g, r, after))
<1>1. PICK m \in [new : 0..2, span : 1..LastSpan] :
        /\ m = MatchedSpan(g, after)
        /\ m.new > 0 => m.span = LastSpan
        /\ after # None => Follows(after, MatchedLoc(H, base, m))
  <2>1. /\ MatchedSpan(g, after) \in [new : 0..2, span : 1..LastSpan]
        /\ MatchedSpan(g, after).new > 0 => MatchedSpan(g, after).span = LastSpan
        /\ after # None => Follows(after, MatchedLoc(H, base, MatchedSpan(g, after)))
    BY MatchedSpanFollows
  <2> QED
    BY <2>1
<1>2. /\ base \in Nat /\ LastSpan \in Nat /\ LastSpan >= 2
      /\ H \in [0..(base + LastSpan) -> Seq(OrderItem)]
  BY LastSpanType DEF Shape
<1>3. PICK push : push = GuidePush(g, r, after)
  OBVIOUS
<1>4. PICK n \in 0..2, k \in 1..LastSpan : n = m.new /\ k = m.span /\ m = [new |-> n, span |-> k]
  OBVIOUS
<1>5. CASE n = 0
  <2>1. MatchedSpan(g, after) = [new |-> 0, span |-> k]
    BY <1>1, <1>4, <1>5
  <2>2. /\ push.loc = [id |-> base + k, pos |-> Len(H[base + k])]
        /\ push.released \in Seq(OrderItem)
        /\ \E H2, base2 : /\ Shape(H2, base2, push.guide, order \o push.released)
                          /\ Placed(H2, Extended(W, r, push.loc))
    <3>1. PushedAt([id |-> base + k, pos |-> Len(H[base + k])], order, W, r, push)
      BY <1>3, <2>1, PushInSpan
    <3> QED
      BY <3>1 DEF PushedAt
  <2>3. base + k \in 0..(base + LastSpan) /\ base + k \in Nat /\ base + k >= 1
        /\ base + k + 0 = base + k
    BY <1>2
  <2>4. Len(H[base + k]) \in Nat
    BY <1>2, <2>3, LenProperties
  <2>5. push.loc \in Location /\ push.loc.id >= 1
    BY <2>2, <2>3, <2>4 DEF Location
  <2>6. MatchedLoc(H, base, m) = push.loc
    BY <1>4, <1>5, <2>2, <2>3 DEF MatchedLoc
  <2> QED
    BY <1>1, <1>3, <2>2, <2>5, <2>6 DEF Pushed
<1>6. CASE n # 0
  <2>1. n \in 1..2 /\ n > 0 /\ k = LastSpan
    BY <1>1, <1>4, <1>6
  <2>2. MatchedSpan(g, after) = [new |-> n, span |-> LastSpan]
    BY <1>1, <1>4, <2>1
  <2>3. /\ push.loc = [id |-> base + LastSpan + n, pos |-> 0]
        /\ push.released \in Seq(OrderItem)
        /\ \E H2, base2 : /\ Shape(H2, base2, push.guide, order \o push.released)
                          /\ Placed(H2, Extended(W, r, push.loc))
    <3>1. n \in 1..2
      BY <2>1
    <3>2. PushedAt([id |-> base + LastSpan + n, pos |-> 0], order, W, r, push)
      BY <1>3, <2>2, <3>1, PushInNewSpan
    <3> QED
      BY <3>2 DEF PushedAt
  <2>4. base + LastSpan + n \in Nat /\ base + LastSpan + n >= 1
    BY <1>2, <2>1
  <2>5. push.loc \in Location /\ push.loc.id >= 1
    BY <2>3, <2>4 DEF Location
  <2>6. MatchedLoc(H, base, m) = push.loc
    BY <1>4, <2>1, <2>3 DEF MatchedLoc
  <2> QED
    BY <1>1, <1>3, <2>3, <2>5, <2>6 DEF Pushed
<1> QED
  BY <1>5, <1>6

(* What flush does: the order gets everything.                              *)
Flushed(H, base, order, W, flush) ==
    /\ flush.released \in Seq(OrderItem)
    /\ Shape(H, base + GUIDE_SIZE, flush.guide, order \o flush.released)
    /\ Placed(H, W)
    /\ DOMAIN H = 0..(base + GUIDE_SIZE + LastSpan)
    /\ \A d \in DOMAIN H : d > base + LastSpan => H[d] = <<>>

LEMMA FlushShape ==
    ASSUME NEW H, NEW base, NEW g, NEW order, Shape(H, base, g, order),
           NEW W, Placed(H, W)
    PROVE  \E H2 : Flushed(H2, base, order, W, GuideFlush(g))
<1>1. PICK n \in 0..GUIDE_SIZE : n = GUIDE_SIZE
  BY GuideSizeAssumption
<1>2. PICK flush : flush = GuideFlush(g)
  OBVIOUS
<1>3. /\ flush.released = Released(CalculateParallelism(g, n), n)
      /\ flush.guide = ReleasedGuide(g, n)
  BY <1>1, <1>2 DEF GuideFlush, ReleasedGuide
<1>4. PICK H2 : H2 = AfterRelease(H, base, g, n)
  OBVIOUS
<1>5. Shape(H2, base + n, flush.guide, order \o flush.released)
  BY <1>3, <1>4, ReleaseShape
<1>6. Placed(H2, W)
  BY <1>4, PlacedRelease
<1>7. flush.released \in Seq(OrderItem)
  BY <1>3, ReleasedOrder
<1>8. DOMAIN H2 = 0..(base + n + LastSpan)
  BY <1>4, AfterReleaseValues
<1>9. \A d \in 0..(base + n + LastSpan) : d > base + LastSpan => H2[d] = <<>>
  BY <1>4, AfterReleaseValues
<1> QED
  BY <1>1, <1>2, <1>5, <1>6, <1>7, <1>8, <1>9 DEF Flushed

---------------------------------------------------------------------------
(* Of bounded locations there is a latest one.                              *)
LEMMA LatestLocExists ==
    ASSUME NEW locs \in SUBSET Location, locs # {}, NEW b \in Nat,
           NEW bound \in [0..b -> Nat],
           \A l \in locs : l.id <= b /\ l.pos <= bound[l.id]
    PROVE  LatestLoc(locs) \in locs /\ \A l \in locs : ~LocBefore(LatestLoc(locs), l)
<1> DEFINE ids == {l.id : l \in locs}
<1>1. \A l \in locs : l.id \in Nat /\ l.pos \in Nat /\ l.id \in 0..b
  BY DEF Location
<1>2. PICK i \in ids : \A j \in ids : j <= i
  <2>1. ids \in SUBSET (0..b) /\ ids # {} /\ 0 \in Int /\ b \in Int
    BY <1>1
  <2> HIDE DEF ids
  <2> QED
    BY <2>1, GreatestExists
<1> DEFINE poss == {p \in 0..bound[i] : \E l \in locs : l.id = i /\ l.pos = p}
<1>3. i \in 0..b /\ bound[i] \in Nat
  BY <1>1, <1>2
<1>4. PICK p \in poss : \A q \in poss : q <= p
  <2>1. poss \in SUBSET (0..bound[i]) /\ 0 \in Int /\ bound[i] \in Int
    BY <1>3
  <2>2. poss # {}
    <3>1. PICK l \in locs : l.id = i
      BY <1>2
    <3>2. l.pos \in 0..bound[i]
      BY <1>1, <1>3, <3>1
    <3> QED
      BY <3>1, <3>2
  <2> HIDE DEF poss
  <2> QED
    BY <1>3, <2>1, <2>2, GreatestExists
<1>5. PICK l \in locs : l.id = i /\ l.pos = p
  BY <1>4
<1>6. ASSUME NEW m \in locs PROVE ~LocBefore(l, m)
  <2>1. m.id \in ids /\ m.id <= i /\ m.id \in Nat /\ m.pos \in Nat /\ i \in Nat
    BY <1>1, <1>2, <1>3
  <2>2. CASE m.id = i
    <3>1. m.pos \in 0..bound[i]
      BY <1>1, <1>3, <2>2
    <3>2. m.pos \in poss
      BY <2>2, <3>1
    <3>3. m.pos <= p /\ p \in Nat
      BY <1>3, <1>4, <3>2
    <3> QED
      BY <1>5, <2>1, <2>2, <3>3 DEF LocBefore
  <2>3. CASE m.id # i
    BY <1>5, <2>1, <2>3 DEF LocBefore
  <2> QED
    BY <2>2, <2>3
<1>7. \E l1 \in locs : \A m \in locs : ~LocBefore(l1, m)
  BY <1>5, <1>6
<1>8. LatestLoc(locs) = CHOOSE l1 \in locs : \A m \in locs : ~LocBefore(l1, m)
  BY DEF LatestLoc
<1> QED
  BY <1>7, <1>8, Zenon

---------------------------------------------------------------------------
(* Where the items of the spans stand when the spans are written one after  *)
(* another: c[d] items come before span d.                                  *)
Starts(c, n, H) ==
    /\ c \in [0..n -> Nat] /\ c[0] = 0
    /\ \A d \in 0..(n - 1) : c[d + 1] = c[d] + Len(H[d])

LaidOut(c, n, H, all) ==
    /\ Starts(c, n, H)
    /\ all \in Seq(OrderItem) /\ Len(all) = c[n]
    /\ \A d \in 0..(n - 1) : \A q \in 1..Len(H[d]) : all[c[d] + q] = H[d][q]

LEMMA SpansLaidOut ==
    ASSUME NEW n \in Nat, NEW m \in Nat, n <= m + 1, NEW H \in [0..m -> Seq(OrderItem)]
    PROVE  \E c : LaidOut(c, n, H, FlattenSeq(FirstSpans(H, n)))
<1>1. PICK s : s = FirstSpans(H, n)
  OBVIOUS
<1>2. s \in [1..n -> Seq(OrderItem)] /\ \A k \in 1..n : s[k] = H[k - 1]
  <2>1. \A k \in 1..n : k - 1 \in 0..m
    OBVIOUS
  <2> QED
    BY <1>1, <2>1 DEF FirstSpans
<1>3a. PICK c \in [0..n -> Nat] : FlatLayout(c, n, s)
  BY <1>2, FlattenLayout
<1>3b. FlattenSeq(s) \in Seq(OrderItem)
  BY <1>2, FlattenType
<1>3. /\ c[0] = 0 /\ \A i \in 1..n : c[i] = c[i - 1] + Len(s[i])
      /\ Len(FlattenSeq(s)) = c[n]
      /\ \A i \in 1..n : \A q \in 1..Len(s[i]) : FlattenSeq(s)[c[i - 1] + q] = s[i][q]
  BY <1>3a DEF FlatLayout
<1>4. ASSUME NEW d \in 0..(n - 1)
      PROVE  /\ c[d + 1] = c[d] + Len(H[d])
             /\ \A q \in 1..Len(H[d]) : FlattenSeq(s)[c[d] + q] = H[d][q]
  <2>1. d + 1 \in 1..n /\ (d + 1) - 1 = d
    OBVIOUS
  <2>2. s[d + 1] = H[d]
    BY <1>2, <2>1
  <2> QED
    BY <1>3, <2>1, <2>2
<1>5. Starts(c, n, H)
  BY <1>3, <1>4 DEF Starts
<1>6. LaidOut(c, n, H, FlattenSeq(s))
  BY <1>3, <1>3b, <1>4, <1>5 DEF LaidOut
<1> QED
  BY <1>1, <1>6

LEMMA StartsMonotone ==
    ASSUME NEW n \in Nat, NEW m \in Nat, n <= m + 1, NEW H \in [0..m -> Seq(OrderItem)],
           NEW c, Starts(c, n, H), NEW d \in 0..n, NEW e \in 0..n, d <= e
    PROVE  c[d] <= c[e]
<1> DEFINE T == {i \in 0..(n - d) : c[d] <= c[d + i]}
<1>1. 0 \in T
  <2>1. c[d] \in Nat /\ d + 0 = d
    BY DEF Starts
  <2> QED
    BY <2>1
<1>2. ASSUME NEW i \in 0..(n - d - 1), i \in T PROVE i + 1 \in T
  <2>1. d + i \in 0..(n - 1) /\ (d + i) + 1 = d + (i + 1) /\ d + i \in 0..m
        /\ i + 1 \in 0..(n - d) /\ d + (i + 1) \in 0..n /\ d + i \in 0..n
    OBVIOUS
  <2>2. c[(d + i) + 1] = c[d + i] + Len(H[d + i])
    BY <2>1 DEF Starts
  <2>3. H[d + i] \in Seq(OrderItem)
    BY <2>1
  <2>4. PICK L \in Nat : L = Len(H[d + i])
    BY <2>3
  <2>5. PICK x, y, z \in Nat : x = c[d] /\ y = c[d + i] /\ z = c[d + (i + 1)]
    BY <2>1 DEF Starts
  <2>6. z = y + L
    BY <2>1, <2>2, <2>4, <2>5
  <2>7. x <= y
    BY <1>2, <2>5
  <2>8. x <= z
    BY <2>6, <2>7
  <2> QED
    BY <2>1, <2>5, <2>8
<1> HIDE DEF T
<1>3. n - d \in Nat /\ e - d \in 0..(n - d) /\ d + (e - d) = e
  OBVIOUS
<1>4. 0..(n - d) \subseteq T
  BY <1>1, <1>2, <1>3, UpTo
<1>5. e - d \in T
  BY <1>3, <1>4
<1> QED
  BY <1>3, <1>5 DEF T

InSpan(c, n, H, k) == \E d \in 0..(n - 1) : \E q \in 1..Len(H[d]) : k = c[d] + q

LEMMA Located ==
    ASSUME NEW n \in Nat, NEW m \in Nat, n <= m + 1, NEW H \in [0..m -> Seq(OrderItem)],
           NEW c, Starts(c, n, H), NEW k \in 1..c[n]
    PROVE  InSpan(c, n, H, k)
<1> DEFINE S == {i \in 0..n : c[i] >= k}
<1>1. c[n] \in Nat /\ n \in 0..n /\ c[0] = 0
  BY DEF Starts
<1>2. n \in S /\ S \in SUBSET Nat
  BY <1>1
<1>3. PICK i \in S : \A j \in S : i <= j
  <2> HIDE DEF S
  <2> QED
    BY <1>2, LeastExists
<1>4. i # 0 /\ i \in 0..n
  BY <1>1, <1>3
<1>5. PICK d \in 0..(n - 1) : i = d + 1 /\ d \in 0..n /\ d \in 0..m
  <2>1. i - 1 \in 0..(n - 1) /\ i = (i - 1) + 1 /\ i - 1 \in 0..n /\ i - 1 \in 0..m
    BY <1>4
  <2> QED
    BY <2>1
<1>6. d \notin S
  BY <1>3, <1>5
<1>7. PICK x, y \in Nat : x = c[d] /\ y = c[i]
  BY <1>4, <1>5 DEF Starts
<1>8. H[d] \in Seq(OrderItem)
  BY <1>5
<1>9. PICK L \in Nat : L = Len(H[d])
  BY <1>8
<1>10. y = x + L
  BY <1>5, <1>7, <1>9 DEF Starts
<1>11. k \in Nat /\ ~(x >= k) /\ y >= k
  BY <1>1, <1>3, <1>5, <1>6, <1>7
<1>12. k - x \in 1..L /\ k = x + (k - x)
  BY <1>10, <1>11
<1> QED
  BY <1>5, <1>7, <1>9, <1>12 DEF InSpan

(* An item in an earlier span, or earlier in its span, stands earlier; and  *)
(* the other way round.                                                     *)
LEMMA LaidOutOrder ==
    ASSUME NEW n \in Nat, NEW m \in Nat, n <= m + 1, NEW H \in [0..m -> Seq(OrderItem)],
           NEW c, Starts(c, n, H), NEW d \in 0..(n - 1), NEW q \in 1..Len(H[d]),
           NEW e \in 0..(n - 1), NEW p \in 1..Len(H[e]), c[d] + q < c[e] + p
    PROVE  d < e \/ (d = e /\ q < p)
<1>1. d \in Nat /\ e \in Nat /\ d \in 0..n /\ e \in 0..n /\ e + 1 \in 0..n /\ e \in 0..m /\ d \in 0..m
  OBVIOUS
<1>2. H[e] \in Seq(OrderItem) /\ H[d] \in Seq(OrderItem)
  BY <1>1
<1>3. PICK L, K \in Nat : L = Len(H[e]) /\ K = Len(H[d])
  BY <1>2
<1>4. q \in 1..K /\ p \in 1..L
  BY <1>3
<1>5. PICK x, y, z \in Nat : x = c[d] /\ y = c[e] /\ z = c[e + 1]
  BY <1>1 DEF Starts
<1>6. z = y + L
  BY <1>1, <1>3, <1>5 DEF Starts
<1>7. x + q < y + p
  BY <1>5
<1>8. CASE d = e
  <2>1. x = y
    BY <1>5, <1>8
  <2> QED
    BY <1>4, <1>7, <1>8, <2>1
<1>9. CASE d > e
  <2>1. e + 1 <= d
    BY <1>1, <1>9
  <2>2. z <= x
    BY <1>1, <1>5, <2>1, StartsMonotone
  <2> QED
    BY <1>4, <1>6, <1>7, <2>2
<1> QED
  BY <1>1, <1>8, <1>9

-----------------------------------------------------------------------------
(* The recording and the playback.                                          *)


(* Sequences without repetition and the sets of their elements.             *)
LEMMA ConcatOnce ==
    ASSUME NEW S, NEW s \in Seq(S), NEW t \in Seq(S)
    PROVE  /\ s \o t \in Seq(S)
           /\ ToSet(s \o t) = ToSet(s) \union ToSet(t)
           /\ IsInjective(s) /\ IsInjective(t) /\ ToSet(s) \intersect ToSet(t) = {}
                => IsInjective(s \o t)
<1>1. PICK u : u = s \o t
  OBVIOUS
<1>2. PICK m, n \in Nat : m = Len(s) /\ n = Len(t)
  BY LenProperties
<1>3. /\ u \in Seq(S) /\ Len(u) = m + n
      /\ \A i \in 1..(m + n) : u[i] = IF i <= m THEN s[i] ELSE t[i - m]
  BY <1>1, <1>2, ConcatProperties
<1>4. DOMAIN s = 1..m /\ DOMAIN t = 1..n /\ DOMAIN u = 1..(m + n)
  BY <1>2, <1>3, LenProperties
<1>5. ToSet(u) = ToSet(s) \union ToSet(t)
  <2>1. ASSUME NEW x \in ToSet(u) PROVE x \in ToSet(s) \union ToSet(t)
    <3>1. PICK i \in 1..(m + n) : x = u[i]
      BY <1>4, <2>1 DEF ToSet
    <3>2. CASE i <= m
      <4>1. i \in 1..m
        BY <3>2
      <4> QED
        BY <1>3, <1>4, <3>1, <3>2, <4>1 DEF ToSet
    <3>3. CASE ~(i <= m)
      <4>1. i - m \in 1..n
        BY <3>3
      <4> QED
        BY <1>3, <1>4, <3>1, <3>3, <4>1 DEF ToSet
    <3> QED
      BY <3>2, <3>3
  <2>2. ASSUME NEW x \in ToSet(s) PROVE x \in ToSet(u)
    <3>1. PICK i \in 1..m : x = s[i]
      BY <1>4, <2>2 DEF ToSet
    <3>2. i \in 1..(m + n) /\ i <= m
      OBVIOUS
    <3> QED
      BY <1>3, <1>4, <3>1, <3>2 DEF ToSet
  <2>3. ASSUME NEW x \in ToSet(t) PROVE x \in ToSet(u)
    <3>1. PICK i \in 1..n : x = t[i]
      BY <1>4, <2>3 DEF ToSet
    <3>2. m + i \in 1..(m + n) /\ ~(m + i <= m) /\ (m + i) - m = i
      OBVIOUS
    <3> QED
      BY <1>3, <1>4, <3>1, <3>2 DEF ToSet
  <2> QED
    BY <2>1, <2>2, <2>3
<1>6. ASSUME IsInjective(s), IsInjective(t), ToSet(s) \intersect ToSet(t) = {}
      PROVE  IsInjective(u)
  <2> SUFFICES ASSUME NEW i \in 1..(m + n), NEW j \in 1..(m + n), u[i] = u[j]
               PROVE  i = j
    BY <1>4 DEF IsInjective
  <2>0. \A a \in 1..m, b \in 1..n : s[a] # t[b]
    BY <1>4, <1>6 DEF ToSet
  <2>1. CASE i <= m /\ j <= m
    BY <1>3, <1>4, <1>6, <2>1 DEF IsInjective
  <2>2. CASE ~(i <= m) /\ ~(j <= m)
    <3>1. i - m \in 1..n /\ j - m \in 1..n
      BY <2>2
    <3>2. t[i - m] = t[j - m]
      BY <1>3, <2>2
    <3>3. i - m = j - m
      BY <1>4, <1>6, <3>1, <3>2 DEF IsInjective
    <3> QED
      BY <3>3
  <2>3. CASE i <= m /\ ~(j <= m)
    <3>1. i \in 1..m /\ j - m \in 1..n
      BY <2>3
    <3> QED
      BY <1>3, <2>0, <2>3, <3>1
  <2>4. CASE ~(i <= m) /\ j <= m
    <3>1. j \in 1..m /\ i - m \in 1..n
      BY <2>4
    <3> QED
      BY <1>3, <2>0, <2>4, <3>1
  <2> QED
    BY <2>1, <2>2, <2>3, <2>4
<1> QED
  BY <1>1, <1>3, <1>5, <1>6

LEMMA OneOnce ==
    ASSUME NEW S, NEW x \in S
    PROVE  <<x>> \in Seq(S) /\ ToSet(<<x>>) = {x} /\ IsInjective(<<x>>)
<1>1. <<x>> \in Seq(S) /\ DOMAIN <<x>> = {1} /\ <<x>>[1] = x
  OBVIOUS
<1> QED
  BY <1>1 DEF ToSet, IsInjective

LEMMA EmptyOnce == ToSet(<<>>) = {} /\ IsInjective(<<>>)
<1>1. DOMAIN <<>> = {}
  OBVIOUS
<1> QED
  BY <1>1 DEF ToSet, IsInjective

LEMMA NonemptySeq ==
    ASSUME NEW S, NEW s \in Seq(S)
    PROVE  s # <<>> <=> ToSet(s) # {}
<1>1. DOMAIN s = 1..Len(s) /\ Len(s) \in Nat
  BY LenProperties
<1>2. ASSUME s # <<>> PROVE ToSet(s) # {}
  <2>1. Len(s) \in Nat \ {0}
    BY <1>2, EmptySeq
  <2>2. 1 \in DOMAIN s
    BY <1>1, <2>1
  <2> QED
    BY <2>2 DEF ToSet
<1> QED
  BY <1>2, EmptyOnce

LEMMA AppendOnce ==
    ASSUME NEW S, NEW s \in Seq(S), NEW x \in S
    PROVE  /\ Append(s, x) \in Seq(S)
           /\ ToSet(Append(s, x)) = ToSet(s) \union {x}
           /\ IsInjective(s) /\ x \notin ToSet(s) => IsInjective(Append(s, x))
<1>1. <<x>> \in Seq(S) /\ ToSet(<<x>>) = {x} /\ IsInjective(<<x>>)
  BY OneOnce
<1>2. PICK t \in Seq(S) : t = <<x>>
  BY <1>1
<1>3. Append(s, x) = s \o t
  BY <1>2
<1>4. /\ s \o t \in Seq(S)
      /\ ToSet(s \o t) = ToSet(s) \union ToSet(t)
      /\ IsInjective(s) /\ IsInjective(t) /\ ToSet(s) \intersect ToSet(t) = {}
           => IsInjective(s \o t)
  BY ConcatOnce
<1> QED
  BY <1>1, <1>2, <1>3, <1>4

LEMMA TailOnce ==
    ASSUME NEW S, NEW s \in Seq(S), s # <<>>
    PROVE  /\ Head(s) \in S /\ Tail(s) \in Seq(S)
           /\ ToSet(s) = ToSet(Tail(s)) \union {Head(s)}
           /\ IsInjective(s) => IsInjective(Tail(s)) /\ Head(s) \notin ToSet(Tail(s))
<1>1. PICK t \in Seq(S), x \in S : t = Tail(s) /\ x = Head(s)
  BY HeadTailProperties
<1>2. PICK n \in Nat : n + 1 = Len(s)
  <2>1. Len(s) \in Nat \ {0}
    BY EmptySeq
  <2>2. Len(s) - 1 \in Nat /\ (Len(s) - 1) + 1 = Len(s)
    BY <2>1
  <2> QED
    BY <2>2
<1>3. /\ DOMAIN s = 1..(n + 1) /\ DOMAIN t = 1..n
      /\ s[1] = x /\ \A i \in 1..n : t[i] = s[i + 1]
  BY <1>1, <1>2
<1>4. ToSet(s) = ToSet(t) \union {x}
  <2>1. ASSUME NEW y \in ToSet(s) PROVE y \in ToSet(t) \union {x}
    <3>1. PICK i \in 1..(n + 1) : y = s[i]
      BY <1>3, <2>1 DEF ToSet
    <3>2. CASE i = 1
      BY <1>3, <3>1, <3>2
    <3>3. CASE i # 1
      <4>1. i - 1 \in 1..n /\ (i - 1) + 1 = i
        BY <3>3
      <4> QED
        BY <1>3, <3>1, <4>1 DEF ToSet
    <3> QED
      BY <3>2, <3>3
  <2>2. ASSUME NEW y \in ToSet(t) PROVE y \in ToSet(s)
    <3>1. PICK i \in 1..n : y = t[i]
      BY <1>3, <2>2 DEF ToSet
    <3>2. i + 1 \in 1..(n + 1)
      OBVIOUS
    <3> QED
      BY <1>3, <3>1, <3>2 DEF ToSet
  <2>3. x \in ToSet(s)
    <3>1. 1 \in 1..(n + 1)
      OBVIOUS
    <3> QED
      BY <1>3, <3>1 DEF ToSet
  <2> QED
    BY <2>1, <2>2, <2>3
<1>5. ASSUME IsInjective(s) PROVE IsInjective(t) /\ x \notin ToSet(t)
  <2>1. \A i \in 1..n : i + 1 \in 1..(n + 1) /\ i + 1 # 1
    OBVIOUS
  <2>2. 1 \in 1..(n + 1)
    OBVIOUS
  <2>3. ASSUME NEW i \in 1..n, NEW j \in 1..n, t[i] = t[j] PROVE i = j
    <3>1. i + 1 = j + 1
      BY <1>3, <1>5, <2>1, <2>3 DEF IsInjective
    <3> QED
      BY <3>1
  <2>4. \A i \in 1..n : t[i] # x
    BY <1>3, <1>5, <2>1, <2>2 DEF IsInjective
  <2> QED
    BY <1>3, <2>3, <2>4 DEF IsInjective, ToSet
<1> QED
  BY <1>1, <1>4, <1>5

LEMMA FrontOnce ==
    ASSUME NEW S, NEW s \in Seq(S), s # <<>>
    PROVE  /\ Last(s) \in S /\ Front(s) \in Seq(S)
           /\ ToSet(s) = ToSet(Front(s)) \union {Last(s)}
           /\ IsInjective(s) => IsInjective(Front(s)) /\ Last(s) \notin ToSet(Front(s))
<1>1. PICK n \in Nat : n + 1 = Len(s)
  <2>1. Len(s) \in Nat \ {0}
    BY EmptySeq
  <2>2. Len(s) - 1 \in Nat /\ (Len(s) - 1) + 1 = Len(s)
    BY <2>1
  <2> QED
    BY <2>2
<1>2. DOMAIN s = 1..(n + 1) /\ \A i \in 1..(n + 1) : s[i] \in S
  BY <1>1
<1>3. Front(s) = SubSeq(s, 1, n) /\ Last(s) = s[n + 1]
  <2>1. Len(s) - 1 = n
    BY <1>1
  <2> QED
    BY <1>1, <2>1 DEF Front, Last
<1>4. PICK t : t = SubSeq(s, 1, n)
  OBVIOUS
<1>5. t \in Seq(S) /\ Len(t) = n /\ \A i \in 1..n : t[i] = s[i]
  BY <1>1, <1>2, <1>4
<1>6. DOMAIN t = 1..n /\ n + 1 \in 1..(n + 1)
  BY <1>5
<1>7. ToSet(s) = ToSet(t) \union {s[n + 1]}
  <2>1. \A i \in 1..(n + 1) : i \in 1..n \/ i = n + 1
    OBVIOUS
  <2>2. \A i \in 1..n : i \in 1..(n + 1)
    OBVIOUS
  <2> QED
    BY <1>2, <1>5, <1>6, <2>1, <2>2 DEF ToSet
<1>8. ASSUME IsInjective(s) PROVE IsInjective(t) /\ s[n + 1] \notin ToSet(t)
  <2>1. \A i \in 1..n : i \in 1..(n + 1) /\ i # n + 1
    OBVIOUS
  <2> QED
    BY <1>2, <1>5, <1>6, <1>8, <2>1 DEF IsInjective, ToSet
<1> QED
  BY <1>2, <1>3, <1>4, <1>5, <1>6, <1>7, <1>8

---------------------------------------------------------------------------
(* Whatever order the hash map gives, the resolvers woken are those under   *)
(* the places up to the one advanced to, each of them once.                 *)
DelayedOnce(del) ==
    /\ del \in [Places -> Seq(Nat)]
    /\ \A v \in Places : IsInjective(del[v])
    /\ \A v, w \in Places : v # w => ToSet(del[v]) \intersect ToSet(del[w]) = {}

WokenBy(del, to) == UNION {ToSet(del[v]) : v \in {u \in Places : u <= to}}

LEMMA PlacesFinite == IsFiniteSet(Places)
<1>1. NumPlaces \in Nat /\ 0 \in Int /\ NumPlaces - 1 \in Int
  BY SorterAssumption
<1> QED
  BY <1>1, FS_Interval DEF Places

LEMMA WokenOnce ==
    ASSUME NEW to \in Int, NEW woken \in AdvanceOrders(to), DelayedOnce(delayed)
    PROVE  woken \in Seq(Nat) /\ IsInjective(woken) /\ ToSet(woken) = WokenBy(delayed, to)
<1>1. PICK A : A = Awakened(to)
  OBVIOUS
<1>2. A \in SUBSET Places /\ \A v \in Places : v \in A <=> v <= to /\ delayed[v] # <<>>
  BY <1>1 DEF Awakened
<1>3. IsFiniteSet(A) /\ Cardinality(A) \in Nat
  BY <1>2, PlacesFinite, FS_Subset, FS_CardinalityType
<1>4. PICK n \in Nat : n = Cardinality(A)
  BY <1>3
<1>5. PICK o \in SetToSeqs(A) : woken = FlattenSeq([k \in DOMAIN o |-> delayed[o[k]]])
  BY <1>1 DEF AdvanceOrders
<1>6. o \in [1..n -> A] /\ \A i, j \in 1..n : i # j => o[i] # o[j]
  BY <1>4, <1>5 DEF SetToSeqs
<1>7. \A v \in A : \E i \in 1..n : o[i] = v
  <2>1. o \in Injection(1..n, A)
    BY <1>6 DEF Injection, IsInjective
  <2>2. Cardinality(1..n) = n
    <3>1. 1 \in Int /\ n \in Int
      OBVIOUS
    <3>2. Cardinality(1..n) = IF 1 > n THEN 0 ELSE n - 1 + 1
      BY <3>1, FS_Interval
    <3> QED
      BY <3>2
  <2>3. Cardinality(1..n) = Cardinality(A) <=> o \in Surjection(1..n, A)
    BY <1>3, <2>1, FS_Injection
  <2> QED
    BY <1>4, <2>2, <2>3 DEF Surjection
<1>8. PICK s : s = [k \in 1..n |-> delayed[o[k]]]
  OBVIOUS
<1>9. s \in [1..n -> Seq(Nat)] /\ \A k \in 1..n : s[k] = delayed[o[k]]
  <2>1. \A k \in 1..n : delayed[o[k]] \in Seq(Nat)
    BY <1>2, <1>6 DEF DelayedOnce
  <2> QED
    BY <1>8, <2>1
<1>10. woken = FlattenSeq(s)
  BY <1>5, <1>6, <1>8
<1>11. woken \in Seq(Nat)
  <2>1. FlattenSeq(s) \in Seq(Nat)
    BY <1>9, FlattenType
  <2> QED
    BY <1>10, <2>1
<1>12. PICK f \in [0..n -> Seq(Nat)] : Flattens(f, n, s) /\ FlattenSeq(s) = f[n]
  BY <1>9, FlattenUnfolds
<1> DEFINE Upto(m) == UNION {ToSet(s[k]) : k \in 1..m}
           T == {m \in 0..n : IsInjective(f[m]) /\ ToSet(f[m]) = Upto(m)}
<1>13. 0 \in T
  <2>1. f[0] = <<>>
    BY <1>12 DEF Flattens
  <2>2. Upto(0) = {}
    OBVIOUS
  <2> QED
    BY <2>1, <2>2, EmptyOnce
<1>14. ASSUME NEW i \in 0..(n - 1), i \in T PROVE i + 1 \in T
  <2>1. i \in Nat /\ i + 1 \in 1..n /\ i + 1 \in 0..n /\ i \in 0..n /\ (i + 1) - 1 = i
    OBVIOUS
  <2>2. PICK a, b \in Seq(Nat) : a = f[i] /\ b = s[i + 1]
    BY <1>9, <2>1
  <2>3. f[i + 1] = a \o b
    BY <1>12, <2>1, <2>2 DEF Flattens
  <2>4. IsInjective(a) /\ ToSet(a) = Upto(i)
    BY <1>14, <2>2
  <2>5. IsInjective(b)
    BY <1>2, <1>6, <1>9, <2>1, <2>2 DEF DelayedOnce
  <2>6. ToSet(a) \intersect ToSet(b) = {}
    <3>1. ASSUME NEW k \in 1..i PROVE ToSet(s[k]) \intersect ToSet(b) = {}
      <4>1. k \in 1..n /\ k # i + 1
        BY <2>1
      <4>2. o[k] \in Places /\ o[i + 1] \in Places /\ o[k] # o[i + 1]
        BY <1>2, <1>6, <2>1, <4>1
      <4> QED
        BY <1>9, <2>1, <2>2, <4>1, <4>2 DEF DelayedOnce
    <3> QED
      BY <2>4, <3>1
  <2>7. Upto(i + 1) = Upto(i) \union ToSet(b)
    <3>1. \A k \in 1..(i + 1) : k \in 1..i \/ k = i + 1
      BY <2>1
    <3>2. \A k \in 1..i : k \in 1..(i + 1)
      BY <2>1
    <3>3. i + 1 \in 1..(i + 1)
      BY <2>1
    <3> QED
      BY <2>2, <3>1, <3>2, <3>3
  <2>8. /\ ToSet(a \o b) = ToSet(a) \union ToSet(b)
        /\ IsInjective(a) /\ IsInjective(b) /\ ToSet(a) \intersect ToSet(b) = {}
             => IsInjective(a \o b)
    BY ConcatOnce
  <2> QED
    BY <2>1, <2>3, <2>4, <2>5, <2>6, <2>7, <2>8
<1>15. n \in T
  <2> HIDE DEF T
  <2>1. 0..n \subseteq T
    BY <1>13, <1>14, UpTo
  <2> QED
    BY <2>1
<1>16. IsInjective(woken) /\ ToSet(woken) = Upto(n)
  BY <1>10, <1>12, <1>15
<1>17. Upto(n) = WokenBy(delayed, to)
  <2>1. ASSUME NEW x \in Upto(n) PROVE x \in WokenBy(delayed, to)
    <3>1. PICK k \in 1..n : x \in ToSet(delayed[o[k]])
      BY <1>9, <2>1
    <3> QED
      BY <1>2, <1>6, <3>1 DEF WokenBy
  <2>2. ASSUME NEW x \in WokenBy(delayed, to) PROVE x \in Upto(n)
    <3>1. PICK v \in Places : v <= to /\ x \in ToSet(delayed[v])
      BY <2>2 DEF WokenBy
    <3>2. delayed[v] # <<>>
      BY <3>1, EmptyOnce
    <3>3. v \in A
      BY <1>2, <3>1, <3>2
    <3>4. PICK i \in 1..n : o[i] = v
      BY <1>7, <3>3
    <3> QED
      BY <1>9, <3>1, <3>4
  <2> QED
    BY <2>1, <2>2
<1> QED
  BY <1>11, <1>16, <1>17

(* What is left after the registrar has advanced.                           *)
DelayedAfter(del, to) == [v \in Places |-> IF v <= to THEN <<>> ELSE del[v]]

LEMMA RegistrarAdvanced ==
    ASSUME NEW to \in Int, to >= -1, max_tracked \in Int, max_tracked >= -1,
           to >= max_tracked, max_tracked_variable = max_tracked,
           delayed \in [Places -> Seq(Nat)], RegistrarAdvance(to)
    PROVE  delayed' = DelayedAfter(delayed, to) /\ max_tracked_variable' = to
<1>1. CASE to < 0
  <2>1. \A v \in Places : ~(v <= to)
    BY <1>1, SorterAssumption DEF Places
  <2>2. delayed' = delayed /\ max_tracked_variable' = max_tracked
    BY <1>1 DEF RegistrarAdvance
  <2> QED
    BY <1>1, <2>1, <2>2 DEF DelayedAfter
<1>2. CASE ~(to < 0)
  BY <1>2 DEF RegistrarAdvance, DelayedAfter
<1> QED
  BY <1>1, <1>2

LEMMA LargestExists ==
    ASSUME NEW a \in Int, NEW b \in Int, NEW S \in SUBSET (a..b), S # {}
    PROVE  LargestPlace(S) \in S /\ \A w \in S : w <= LargestPlace(S)
<1>1. \E v \in S : \A w \in S : w <= v
  BY GreatestExists
<1> QED
  BY <1>1 DEF LargestPlace

(* advance_track extends the tracked prefix as far as it goes.              *)
AdvancedTo(trk, from, to) ==
    /\ to \in Int /\ to >= from /\ to < NumPlaces
    /\ \A v \in Places : from < v /\ v <= to => trk[v] # None
    /\ to + 1 \in Places => trk[to + 1] = None

LEMMA TrackAdvanced ==
    ASSUME NEW trk, max_tracked \in -1..(NumPlaces - 1)
    PROVE  AdvancedTo(trk, max_tracked, AdvanceTrack(trk))
<1>1. PICK m \in Int, N \in Nat : m = max_tracked /\ N = NumPlaces /\ m >= -1 /\ m < N
  BY SorterAssumption
<1> DEFINE prefix == {n \in (m + 1)..N : \A v \in (m + 1)..(n - 1) : trk[v] # None}
<1>2. PICK P : P = prefix
  OBVIOUS
<1>3. P \in SUBSET ((m + 1)..N) /\ m + 1 \in P
  BY <1>1, <1>2
<1>4. PICK x \in P : x = LargestPlace(P) /\ \A w \in P : w <= x
  <2>1. P # {} /\ m + 1 \in Int /\ N \in Int
    BY <1>3
  <2> QED
    BY <1>3, <2>1, LargestExists
<1>5. AdvanceTrack(trk) = x - 1
  BY <1>1, <1>2, <1>4 DEF AdvanceTrack
<1>6. x \in (m + 1)..N /\ \A v \in (m + 1)..(x - 1) : trk[v] # None
  BY <1>2, <1>4
<1>7. x \in Places => trk[x] = None
  <2> SUFFICES ASSUME x \in Places, trk[x] # None PROVE FALSE
    OBVIOUS
  <2>1. x + 1 \in (m + 1)..N
    BY <1>1, <1>6 DEF Places
  <2>2. \A v \in (m + 1)..((x + 1) - 1) : v = x \/ v \in (m + 1)..(x - 1)
    BY <1>6
  <2>3. x + 1 \in P
    BY <1>2, <1>6, <2>1, <2>2
  <2> QED
    BY <1>4, <1>6, <2>3
<1>8. PICK y \in Int : y = x - 1 /\ y + 1 = x
  <2>1. x - 1 \in Int /\ (x - 1) + 1 = x
    BY <1>6
  <2> QED
    BY <2>1
<1>9. y >= m /\ y < N
  BY <1>1, <1>6, <1>8
<1>10. ASSUME NEW v \in Places, m < v, v <= y PROVE trk[v] # None
  <2>1. v \in (m + 1)..(x - 1)
    BY <1>1, <1>6, <1>8, <1>10 DEF Places
  <2> QED
    BY <1>6, <2>1
<1> QED
  BY <1>1, <1>5, <1>7, <1>8, <1>9, <1>10 DEF AdvancedTo

---------------------------------------------------------------------------
(* The inductive invariant.  W is the location each resolver got when it    *)
(* was pushed; a resolver is either placed or waits in exactly one queue.   *)
Resolver == [inputs : SUBSET Places, outputs : SUBSET Places]

Known == 0..(Len(resolvers) - 1)

SorterTypes ==
    /\ plan \in Seq(Call) /\ resolvers \in Seq(Resolver)
    /\ tracker \in [Places -> Location \union {None}]
    /\ is_set \in SUBSET Places
    /\ max_tracked \in -1..(NumPlaces - 1) /\ max_tracked_variable = max_tracked
    /\ delayed \in [Places -> Seq(Nat)] /\ pending \in Seq(Nat) /\ stack \in Seq(Nat)
    /\ registrations_added \in Nat
    /\ phase \in {"calls", "adding", "recorded", "panicked"}
    /\ Len(resolvers) = IF phase = "adding" THEN registrations_added + 1
                        ELSE registrations_added
    /\ phase # "calls" => pending = <<>>
    /\ phase \in {"recorded", "panicked"} => stack = <<>> /\ plan = <<>>

(* No place is given twice.                                                 *)
GivenOnce ==
    /\ \A i, j \in DOMAIN plan : i # j => Gives(plan[i]) \intersect Gives(plan[j]) = {}
    /\ \A i \in DOMAIN plan : Gives(plan[i]) \intersect is_set = {}
    /\ \A i \in DOMAIN plan, r \in Known : Gives(plan[i]) \intersect OutputsOf(r) = {}
    /\ \A r \in Known : OutputsOf(r) \intersect is_set = {}
    /\ \A q, r \in Known : q # r => OutputsOf(q) \intersect OutputsOf(r) = {}

(* The guide's spans and the order are laid out as W says.                  *)
Sorted(W) ==
    \E H, base :
        /\ Shape(H, base, guide, exec_order) /\ Placed(H, W)
        /\ phase = "recorded" => \A d \in DOMAIN H : d >= base => H[d] = <<>>

Held(del) == UNION {ToSet(del[v]) : v \in Places}

WaitingOnce(W, known, stk, pnd, del) ==
    /\ DelayedOnce(del) /\ IsInjective(stk) /\ IsInjective(pnd)
    /\ ToSet(stk) \intersect ToSet(pnd) = {}
    /\ Held(del) \intersect ToSet(stk) = {} /\ Held(del) \intersect ToSet(pnd) = {}
    /\ ToSet(stk) \subseteq known /\ ToSet(pnd) \subseteq known /\ Held(del) \subseteq known
    /\ DOMAIN W = known \ (ToSet(stk) \union ToSet(pnd) \union Held(del))

(* The tracked places reach up to max_tracked; resolvers that are awake     *)
(* need only places up to it, the others are held under their largest.      *)
Prefix ==
    /\ \A v \in Places : v <= max_tracked => tracker[v] # None
    /\ max_tracked + 1 \in Places => tracker[max_tracked + 1] = None

HeldRight ==
    /\ \A r \in ToSet(stack) \union ToSet(pending) :
            \A v \in InputsOf(r) : v <= max_tracked
    /\ \A v \in Places : \A r \in ToSet(delayed[v]) :
            v > max_tracked /\ v \in InputsOf(r) /\ \A u \in InputsOf(r) : u <= v

(* A placed resolver stands behind everything it needs, and its location is *)
(* that of its outputs.                                                     *)
Settled(W) ==
    /\ \A r \in DOMAIN W :
        /\ W[r].id >= 1
        /\ \A v \in OutputsOf(r) : tracker[v] = W[r]
        /\ \A v \in InputsOf(r) : tracker[v] \in Location /\ Follows(tracker[v], W[r])
        /\ GivesAbove(resolvers[r + 1])
    /\ \A v \in is_set : tracker[v] = DefaultLoc
    /\ \A v \in Places : tracker[v] # None =>
            v \in is_set \/ \E r \in DOMAIN W : v \in OutputsOf(r)

Sorting(W) ==
    /\ Sorted(W) /\ WaitingOnce(W, Known, stack, pending, delayed) /\ Settled(W)

SorterInv ==
    /\ SorterTypes /\ GivenOnce /\ Prefix /\ HeldRight
    /\ \E W : Sorting(W)

LEMMA LocationNotNone == \A l \in Location : l # None
BY NoneAssumption DEF Location

LEMMA DefaultLocation == DefaultLoc \in Location
BY DEF DefaultLoc, Location

LEMMA CallCases ==
    ASSUME NEW c \in Call
    PROVE  \/ c.op = "set" /\ c.key \in Places /\ Gives(c) = {c.key}
                /\ c.inputs = {} /\ c.outputs = {}
           \/ c.op = "add" /\ c.inputs \in SUBSET Places /\ c.outputs \in SUBSET Places
                /\ Gives(c) = c.outputs
<1>1. CASE \E v \in Places : c = SetCall(v)
  BY <1>1 DEF SetCall, Gives
<1>2. CASE \E ins, outs \in SUBSET Places : c = AddCall(ins, outs)
  BY <1>2 DEF AddCall, Gives
<1> QED
  BY <1>1, <1>2 DEF Call

LEMMA KnownResolver ==
    ASSUME SorterTypes, NEW r \in Known
    PROVE  resolvers[r + 1] \in Resolver /\ InputsOf(r) \in SUBSET Places
           /\ OutputsOf(r) \in SUBSET Places /\ r \in Nat
<1>1. resolvers \in Seq(Resolver) /\ Len(resolvers) \in Nat
  BY DEF SorterTypes
<1>2. r + 1 \in 1..Len(resolvers) /\ r \in Nat
  BY <1>1 DEF Known
<1>3. resolvers[r + 1] \in Resolver
  BY <1>1, <1>2
<1> QED
  BY <1>2, <1>3 DEF Resolver, InputsOf, OutputsOf

LEMMA WriteReleasedAppends ==
    ASSUME NEW order \in Seq(OrderItem), NEW released \in Seq(OrderItem)
    PROVE  WriteReleased(order, Len(order), released) = order \o released
<1>1. PICK m, n \in Nat : m = Len(order) /\ n = Len(released)
  OBVIOUS
<1>2. DOMAIN order = 1..m /\ DOMAIN released = 1..n
  BY <1>1
<1>3. PICK u \in Seq(OrderItem) : u = order \o released
  BY ConcatProperties
<1>4. /\ Len(u) = m + n
      /\ \A i \in 1..(m + n) : u[i] = IF i <= m THEN order[i] ELSE released[i - m]
  BY <1>1, <1>3, ConcatProperties
<1>5. \A i \in 1..(m + n) : i - m \in 1..n <=> ~(i <= m)
  OBVIOUS
<1>6. u = [k \in 1..(m + n) |-> u[k]]
  BY <1>4
<1>7. [k \in 1..(m + n) |-> u[k]]
        = [k \in 1..(m + n) |-> IF k - m \in DOMAIN released THEN released[k - m] ELSE order[k]]
  BY <1>2, <1>4, <1>5
<1> QED
  BY <1>1, <1>3, <1>6, <1>7 DEF WriteReleased

LEMMA ShapeOrder ==
    ASSUME NEW H, NEW base, NEW g, NEW order, Shape(H, base, g, order)
    PROVE  order \in Seq(OrderItem) /\ g.next_target = Len(order)
<1>1. base \in Nat /\ LastSpan \in Nat /\ H \in [0..(base + LastSpan) -> Seq(OrderItem)]
  BY LastSpanType DEF Shape
<1>2. \A k \in 1..base : k - 1 \in 0..(base + LastSpan)
  BY <1>1
<1>3. PICK s : s = FirstSpans(H, base)
  OBVIOUS
<1>4. s \in [1..base -> Seq(OrderItem)]
  BY <1>1, <1>2, <1>3 DEF FirstSpans
<1>5. FlattenSeq(s) \in Seq(OrderItem)
  BY <1>1, <1>4, FlattenType
<1> QED
  BY <1>3, <1>5 DEF Shape

LEMMA OrderWritten ==
    ASSUME NEW H, NEW base, Shape(H, base, guide, exec_order),
           NEW released \in Seq(OrderItem)
    PROVE  OrderAfter(released) = exec_order \o released
<1>1. exec_order \in Seq(OrderItem) /\ guide.next_target = Len(exec_order)
  BY ShapeOrder
<1>2. WriteReleased(exec_order, Len(exec_order), released) = exec_order \o released
  BY <1>1, WriteReleasedAppends
<1> QED
  BY <1>1, <1>2 DEF OrderAfter

---------------------------------------------------------------------------
(* The registrar hands over the resolvers it wakes.                         *)
LEMMA DelayedSplit ==
    ASSUME NEW del, DelayedOnce(del), NEW to \in Int
    PROVE  /\ DelayedOnce(DelayedAfter(del, to))
           /\ Held(del) = WokenBy(del, to) \union Held(DelayedAfter(del, to))
           /\ WokenBy(del, to) \intersect Held(DelayedAfter(del, to)) = {}
<1>1. PICK d2 : d2 = DelayedAfter(del, to)
  OBVIOUS
<1>2. \A v \in Places : d2[v] = IF v <= to THEN <<>> ELSE del[v]
  BY <1>1 DEF DelayedAfter
<1>3. \A v \in Places : ToSet(d2[v]) = IF v <= to THEN {} ELSE ToSet(del[v])
  BY <1>2, EmptyOnce
<1>4. d2 \in [Places -> Seq(Nat)]
  <2>1. <<>> \in Seq(Nat)
    OBVIOUS
  <2> QED
    BY <1>1, <2>1 DEF DelayedAfter, DelayedOnce
<1>5. \A v \in Places : IsInjective(d2[v])
  BY <1>2, EmptyOnce DEF DelayedOnce
<1>6. DelayedOnce(d2)
  BY <1>3, <1>4, <1>5 DEF DelayedOnce
<1>7. Held(del) = WokenBy(del, to) \union Held(d2)
  BY <1>3 DEF Held, WokenBy
<1>8. WokenBy(del, to) \intersect Held(d2) = {}
  BY <1>3 DEF Held, WokenBy, DelayedOnce
<1> QED
  BY <1>1, <1>6, <1>7, <1>8

---------------------------------------------------------------------------
LEMMA NewGuideShape ==
    ASSUME NEW p \in Nat \ {0}
    PROVE  \E H : /\ Shape(H, 0, NewGuide(p), <<>>)
                  /\ \A W : DOMAIN W = {} => Placed(H, W)
<1>1. PICK n \in Nat : n = LastSpan /\ 0 + LastSpan = n
  BY LastSpanType
<1>2. PICK H : H = [d \in 0..n |-> <<>>]
  OBVIOUS
<1>3. H \in [0..n -> Seq(OrderItem)] /\ \A d \in 0..n : H[d] = <<>> /\ Len(H[d]) = 0
  BY <1>2
<1>4. PICK g : g = NewGuide(p)
  OBVIOUS
<1>5. /\ g.parallelism = p /\ g.next_target = 0 /\ DOMAIN g.spans = 0..n
      /\ \A i \in 0..n : g.spans[i] = NewSpan(i)
  BY <1>1, <1>4 DEF NewGuide, SpanIxs
<1>6. \A i \in 0..n : NewSpan(i) \in [id : Nat, buffer : Seq(OrderItem)]
  <2>1. <<>> \in Seq(OrderItem)
    OBVIOUS
  <2> QED
    BY <2>1 DEF NewSpan
<1>7. g \in Guides
  <2>1. [i \in SpanIxs |-> NewSpan(i)] \in Spans
    BY <1>1, <1>6 DEF Spans, SpanIxs
  <2> QED
    BY <1>4, <2>1 DEF NewGuide, Guides
<1>8. InGuide(H, 0, g)
  <2>1. \A i \in SpanIxs : 0 + i = i /\ i \in 0..n
    BY <1>1 DEF SpanIxs
  <2>2. \A i \in SpanIxs : g.spans[i].id = 0 + i /\ g.spans[i].buffer = H[0 + i]
    <3> SUFFICES ASSUME NEW i \in SpanIxs
                 PROVE  g.spans[i].id = 0 + i /\ g.spans[i].buffer = H[0 + i]
      OBVIOUS
    <3>1. g.spans[i] = NewSpan(i) /\ 0 + i = i /\ H[i] = <<>>
      BY <1>3, <1>5, <2>1
    <3>2. NewSpan(i).id = i /\ NewSpan(i).buffer = <<>>
      BY DEF NewSpan
    <3> QED
      BY <3>1, <3>2
  <2>3. \A d \in 0..n : \A q \in 1..Len(H[d]) : FALSE
    BY <1>3
  <2> QED
    BY <1>1, <2>2, <2>3 DEF InGuide
<1>9. Windows(H, 0)
  BY DEF Windows
<1>10. FlattenSeq(FirstSpans(H, 0)) = <<>>
  <2>1. FirstSpans(H, 0) \in [1..0 -> Seq({})]
    BY DEF FirstSpans
  <2> QED
    BY <2>1, FlattenEmpty
<1>11. Shape(H, 0, g, <<>>)
  BY <1>1, <1>3, <1>5, <1>7, <1>8, <1>9, <1>10 DEF Shape
<1>12. \A W : DOMAIN W = {} => Placed(H, W)
  <2>1. DOMAIN H = 0..n
    BY <1>3
  <2>2. \A d \in 0..n : 1..Len(H[d]) = {}
    BY <1>3
  <2> QED
    BY <2>1, <2>2 DEF Placed
<1> QED
  BY <1>4, <1>11, <1>12

LEMMA SorterInitInv == SorterInit => SorterInv
<1> SUFFICES ASSUME SorterInit PROVE SorterInv
  OBVIOUS
<1>1. plan \in Seq(Call) /\ PlanLegal(plan)
  BY SorterAssumption DEF SorterInit
<1>2. Len(resolvers) = 0 /\ Known = {}
  BY DEF SorterInit, Known
<1>3. SorterTypes
  <2>1. <<>> \in Seq(Nat) /\ <<>> \in Seq(Resolver)
    OBVIOUS
  <2>2. -1 \in -1..(NumPlaces - 1)
    BY SorterAssumption
  <2> QED
    BY <1>1, <1>2, <2>1, <2>2 DEF SorterInit, SorterTypes
<1>4. GivenOnce
  BY <1>1, <1>2 DEF SorterInit, GivenOnce, PlanLegal
<1>5. Prefix
  <2>1. \A v \in Places : ~(v <= -1)
    BY SorterAssumption DEF Places
  <2> QED
    BY <2>1 DEF Prefix, SorterInit
<1>6. \A v \in Places : ToSet(delayed[v]) = {} /\ IsInjective(delayed[v])
  BY EmptyOnce DEF SorterInit
<1>7. HeldRight
  BY <1>6, EmptyOnce DEF SorterInit, HeldRight
<1>8. PICK W : W = [r \in {} |-> DefaultLoc]
  OBVIOUS
<1>9. DOMAIN W = {}
  BY <1>8
<1>10. Sorted(W)
  <2>1. PICK p \in Parallelisms : guide = NewGuide(p)
    BY DEF SorterInit
  <2>2. p \in Nat \ {0}
    BY SorterAssumption
  <2>3. PICK H : Shape(H, 0, NewGuide(p), <<>>) /\ \A V : DOMAIN V = {} => Placed(H, V)
    BY <2>2, NewGuideShape
  <2> QED
    BY <1>9, <2>1, <2>3 DEF Sorted, SorterInit
<1>11. WaitingOnce(W, Known, stack, pending, delayed)
  <2>1. DelayedOnce(delayed) /\ Held(delayed) = {}
    <3>1. <<>> \in Seq(Nat)
      OBVIOUS
    <3> QED
      BY <1>6, <3>1 DEF DelayedOnce, Held, SorterInit
  <2> QED
    BY <1>2, <1>9, <2>1, EmptyOnce DEF SorterInit, WaitingOnce
<1>12. Settled(W)
  BY <1>9 DEF Settled, SorterInit
<1> QED
  BY <1>3, <1>4, <1>5, <1>7, <1>10, <1>11, <1>12 DEF SorterInv, Sorting

(* A step that leaves the recording side alone.                             *)
LEMMA SorterUnchanged ==
    ASSUME SorterInv, UNCHANGED sorterVars PROVE SorterInv'
<1> USE DEF sorterVars
<1>1. Known' = Known /\ SorterTypes' = SorterTypes /\ Prefix' = Prefix
  BY DEF Known, SorterTypes, Prefix
<1>2. \A r : InputsOf(r)' = InputsOf(r) /\ OutputsOf(r)' = OutputsOf(r)
  BY DEF InputsOf, OutputsOf
<1>3. GivenOnce' /\ HeldRight'
  BY <1>1, <1>2 DEF GivenOnce, HeldRight, SorterInv
<1>4. PICK W : Sorting(W)
  BY DEF SorterInv
<1>5. Sorted(W)'
  BY <1>4 DEF Sorting, Sorted
<1>6. Settled(W)'
  BY <1>2, <1>4 DEF Sorting, Settled
<1>7. WaitingOnce(W, Known, stack, pending, delayed)'
  BY <1>1, <1>4 DEF Sorting
<1> QED
  BY <1>1, <1>3, <1>5, <1>6, <1>7 DEF SorterInv, Sorting

(* set_value's loop takes the next resolver it woke.                        *)
LEMMA InternalizeNextInv ==
    ASSUME SorterInv, InternalizeNext PROVE SorterInv'
<1>0. SorterTypes /\ stack = <<>> /\ pending # <<>> /\ pending \in Seq(Nat)
      /\ phase \in {"calls", "adding", "recorded", "panicked"} /\ phase = "calls"
  BY DEF SorterInv, SorterTypes, InternalizeNext
<1>1. PICK h \in Nat, t \in Seq(Nat) : h = Head(pending) /\ t = Tail(pending)
  BY <1>0, TailOnce
<1>2. stack' = <<h>> /\ pending' = t
  BY <1>1 DEF InternalizeNext
<1>3. PICK W : Sorting(W)
  BY DEF SorterInv
<1>4. /\ <<h>> \in Seq(Nat) /\ ToSet(<<h>>) = {h} /\ IsInjective(<<h>>)
      /\ ToSet(stack) = {}
  BY <1>0, OneOnce, EmptyOnce
<1>5. IsInjective(pending)
  BY <1>3 DEF Sorting, WaitingOnce
<1>6. ToSet(pending) = ToSet(t) \union {h} /\ IsInjective(t) /\ h \notin ToSet(t)
  BY <1>0, <1>1, <1>5, TailOnce
<1>7. WaitingOnce(W, Known, <<h>>, t, delayed)
  <2>1. WaitingOnce(W, Known, stack, pending, delayed)
    BY <1>3 DEF Sorting
  <2> QED
    BY <1>4, <1>6, <2>1 DEF WaitingOnce
<1> USE DEF InternalizeNext
<1>8. Known' = Known /\ Prefix' = Prefix
  BY DEF Known, Prefix
<1>9. \A r : InputsOf(r)' = InputsOf(r) /\ OutputsOf(r)' = OutputsOf(r)
  BY DEF InputsOf, OutputsOf
<1>10. SorterTypes'
  BY <1>0, <1>2, <1>4 DEF SorterTypes
<1>11. GivenOnce'
  BY <1>8, <1>9 DEF GivenOnce, SorterInv
<1>12. HeldRight'
  <2>1. ToSet(stack)' \union ToSet(pending)' = ToSet(stack) \union ToSet(pending)
    BY <1>2, <1>4, <1>6
  <2> QED
    BY <1>9, <2>1 DEF HeldRight, SorterInv
<1>13. Sorted(W)'
  BY <1>3 DEF Sorting, Sorted
<1>14. Settled(W)'
  BY <1>3, <1>9 DEF Sorting, Settled
<1>15. WaitingOnce(W, Known, stack, pending, delayed)'
  BY <1>2, <1>7, <1>8
<1> QED
  BY <1>8, <1>10, <1>11, <1>12, <1>13, <1>14, <1>15 DEF SorterInv, Sorting

LEMMA AddResolutionEndInv ==
    ASSUME SorterInv, AddResolutionEnd PROVE SorterInv'
<1> USE DEF AddResolutionEnd
<1>1. Known' = Known /\ Prefix' = Prefix
  BY DEF Known, Prefix
<1>2. \A r : InputsOf(r)' = InputsOf(r) /\ OutputsOf(r)' = OutputsOf(r)
  BY DEF InputsOf, OutputsOf
<1>3. SorterTypes'
  BY DEF SorterTypes, SorterInv
<1>4. GivenOnce' /\ HeldRight'
  BY <1>1, <1>2 DEF GivenOnce, HeldRight, SorterInv
<1>5. PICK W : Sorting(W)
  BY DEF SorterInv
<1>6. Sorted(W)'
  BY <1>5 DEF Sorting, Sorted
<1>7. Settled(W)'
  BY <1>2, <1>5 DEF Sorting, Settled
<1>8. WaitingOnce(W, Known, stack, pending, delayed)'
  BY <1>1, <1>5 DEF Sorting
<1> QED
  BY <1>1, <1>3, <1>4, <1>6, <1>7, <1>8 DEF SorterInv, Sorting

(* A flush puts everything in the order.                                    *)
LEMMA FlushSorted ==
    ASSUME NEW W, Sorted(W), Flush
    PROVE  \E H, base :
            /\ Shape(H, base, guide', exec_order') /\ Placed(H, W)
            /\ \A d \in DOMAIN H : d >= base => H[d] = <<>>
<1>1. PICK H, base : Shape(H, base, guide, exec_order) /\ Placed(H, W)
  BY DEF Sorted
<1>2. PICK f : f = GuideFlush(guide)
  OBVIOUS
<1>3. \E H2 : Flushed(H2, base, exec_order, W, GuideFlush(guide))
  BY <1>1, FlushShape
<1>4. PICK H2 : Flushed(H2, base, exec_order, W, f)
  BY <1>2, <1>3
<1>5. guide' = f.guide /\ exec_order' = OrderAfter(f.released)
  BY <1>2 DEF Flush, WriteOrder
<1>6. f.released \in Seq(OrderItem)
  BY <1>4 DEF Flushed
<1>7. exec_order' = exec_order \o f.released
  BY <1>1, <1>5, <1>6, OrderWritten
<1>8. PICK b : b = base + GUIDE_SIZE
  OBVIOUS
<1>9. Shape(H2, b, guide', exec_order') /\ Placed(H2, W)
  BY <1>4, <1>5, <1>7, <1>8 DEF Flushed
<1>10. \A d \in DOMAIN H2 : d >= b => H2[d] = <<>>
  <2>1. base \in Nat /\ LastSpan \in Nat /\ GUIDE_SIZE = LastSpan + 1
    BY <1>1, LastSpanType DEF Shape
  <2>2. \A d \in 0..(base + GUIDE_SIZE + LastSpan) : d >= b => d > base + LastSpan
    BY <1>8, <2>1
  <2> QED
    BY <1>4, <2>2 DEF Flushed
<1> QED
  BY <1>9, <1>10

LEMMA GetAwaiterInv ==
    ASSUME SorterInv, GetAwaiter PROVE SorterInv'
<1>0. Flush /\ UNCHANGED <<plan, resolvers, tracker, is_set, max_tracked,
                   max_tracked_variable, delayed, pending, stack,
                   registrations_added, phase>>
  BY DEF GetAwaiter
<1>1. Known' = Known /\ Prefix' = Prefix
  BY <1>0 DEF Known, Prefix
<1>2. \A r : InputsOf(r)' = InputsOf(r) /\ OutputsOf(r)' = OutputsOf(r)
  BY <1>0 DEF InputsOf, OutputsOf
<1>3. SorterTypes'
  BY <1>0 DEF SorterTypes, SorterInv
<1>4. GivenOnce' /\ HeldRight'
  BY <1>0, <1>1, <1>2 DEF GivenOnce, HeldRight, SorterInv
<1>5. PICK W : Sorting(W)
  BY DEF SorterInv
<1>6. Sorted(W)'
  <2>1. \E H, base :
            /\ Shape(H, base, guide', exec_order') /\ Placed(H, W)
            /\ \A d \in DOMAIN H : d >= base => H[d] = <<>>
    BY <1>0, <1>5, FlushSorted DEF Sorting
  <2> QED
    BY <2>1 DEF Sorted
<1>7. Settled(W)'
  BY <1>0, <1>2, <1>5 DEF Sorting, Settled
<1>8. WaitingOnce(W, Known, stack, pending, delayed)'
  BY <1>0, <1>1, <1>5 DEF Sorting
<1> QED
  BY <1>1, <1>3, <1>4, <1>6, <1>7, <1>8 DEF SorterInv, Sorting

LEMMA WaitTillResolvedInv ==
    ASSUME SorterInv, WaitTillResolved PROVE SorterInv'
<1>0. /\ UNCHANGED <<plan, resolvers, tracker, is_set, max_tracked,
                   max_tracked_variable, delayed, pending, stack, registrations_added>>
      /\ phase = "calls" /\ stack = <<>> /\ pending = <<>> /\ plan = <<>>
      /\ phase' \in {"recorded", "panicked"}
      /\ phase' = "recorded" => Flush
      /\ phase' # "recorded" => UNCHANGED <<guide, exec_order>>
  BY DEF WaitTillResolved
<1>1. Known' = Known /\ Prefix' = Prefix
  BY <1>0 DEF Known, Prefix
<1>2. \A r : InputsOf(r)' = InputsOf(r) /\ OutputsOf(r)' = OutputsOf(r)
  BY <1>0 DEF InputsOf, OutputsOf
<1>3. SorterTypes'
  BY <1>0 DEF SorterTypes, SorterInv
<1>4. GivenOnce' /\ HeldRight'
  BY <1>0, <1>1, <1>2 DEF GivenOnce, HeldRight, SorterInv
<1>5. PICK W : Sorting(W)
  BY DEF SorterInv
<1>6. Sorted(W)'
  <2>1. CASE phase' = "recorded"
    <3>1. \E H, base :
              /\ Shape(H, base, guide', exec_order') /\ Placed(H, W)
              /\ \A d \in DOMAIN H : d >= base => H[d] = <<>>
      BY <1>0, <1>5, <2>1, FlushSorted DEF Sorting
    <3> QED
      BY <3>1 DEF Sorted
  <2>2. CASE phase' # "recorded"
    BY <1>0, <1>5, <2>2 DEF Sorted, Sorting
  <2> QED
    BY <2>1, <2>2
<1>7. Settled(W)'
  BY <1>0, <1>2, <1>5 DEF Sorting, Settled
<1>8. WaitingOnce(W, Known, stack, pending, delayed)'
  BY <1>0, <1>1, <1>5 DEF Sorting
<1> QED
  BY <1>1, <1>3, <1>4, <1>6, <1>7, <1>8 DEF SorterInv, Sorting

---------------------------------------------------------------------------
(* The resolvers the registrar hands over, and those it keeps.              *)
Wakes(woken, del, to) ==
    woken \in Seq(Nat) /\ IsInjective(woken) /\ ToSet(woken) = WokenBy(del, to)

LEMMA WaitingWoken ==
    ASSUME NEW W, NEW known, NEW stk, NEW del, WaitingOnce(W, known, stk, <<>>, del),
           NEW to \in Int, NEW woken, Wakes(woken, del, to)
    PROVE  WaitingOnce(W, known, stk, woken, DelayedAfter(del, to))
<1>1. PICK d2 : d2 = DelayedAfter(del, to)
  OBVIOUS
<1>2. DelayedOnce(del)
  BY DEF WaitingOnce
<1>3. /\ DelayedOnce(d2) /\ Held(del) = WokenBy(del, to) \union Held(d2)
      /\ WokenBy(del, to) \intersect Held(d2) = {}
  BY <1>1, <1>2, DelayedSplit
<1>4. ToSet(<<>>) = {}
  BY EmptyOnce
<1>5. WaitingOnce(W, known, stk, woken, d2)
  BY <1>3, <1>4 DEF WaitingOnce, Wakes
<1> QED
  BY <1>1, <1>5

LEMMA WaitingPlaced ==
    ASSUME NEW W, NEW known \in SUBSET Nat, NEW stk \in Seq(Nat), stk # <<>>,
           NEW pnd, NEW del, WaitingOnce(W, known, stk, pnd, del),
           NEW to \in Int, NEW woken, Wakes(woken, del, to), NEW loc
    PROVE  /\ Last(stk) \in known /\ Last(stk) \notin DOMAIN W
           /\ WaitingOnce(Extended(W, Last(stk), loc), known, Front(stk) \o woken, pnd,
                          DelayedAfter(del, to))
<1>1. PICK d2, r, t, s2 :
        d2 = DelayedAfter(del, to) /\ r = Last(stk) /\ t = Front(stk) /\ s2 = t \o woken
  OBVIOUS
<1>2. DelayedOnce(del) /\ IsInjective(stk)
  BY DEF WaitingOnce
<1>3. /\ DelayedOnce(d2) /\ Held(del) = WokenBy(del, to) \union Held(d2)
      /\ WokenBy(del, to) \intersect Held(d2) = {}
  BY <1>1, <1>2, DelayedSplit
<1>4. /\ t \in Seq(Nat) /\ ToSet(stk) = ToSet(t) \union {r}
      /\ IsInjective(t) /\ r \notin ToSet(t)
  BY <1>1, <1>2, FrontOnce
<1>5. woken \in Seq(Nat) /\ IsInjective(woken) /\ ToSet(woken) = WokenBy(del, to)
  BY DEF Wakes
<1>6. /\ ToSet(s2) = ToSet(t) \union ToSet(woken)
      /\ IsInjective(t) /\ IsInjective(woken) /\ ToSet(t) \intersect ToSet(woken) = {}
           => IsInjective(s2)
  BY <1>1, <1>4, <1>5, ConcatOnce
<1>7. Held(del) \intersect ToSet(stk) = {}
  BY DEF WaitingOnce
<1>8. ToSet(t) \intersect ToSet(woken) = {}
  BY <1>3, <1>4, <1>5, <1>7
<1>9. IsInjective(s2)
  BY <1>4, <1>5, <1>6, <1>8
<1>10. r \in known /\ r \notin DOMAIN W
  BY <1>4 DEF WaitingOnce
<1>11. PICK W2 : W2 = Extended(W, r, loc)
  OBVIOUS
<1>12. DOMAIN W2 = (DOMAIN W) \union {r}
  BY <1>11 DEF Extended
<1>13. DOMAIN W = known \ (ToSet(stk) \union ToSet(pnd) \union Held(del))
  BY DEF WaitingOnce
<1>14. r \notin ToSet(pnd) /\ r \notin Held(del)
  BY <1>4 DEF WaitingOnce
<1>15. DOMAIN W2 = known \ (ToSet(s2) \union ToSet(pnd) \union Held(d2))
  BY <1>3, <1>4, <1>5, <1>6, <1>10, <1>12, <1>13, <1>14
<1>16. /\ ToSet(s2) \intersect ToSet(pnd) = {}
       /\ Held(d2) \intersect ToSet(s2) = {} /\ Held(d2) \intersect ToSet(pnd) = {}
       /\ ToSet(s2) \subseteq known /\ ToSet(pnd) \subseteq known /\ Held(d2) \subseteq known
  BY <1>3, <1>4, <1>5, <1>6 DEF WaitingOnce
<1>17. WaitingOnce(W2, known, s2, pnd, d2)
  BY <1>3, <1>9, <1>15, <1>16 DEF WaitingOnce
<1> QED
  BY <1>1, <1>10, <1>11, <1>17

LEMMA PlanTail ==
    ASSUME plan \in Seq(Call), plan # <<>>
    PROVE  /\ Head(plan) \in Call /\ Tail(plan) \in Seq(Call)
           /\ 1 \in DOMAIN plan /\ plan[1] = Head(plan)
           /\ \A i \in DOMAIN Tail(plan) :
                i + 1 \in DOMAIN plan /\ i + 1 # 1 /\ Tail(plan)[i] = plan[i + 1]
           /\ \A i, j \in DOMAIN Tail(plan) : i # j => i + 1 # j + 1
<1>1. PICK n \in Nat : n + 1 = Len(plan)
  <2>1. Len(plan) \in Nat \ {0}
    BY EmptySeq
  <2>2. Len(plan) - 1 \in Nat /\ (Len(plan) - 1) + 1 = Len(plan)
    BY <2>1
  <2> QED
    BY <2>2
<1>2. Head(plan) \in Call /\ Tail(plan) \in Seq(Call)
  BY HeadTailProperties
<1>3. DOMAIN plan = 1..(n + 1) /\ DOMAIN Tail(plan) = 1..n /\ plan[1] = Head(plan)
      /\ \A i \in 1..n : Tail(plan)[i] = plan[i + 1]
  BY <1>1
<1>4. \A i \in 1..n : i + 1 \in 1..(n + 1) /\ i + 1 # 1
  OBVIOUS
<1>5. \A i, j \in 1..n : i # j => i + 1 # j + 1
  OBVIOUS
<1>6. 1 \in 1..(n + 1)
  OBVIOUS
<1> QED
  BY <1>2, <1>3, <1>4, <1>5, <1>6

LEMMA KnownWaiting ==
    ASSUME SorterTypes, NEW W, Sorting(W)
    PROVE  /\ DOMAIN W \subseteq Known /\ Known \in SUBSET Nat
           /\ ToSet(stack) \subseteq Known /\ ToSet(pending) \subseteq Known
           /\ \A v \in Places : ToSet(delayed[v]) \subseteq Known
<1>1. Known \in SUBSET Nat
  BY DEF Known, SorterTypes
<1> QED
  BY <1>1 DEF Sorting, WaitingOnce, Held

(* Tracked places stay tracked, and the prefix and the queues follow.       *)
StillTracked(trk) == \A v \in Places : tracker[v] # None => trk[v] # None

LEMMA Advanced ==
    ASSUME SorterTypes, Prefix, HeldRight, NEW W, Sorting(W), NEW trk, StillTracked(trk),
           NEW to, AdvancedTo(trk, max_tracked, to), RegistrarAdvance(to)
    PROVE  /\ to \in Int /\ to \in -1..(NumPlaces - 1)
           /\ delayed' = DelayedAfter(delayed, to) /\ max_tracked_variable' = to
           /\ delayed' \in [Places -> Seq(Nat)]
           /\ \A v \in Places : v <= to => trk[v] # None
           /\ \A r \in WokenBy(delayed, to) : \A v \in InputsOf(r) : v <= to
           /\ \A r \in ToSet(stack) \union ToSet(pending) : \A v \in InputsOf(r) : v <= to
           /\ \A v \in Places : \A r \in ToSet(delayed'[v]) : v > to /\ r \in ToSet(delayed[v])
<1>1. NumPlaces \in Nat /\ max_tracked \in Int /\ max_tracked >= -1
  BY SorterAssumption DEF SorterTypes
<1>2. to \in Int /\ to >= max_tracked /\ to < NumPlaces
  BY DEF AdvancedTo
<1>3. to >= -1 /\ to \in -1..(NumPlaces - 1)
  BY <1>1, <1>2
<1>4. delayed' = DelayedAfter(delayed, to) /\ max_tracked_variable' = to
  BY <1>1, <1>2, <1>3, RegistrarAdvanced DEF SorterTypes
<1>5. delayed' \in [Places -> Seq(Nat)]
  <2>1. <<>> \in Seq(Nat)
    OBVIOUS
  <2> QED
    BY <1>4, <2>1 DEF DelayedAfter, SorterTypes
<1>6. ASSUME NEW v \in Places, v <= to PROVE trk[v] # None
  <2>1. v \in Int
    BY DEF Places
  <2>2. CASE v <= max_tracked
    BY <2>2 DEF Prefix, StillTracked
  <2>3. CASE ~(v <= max_tracked)
    <3>1. max_tracked < v
      BY <1>1, <2>1, <2>3
    <3> QED
      BY <1>6, <3>1 DEF AdvancedTo
  <2> QED
    BY <2>2, <2>3
<1>7. \A r \in Known : \A v \in InputsOf(r) : v \in Int
  BY KnownResolver DEF Places
<1>8. ASSUME NEW r \in WokenBy(delayed, to), NEW v \in InputsOf(r) PROVE v <= to
  <2>1. PICK u \in Places : u <= to /\ r \in ToSet(delayed[u])
    BY <1>8 DEF WokenBy
  <2>2. r \in Known /\ v <= u
    BY <2>1, KnownWaiting DEF HeldRight
  <2>3. v \in Int /\ u \in Int
    BY <1>7, <2>2 DEF Places
  <2> QED
    BY <1>2, <2>1, <2>2, <2>3
<1>9. ASSUME NEW r \in ToSet(stack) \union ToSet(pending), NEW v \in InputsOf(r)
      PROVE  v <= to
  <2>1. r \in Known
    BY KnownWaiting
  <2>2. v \in Int /\ v <= max_tracked
    BY <1>7, <2>1 DEF HeldRight
  <2> QED
    BY <1>1, <1>2, <2>2
<1>10. ASSUME NEW v \in Places, NEW r \in ToSet(delayed'[v])
       PROVE  v > to /\ r \in ToSet(delayed[v])
  <2>1. delayed'[v] = IF v <= to THEN <<>> ELSE delayed[v]
    BY <1>4 DEF DelayedAfter
  <2>2. ~(v <= to) /\ r \in ToSet(delayed[v])
    BY <1>10, <2>1, EmptyOnce
  <2>3. v \in Int
    BY DEF Places
  <2> QED
    BY <1>2, <2>2, <2>3
<1> QED
  BY <1>2, <1>3, <1>4, <1>5, <1>6, <1>8, <1>9, <1>10

LEMMA SetValueInv ==
    ASSUME SorterInv, SetValue PROVE SorterInv'
<1>0. /\ SorterTypes /\ GivenOnce /\ Prefix /\ HeldRight
      /\ phase = "calls" /\ stack = <<>> /\ pending = <<>> /\ plan # <<>>
      /\ Head(plan).op = "set" /\ plan' = Tail(plan)
      /\ UNCHANGED <<resolvers, guide, exec_order, stack, registrations_added, phase>>
  BY DEF SorterInv, SetValue
<1>1. PICK v : v = Head(plan).key
  OBVIOUS
<1>2. PICK trk : trk = [tracker EXCEPT ![v] = DefaultLoc]
  OBVIOUS
<1>3. PICK to : to = AdvanceTrack(trk)
  OBVIOUS
<1>4. /\ tracker[v] = None /\ tracker' = trk /\ is_set' = is_set \union {v}
      /\ max_tracked' = to /\ RegistrarAdvance(to) /\ pending' \in AdvanceOrders(to)
  BY <1>1, <1>2, <1>3 DEF SetValue
<1>5. PICK W : Sorting(W)
  BY DEF SorterInv
<1>6. /\ Head(plan) \in Call /\ Tail(plan) \in Seq(Call)
      /\ 1 \in DOMAIN plan /\ plan[1] = Head(plan)
      /\ \A i \in DOMAIN Tail(plan) :
           i + 1 \in DOMAIN plan /\ i + 1 # 1 /\ Tail(plan)[i] = plan[i + 1]
      /\ \A i, j \in DOMAIN Tail(plan) : i # j => i + 1 # j + 1
  BY <1>0, PlanTail DEF SorterTypes
<1>7. v \in Places /\ Gives(plan[1]) = {v}
  BY <1>0, <1>1, <1>6, CallCases
<1>8. /\ trk \in [Places -> Location \union {None}]
      /\ \A u \in Places : trk[u] = IF u = v THEN DefaultLoc ELSE tracker[u]
  BY <1>0, <1>2, <1>7, DefaultLocation DEF SorterTypes
<1>9. StillTracked(trk)
  BY <1>8, DefaultLocation, LocationNotNone DEF StillTracked
<1>10. AdvancedTo(trk, max_tracked, to)
  BY <1>0, <1>3, TrackAdvanced DEF SorterTypes
<1>11. /\ to \in Int /\ to \in -1..(NumPlaces - 1)
       /\ delayed' = DelayedAfter(delayed, to) /\ max_tracked_variable' = to
       /\ delayed' \in [Places -> Seq(Nat)]
       /\ \A u \in Places : u <= to => trk[u] # None
       /\ \A r \in WokenBy(delayed, to) : \A u \in InputsOf(r) : u <= to
       /\ \A r \in ToSet(stack) \union ToSet(pending) : \A u \in InputsOf(r) : u <= to
       /\ \A u \in Places : \A r \in ToSet(delayed'[u]) : u > to /\ r \in ToSet(delayed[u])
  BY <1>0, <1>4, <1>5, <1>9, <1>10, Advanced
<1>12. Wakes(pending', delayed, to)
  <2>1. DelayedOnce(delayed)
    BY <1>5 DEF Sorting, WaitingOnce
  <2> QED
    BY <1>4, <1>11, <2>1, WokenOnce DEF Wakes
<1>13. Known' = Known /\ \A r : InputsOf(r)' = InputsOf(r) /\ OutputsOf(r)' = OutputsOf(r)
  BY <1>0 DEF Known, InputsOf, OutputsOf
<1>14. \A r \in Known : v \notin OutputsOf(r)
  BY <1>0, <1>6, <1>7 DEF GivenOnce
<1>15. SorterTypes'
  <2>1. pending' \in Seq(Nat)
    BY <1>12 DEF Wakes
  <2>2. is_set' \in SUBSET Places
    BY <1>0, <1>4, <1>7 DEF SorterTypes
  <2> QED
    BY <1>0, <1>4, <1>6, <1>8, <1>11, <2>1, <2>2 DEF SorterTypes
<1>16. GivenOnce'
  <2>1. \A i \in DOMAIN plan' : /\ i + 1 \in DOMAIN plan /\ plan'[i] = plan[i + 1]
                                /\ Gives(plan[i + 1]) \intersect Gives(plan[1]) = {}
    BY <1>0, <1>6 DEF GivenOnce
  <2>2. \A i, j \in DOMAIN plan' : i # j => Gives(plan'[i]) \intersect Gives(plan'[j]) = {}
    BY <1>0, <1>6, <2>1 DEF GivenOnce
  <2>3. \A i \in DOMAIN plan' : Gives(plan'[i]) \intersect is_set' = {}
    BY <1>0, <1>4, <1>7, <2>1 DEF GivenOnce
  <2>4. \A i \in DOMAIN plan', r \in Known : Gives(plan'[i]) \intersect OutputsOf(r) = {}
    BY <1>0, <2>1 DEF GivenOnce
  <2>5. \A r \in Known : OutputsOf(r) \intersect is_set' = {}
    BY <1>0, <1>4, <1>14 DEF GivenOnce
  <2>6. \A q, r \in Known : q # r => OutputsOf(q) \intersect OutputsOf(r) = {}
    BY <1>0 DEF GivenOnce
  <2> QED
    BY <1>13, <2>2, <2>3, <2>4, <2>5, <2>6 DEF GivenOnce
<1>17. Prefix'
  BY <1>4, <1>10, <1>11 DEF Prefix, AdvancedTo
<1>18. HeldRight'
  <2>1. ToSet(stack)' \union ToSet(pending)' = WokenBy(delayed, to)
    BY <1>0, <1>12, EmptyOnce DEF Wakes
  <2>2. \A u \in Places : \A r \in ToSet(delayed[u]) :
            u \in InputsOf(r) /\ \A w \in InputsOf(r) : w <= u
    BY <1>0 DEF HeldRight
  <2> QED
    BY <1>4, <1>11, <1>13, <2>1, <2>2 DEF HeldRight
<1>19. Sorted(W)'
  BY <1>0, <1>5 DEF Sorting, Sorted
<1>20. WaitingOnce(W, Known, stack, pending, delayed)'
  <2>1. WaitingOnce(W, Known, stack, <<>>, delayed)
    BY <1>0, <1>5 DEF Sorting
  <2>2. WaitingOnce(W, Known, stack, pending', DelayedAfter(delayed, to))
    BY <1>11, <1>12, <2>1, WaitingWoken
  <2> QED
    BY <1>0, <1>11, <1>13, <2>2
<1>21. Settled(W)'
  <2>0. DOMAIN W \subseteq Known
    BY <1>0, <1>5, KnownWaiting
  <2>1. \A r \in Known : InputsOf(r) \in SUBSET Places /\ OutputsOf(r) \in SUBSET Places
    BY <1>0, KnownResolver
  <2>2. ASSUME NEW r \in DOMAIN W, NEW u \in OutputsOf(r) PROVE trk[u] = W[r]
    BY <1>5, <1>8, <1>14, <2>0, <2>1 DEF Sorting, Settled
  <2>3. ASSUME NEW r \in DOMAIN W, NEW u \in InputsOf(r)
        PROVE  trk[u] \in Location /\ Follows(trk[u], W[r])
    <3>1. tracker[u] \in Location /\ Follows(tracker[u], W[r])
      BY <1>5 DEF Sorting, Settled
    <3>2. u # v /\ u \in Places
      BY <1>4, <2>0, <2>1, <3>1, LocationNotNone
    <3> QED
      BY <1>8, <3>1, <3>2
  <2>4. \A u \in is_set' : trk[u] = DefaultLoc
    BY <1>0, <1>4, <1>5, <1>7, <1>8 DEF Sorting, Settled, SorterTypes
  <2>5. \A u \in Places : trk[u] # None =>
            u \in is_set' \/ \E r \in DOMAIN W : u \in OutputsOf(r)
    BY <1>4, <1>5, <1>8 DEF Sorting, Settled
  <2>6. \A r \in DOMAIN W : W[r].id >= 1 /\ GivesAbove(resolvers[r + 1])
    BY <1>5 DEF Sorting, Settled
  <2> QED
    BY <1>0, <1>4, <1>13, <2>2, <2>3, <2>4, <2>5, <2>6 DEF Settled
<1> QED
  BY <1>15, <1>16, <1>17, <1>18, <1>19, <1>20, <1>21 DEF SorterInv, Sorting

(* A resolver is registered: it is awake or held under its largest input.   *)
AppendedUnder(d2, del, L, r) == d2 = [del EXCEPT ![L] = Append(@, r)]

LEMMA DelayedAppend ==
    ASSUME NEW del, DelayedOnce(del), NEW r \in Nat, r \notin Held(del), NEW L \in Places,
           NEW d2, AppendedUnder(d2, del, L, r)
    PROVE  /\ DelayedOnce(d2) /\ Held(d2) = Held(del) \union {r}
           /\ \A v \in Places : ToSet(d2[v]) = ToSet(del[v]) \union (IF v = L THEN {r} ELSE {})
<1>2. del \in [Places -> Seq(Nat)]
  BY DEF DelayedOnce
<1>3. \A v \in Places : d2[v] = IF v = L THEN Append(del[v], r) ELSE del[v]
  BY <1>2 DEF AppendedUnder
<1>4. \A v \in Places : r \notin ToSet(del[v])
  BY DEF Held
<1>5. /\ Append(del[L], r) \in Seq(Nat)
      /\ ToSet(Append(del[L], r)) = ToSet(del[L]) \union {r}
      /\ IsInjective(Append(del[L], r))
  <2>1. del[L] \in Seq(Nat) /\ IsInjective(del[L]) /\ r \notin ToSet(del[L])
    BY <1>4 DEF DelayedOnce
  <2> QED
    BY <2>1, AppendOnce
<1>6. d2 \in [Places -> Seq(Nat)]
  BY <1>2, <1>5 DEF AppendedUnder
<1>7. \A v \in Places : ToSet(d2[v]) = ToSet(del[v]) \union (IF v = L THEN {r} ELSE {})
  BY <1>3, <1>5
<1>8. \A v \in Places : IsInjective(d2[v])
  BY <1>3, <1>5 DEF DelayedOnce
<1>9. \A v, w \in Places : v # w => ToSet(d2[v]) \intersect ToSet(d2[w]) = {}
  <2> SUFFICES ASSUME NEW v \in Places, NEW w \in Places, v # w
               PROVE  ToSet(d2[v]) \intersect ToSet(d2[w]) = {}
    OBVIOUS
  <2>1. ToSet(del[v]) \intersect ToSet(del[w]) = {}
    BY DEF DelayedOnce
  <2>2. r \notin ToSet(del[v]) /\ r \notin ToSet(del[w])
    BY <1>4
  <2>3. v # L \/ w # L
    OBVIOUS
  <2> QED
    BY <1>7, <2>1, <2>2, <2>3
<1>10. Held(d2) = Held(del) \union {r}
  BY <1>7 DEF Held
<1>11. DelayedOnce(d2)
  BY <1>6, <1>8, <1>9 DEF DelayedOnce
<1> QED
  BY <1>7, <1>10, <1>11

LEMMA LargestInput ==
    ASSUME NEW ins \in SUBSET Places, ins # {}
    PROVE  \E L \in Places : L = LargestPlace(ins) /\ L \in ins /\ \A w \in ins : w <= L
<1>1. NumPlaces - 1 \in Int /\ 0 \in Int /\ ins \in SUBSET (0..(NumPlaces - 1))
  BY SorterAssumption DEF Places
<1>2. LargestPlace(ins) \in ins /\ \A w \in ins : w <= LargestPlace(ins)
  BY <1>1, LargestExists
<1> QED
  BY <1>2

LEMMA AddResolutionInv ==
    ASSUME SorterInv, AddResolution PROVE SorterInv'
<1>0. /\ SorterTypes /\ GivenOnce /\ Prefix /\ HeldRight
      /\ phase = "calls" /\ stack = <<>> /\ pending = <<>> /\ plan # <<>>
      /\ Head(plan).op = "add" /\ plan' = Tail(plan) /\ phase' = "adding"
      /\ UNCHANGED <<tracker, is_set, max_tracked, max_tracked_variable, guide,
                     exec_order, pending, registrations_added>>
  BY DEF SorterInv, AddResolution
<1>1a. PICK r \in Nat : r = registrations_added
  BY <1>0 DEF SorterTypes
<1>1b. PICK ins, outs : ins = Head(plan).inputs /\ outs = Head(plan).outputs
  OBVIOUS
<1>1. r = registrations_added /\ ins = Head(plan).inputs /\ outs = Head(plan).outputs
  BY <1>1a, <1>1b
<1>2. PICK W : Sorting(W)
  BY DEF SorterInv
<1>3. /\ Head(plan) \in Call /\ Tail(plan) \in Seq(Call)
      /\ 1 \in DOMAIN plan /\ plan[1] = Head(plan)
      /\ \A i \in DOMAIN Tail(plan) :
           i + 1 \in DOMAIN plan /\ i + 1 # 1 /\ Tail(plan)[i] = plan[i + 1]
      /\ \A i, j \in DOMAIN Tail(plan) : i # j => i + 1 # j + 1
  BY <1>0, PlanTail DEF SorterTypes
<1>4. ins \in SUBSET Places /\ outs \in SUBSET Places /\ Gives(plan[1]) = outs
  BY <1>0, <1>1, <1>3, CallCases
<1>5. resolvers \in Seq(Resolver) /\ Len(resolvers) = r
  BY <1>0, <1>1 DEF SorterTypes
<1>6. PICK new \in Resolver : new = [inputs |-> ins, outputs |-> outs]
  BY <1>4 DEF Resolver
<1>7. resolvers' = Append(resolvers, new)
  BY <1>1, <1>6 DEF AddResolution
<1>8. /\ resolvers' \in Seq(Resolver) /\ Len(resolvers') = r + 1
      /\ resolvers'[r + 1] = new
      /\ \A k \in 1..r : resolvers'[k] = resolvers[k]
  BY <1>5, <1>7, AppendProperties
<1>9. Known = 0..(r - 1) /\ Known' = 0..r
  <2>1. (r + 1) - 1 = r
    OBVIOUS
  <2> QED
    BY <1>5, <1>8, <2>1 DEF Known
<1>10. Known' = Known \union {r} /\ r \notin Known /\ \A q \in Known : q + 1 \in 1..r
  BY <1>9
<1>11. /\ InputsOf(r)' = ins /\ OutputsOf(r)' = outs
       /\ \A q \in Known : /\ resolvers'[q + 1] = resolvers[q + 1]
                           /\ InputsOf(q)' = InputsOf(q) /\ OutputsOf(q)' = OutputsOf(q)
  BY <1>6, <1>8, <1>10 DEF InputsOf, OutputsOf
<1>12. WaitingOnce(W, Known, <<>>, <<>>, delayed) /\ ToSet(<<>>) = {}
  BY <1>0, <1>2, EmptyOnce DEF Sorting
<1>13. ASSUME Accepts(ins), NEW v \in ins PROVE v <= max_tracked
  <2>1. ins # {} /\ max_tracked_variable = max_tracked /\ max_tracked \in Int
    BY <1>0, <1>13 DEF SorterTypes
  <2>2. PICK L \in Places : L = LargestPlace(ins) /\ L \in ins /\ \A w \in ins : w <= L
    BY <1>4, <2>1, LargestInput
  <2>3. L \in Int /\ v \in Int /\ v <= L
    BY <1>4, <2>2 DEF Places
  <2>4. L <= max_tracked
    BY <1>13, <2>1, <2>2 DEF Accepts
  <2> QED
    BY <2>1, <2>3, <2>4
<1>14. ASSUME ~Accepts(ins)
       PROVE  /\ LargestPlace(ins) \in Places /\ LargestPlace(ins) \in ins
              /\ LargestPlace(ins) > max_tracked
              /\ \A v \in ins : v <= LargestPlace(ins)
  <2>1. ins # {} /\ max_tracked_variable = max_tracked /\ max_tracked \in Int
    BY <1>0, <1>14 DEF SorterTypes, Accepts
  <2>2. PICK L \in Places : L = LargestPlace(ins) /\ L \in ins /\ \A w \in ins : w <= L
    BY <1>4, <2>1, LargestInput
  <2>3. ~(L <= max_tracked)
    BY <1>14, <2>1, <2>2 DEF Accepts
  <2>4. L \in Int
    BY DEF Places
  <2>5. L > max_tracked
    BY <2>1, <2>3, <2>4
  <2> QED
    BY <2>2, <2>5
<1>15. /\ stack' \in Seq(Nat) /\ delayed' \in [Places -> Seq(Nat)]
       /\ WaitingOnce(W, Known', stack', pending', delayed')
       /\ \A q \in ToSet(stack)' \union ToSet(pending)' : q = r /\ Accepts(ins)
       /\ \A v \in Places : \A q \in ToSet(delayed'[v]) :
            q \in ToSet(delayed[v]) \/ (q = r /\ ~Accepts(ins) /\ v = LargestPlace(ins))
  <2>1. CASE Accepts(ins)
    <3>1. stack' = <<r>> /\ delayed' = delayed
      BY <1>1, <2>1 DEF AddResolution
    <3>2. <<r>> \in Seq(Nat) /\ ToSet(<<r>>) = {r} /\ IsInjective(<<r>>)
      BY OneOnce
    <3>3. WaitingOnce(W, Known \union {r}, <<r>>, <<>>, delayed)
      BY <1>10, <1>12, <3>2 DEF WaitingOnce
    <3>4. \A q \in ToSet(stack)' \union ToSet(pending)' : q = r
      BY <1>0, <1>12, <3>1, <3>2
    <3> QED
      BY <1>0, <1>10, <2>1, <3>1, <3>2, <3>3, <3>4 DEF SorterTypes
  <2>2. CASE ~Accepts(ins)
    <3>1. PICK L \in Places : L = LargestPlace(ins)
      BY <1>14, <2>2
    <3>2. stack' = stack /\ delayed' = [delayed EXCEPT ![L] = Append(@, r)]
      BY <1>1, <2>2, <3>1 DEF AddResolution
    <3>3. DelayedOnce(delayed) /\ r \notin Held(delayed)
      BY <1>10, <1>12 DEF WaitingOnce
    <3>4. /\ DelayedOnce(delayed') /\ Held(delayed') = Held(delayed) \union {r}
          /\ \A v \in Places :
                ToSet(delayed'[v]) = ToSet(delayed[v]) \union (IF v = L THEN {r} ELSE {})
      <4>1. PICK d, d2 : d = delayed /\ d2 = delayed'
        OBVIOUS
      <4>2. DelayedOnce(d) /\ r \notin Held(d) /\ AppendedUnder(d2, d, L, r)
        BY <3>2, <3>3, <4>1 DEF AppendedUnder
      <4>3. /\ DelayedOnce(d2) /\ Held(d2) = Held(d) \union {r}
            /\ \A v \in Places : ToSet(d2[v]) = ToSet(d[v]) \union (IF v = L THEN {r} ELSE {})
        BY <4>2, DelayedAppend
      <4> QED
        BY <4>1, <4>3
    <3>5. WaitingOnce(W, Known \union {r}, <<>>, <<>>, delayed')
      BY <1>10, <1>12, <3>4 DEF WaitingOnce
    <3>6. delayed' \in [Places -> Seq(Nat)]
      BY <3>4 DEF DelayedOnce
    <3> QED
      BY <1>0, <1>10, <1>12, <2>2, <3>1, <3>2, <3>4, <3>5, <3>6 DEF SorterTypes
  <2> QED
    BY <2>1, <2>2
<1>16. SorterTypes'
  BY <1>0, <1>1, <1>3, <1>8, <1>15 DEF SorterTypes
<1>17. GivenOnce'
  <2>1. \A i \in DOMAIN plan' : /\ i + 1 \in DOMAIN plan /\ plan'[i] = plan[i + 1]
                                /\ Gives(plan[i + 1]) \intersect Gives(plan[1]) = {}
    BY <1>0, <1>3 DEF GivenOnce
  <2>2. \A i, j \in DOMAIN plan' : i # j => Gives(plan'[i]) \intersect Gives(plan'[j]) = {}
    BY <1>0, <1>3, <2>1 DEF GivenOnce
  <2>3. \A i \in DOMAIN plan' : Gives(plan'[i]) \intersect is_set' = {}
    BY <1>0, <2>1 DEF GivenOnce
  <2>4. \A i \in DOMAIN plan', q \in Known' : Gives(plan'[i]) \intersect OutputsOf(q)' = {}
    BY <1>0, <1>4, <1>10, <1>11, <2>1 DEF GivenOnce
  <2>5. \A q \in Known' : OutputsOf(q)' \intersect is_set' = {}
    BY <1>0, <1>3, <1>4, <1>10, <1>11 DEF GivenOnce
  <2>6. \A q \in Known : OutputsOf(q) \intersect outs = {}
    BY <1>0, <1>3, <1>4 DEF GivenOnce
  <2>7. \A p, q \in Known' : p # q => OutputsOf(p)' \intersect OutputsOf(q)' = {}
    BY <1>0, <1>10, <1>11, <2>6 DEF GivenOnce
  <2> QED
    BY <2>2, <2>3, <2>4, <2>5, <2>7 DEF GivenOnce
<1>18. Prefix'
  BY <1>0 DEF Prefix
<1>19. HeldRight'
  <2>1. \A q \in ToSet(stack)' \union ToSet(pending)' :
            \A v \in InputsOf(q)' : v <= max_tracked'
    BY <1>0, <1>11, <1>13, <1>15
  <2>2. ASSUME NEW v \in Places, NEW q \in ToSet(delayed'[v])
        PROVE  v > max_tracked' /\ v \in InputsOf(q)' /\ \A u \in InputsOf(q)' : u <= v
    <3>1. CASE q \in ToSet(delayed[v])
      <4>1. q \in Known
        BY <1>0, <1>2, <3>1, KnownWaiting
      <4> QED
        BY <1>0, <1>11, <3>1, <4>1 DEF HeldRight
    <3>2. CASE q = r /\ ~Accepts(ins) /\ v = LargestPlace(ins)
      BY <1>0, <1>11, <1>14, <3>2
    <3> QED
      BY <1>15, <3>1, <3>2
  <2> QED
    BY <2>1, <2>2 DEF HeldRight
<1>20. Sorted(W)'
  <2>1. phase' # "recorded"
    BY <1>0
  <2> QED
    BY <1>0, <1>2, <2>1 DEF Sorting, Sorted
<1>21. Settled(W)'
  <2>1. DOMAIN W \subseteq Known
    BY <1>0, <1>2, KnownWaiting
  <2> QED
    BY <1>0, <1>2, <1>11, <2>1 DEF Sorting, Settled
<1> QED
  BY <1>15, <1>16, <1>17, <1>18, <1>19, <1>20, <1>21 DEF SorterInv, Sorting

---------------------------------------------------------------------------
(* The latest location of the inputs of a resolver that is awake.           *)
LatestInput(after, r, limit) ==
    \/ after = None /\ InputsOf(r) = {}
    \/ /\ after \in Location /\ after.id <= limit
       /\ \A v \in InputsOf(r) : tracker[v] \in Location /\ ~LocBefore(after, tracker[v])

LEMMA LatestInputExists ==
    ASSUME SorterTypes, Prefix, HeldRight, NEW W, Sorting(W),
           NEW H, NEW base, Shape(H, base, guide, exec_order), Placed(H, W),
           NEW r \in ToSet(stack)
    PROVE  LatestInput(LatestLoc({tracker[v] : v \in InputsOf(r)}), r, base + LastSpan)
<1>1. PICK locs : locs = {tracker[v] : v \in InputsOf(r)}
  OBVIOUS
<1>2. PICK b \in Nat : b = base + LastSpan /\ H \in [0..b -> Seq(OrderItem)]
  BY LastSpanType DEF Shape
<1>3. InputsOf(r) \in SUBSET Places
  BY KnownWaiting, KnownResolver
<1>4. \A d \in 0..b : Len(H[d]) \in Nat
  <2>1. \A d \in 0..b : H[d] \in Seq(OrderItem)
    BY <1>2
  <2> QED
    BY <2>1
<1>5. PICK bound \in [0..b -> Nat] : \A d \in 0..b : bound[d] = Len(H[d])
  <2>1. [d \in 0..b |-> Len(H[d])] \in [0..b -> Nat]
    BY <1>4
  <2> QED
    BY <2>1
<1>6. ASSUME NEW v \in InputsOf(r)
      PROVE  /\ tracker[v] \in Location
             /\ tracker[v].id <= b /\ tracker[v].pos <= bound[tracker[v].id]
  <2>1. v \in Places /\ v <= max_tracked
    BY <1>3 DEF HeldRight
  <2>2. tracker[v] # None
    BY <2>1 DEF Prefix
  <2>3. CASE v \in is_set
    <3>1. tracker[v] = DefaultLoc /\ DefaultLoc.id = 0 /\ DefaultLoc.pos = 0
      BY <2>3 DEF Sorting, Settled, DefaultLoc
    <3>2. 0 \in 0..b /\ 0 <= b
      OBVIOUS
    <3>3. bound[0] \in Nat
      BY <1>5, <3>2
    <3>4. 0 <= bound[0]
      BY <3>3
    <3> QED
      BY <3>1, <3>2, <3>4, DefaultLocation
  <2>4. CASE v \notin is_set
    <3>1. PICK q \in DOMAIN W : v \in OutputsOf(q)
      BY <2>1, <2>2, <2>4 DEF Sorting, Settled
    <3>2. tracker[v] = W[q]
      BY <3>1 DEF Sorting, Settled
    <3>3. W[q] \in Location /\ W[q].id \in DOMAIN H /\ W[q].pos < Len(H[W[q].id])
      BY <3>1 DEF Placed
    <3>4. PICK d \in 0..b : d = W[q].id
      BY <1>2, <3>3
    <3>5. PICK p \in Nat : p = W[q].pos
      BY <3>3 DEF Location
    <3>6. PICK n \in Nat : n = Len(H[d]) /\ n = bound[d]
      BY <1>4, <1>5
    <3>7. d <= b /\ p <= n
      BY <3>3, <3>4, <3>5, <3>6
    <3> QED
      BY <3>2, <3>3, <3>4, <3>5, <3>6, <3>7
  <2> QED
    BY <2>3, <2>4
<1>7. CASE InputsOf(r) = {}
  <2>1. locs = {}
    BY <1>1, <1>7
  <2> QED
    BY <1>1, <1>7, <2>1 DEF LatestLoc, LatestInput
<1>8. CASE InputsOf(r) # {}
  <2>1. locs \in SUBSET Location /\ locs # {}
    BY <1>1, <1>6, <1>8
  <2>2. \A l \in locs : l.id <= b /\ l.pos <= bound[l.id]
    BY <1>1, <1>6
  <2>3. LatestLoc(locs) \in locs /\ \A l \in locs : ~LocBefore(LatestLoc(locs), l)
    BY <2>1, <2>2, LatestLocExists
  <2>4. PICK after \in locs : after = LatestLoc(locs) /\ \A l \in locs : ~LocBefore(after, l)
    BY <2>3
  <2>5. after \in Location /\ after.id <= b
    BY <2>1, <2>2
  <2>6. \A v \in InputsOf(r) : tracker[v] \in Location /\ ~LocBefore(after, tracker[v])
    BY <1>1, <1>6, <2>4
  <2> QED
    BY <1>1, <1>2, <2>4, <2>5, <2>6 DEF LatestInput
<1> QED
  BY <1>7, <1>8

LEMMA FollowsLatest ==
    ASSUME NEW a \in Location, NEW l \in Location, NEW m \in Location,
           ~LocBefore(a, l), Follows(a, m)
    PROVE  Follows(l, m)
<1>1. PICK i, p, j, q, k, s \in Nat :
        i = a.id /\ p = a.pos /\ j = l.id /\ q = l.pos /\ k = m.id /\ s = m.pos
  BY DEF Location
<1>2. ~(i < j) /\ ~(i = j /\ p < q)
  BY <1>1 DEF LocBefore
<1>3. i + 1 < k \/ (i + 1 = k /\ p <= s)
  BY <1>1 DEF Follows
<1>4. j + 1 < k \/ (j + 1 = k /\ q <= s)
  BY <1>2, <1>3
<1> QED
  BY <1>1, <1>4 DEF Follows

(* Nothing a waiting resolver gives is tracked yet.                         *)
LEMMA OutputsUntracked ==
    ASSUME SorterTypes, GivenOnce, Prefix, NEW W, Sorting(W), NEW r \in Known, r \notin DOMAIN W
    PROVE  \A v \in OutputsOf(r) : v \in Places /\ tracker[v] = None /\ v > max_tracked
<1> SUFFICES ASSUME NEW v \in OutputsOf(r)
             PROVE  v \in Places /\ tracker[v] = None /\ v > max_tracked
  OBVIOUS
<1>1. v \in Places
  BY KnownResolver
<1>2. tracker[v] = None
  <2>1. v \notin is_set
    BY DEF GivenOnce
  <2>2. \A q \in DOMAIN W : v \notin OutputsOf(q)
    <3>1. DOMAIN W \subseteq Known
      BY KnownWaiting
    <3> QED
      BY <3>1 DEF GivenOnce
  <2> QED
    BY <1>1, <2>1, <2>2 DEF Sorting, Settled
<1>3. ~(v <= max_tracked) /\ v \in Int /\ max_tracked \in Int
  BY <1>1, <1>2 DEF Prefix, Places, SorterTypes
<1> QED
  BY <1>1, <1>2, <1>3

(* The resolver's push, and what it does to the spans.                      *)
LEMMA InternalizeSorted ==
    ASSUME SorterInv, NEW W, Sorting(W), stack # <<>>, NEW r, r = Last(stack),
           NEW push,
           push = GuidePush(guide, r, LatestLoc({tracker[v] : v \in InputsOf(r)})),
           guide' = push.guide, exec_order' = OrderAfter(push.released),
           phase' = phase
    PROVE  /\ push.loc \in Location /\ push.loc.id >= 1
           /\ \A v \in InputsOf(r) : tracker[v] \in Location /\ Follows(tracker[v], push.loc)
           /\ Sorted(Extended(W, r, push.loc))'
           /\ push.released \in Seq(OrderItem) /\ exec_order' = exec_order \o push.released
<1>0. SorterTypes /\ Prefix /\ HeldRight /\ stack \in Seq(Nat)
  BY DEF SorterInv, SorterTypes
<1>2. r \in Nat /\ r \in ToSet(stack)
  <2>1. Last(stack) \in Nat /\ ToSet(stack) = ToSet(Front(stack)) \union {Last(stack)}
    BY <1>0, FrontOnce
  <2> QED
    BY <2>1
<1>3. r \notin DOMAIN W
  BY <1>2 DEF Sorting, WaitingOnce
<1>4. phase # "recorded"
  BY <1>0 DEF SorterTypes
<1>5. PICK H, base : Shape(H, base, guide, exec_order) /\ Placed(H, W)
  BY DEF Sorting, Sorted
<1>6. PICK after : after = LatestLoc({tracker[v] : v \in InputsOf(r)})
  OBVIOUS
<1>7. LatestInput(after, r, base + LastSpan)
  BY <1>0, <1>2, <1>5, <1>6, LatestInputExists
<1>8. after = None \/ (after \in Location /\ after.id <= base + LastSpan)
  BY <1>7 DEF LatestInput
<1>9. push = GuidePush(guide, r, after)
  BY <1>6
<1>10. \E H2, base2 : Pushed(H2, base2, exec_order, W, r, after, GuidePush(guide, r, after))
  BY <1>2, <1>3, <1>5, <1>8, PushShape
<1>11. PICK H2, base2 : Pushed(H2, base2, exec_order, W, r, after, push)
  BY <1>9, <1>10
<1>12. /\ push.released \in Seq(OrderItem) /\ push.loc \in Location /\ push.loc.id >= 1
       /\ after # None => Follows(after, push.loc)
  BY <1>11 DEF Pushed
<1>13. exec_order' = exec_order \o push.released
  BY <1>5, <1>12, OrderWritten
<1>14. Shape(H2, base2, guide', exec_order') /\ Placed(H2, Extended(W, r, push.loc))
  BY <1>11, <1>13 DEF Pushed
<1>15. Sorted(Extended(W, r, push.loc))'
  BY <1>4, <1>14 DEF Sorted
<1>16. ASSUME NEW v \in InputsOf(r) PROVE tracker[v] \in Location /\ Follows(tracker[v], push.loc)
  <2>1. after \in Location /\ tracker[v] \in Location /\ ~LocBefore(after, tracker[v])
    BY <1>7, <1>16 DEF LatestInput
  <2>2. Follows(after, push.loc)
    BY <1>12, <2>1, LocationNotNone
  <2> QED
    BY <1>12, <2>1, <2>2, FollowsLatest
<1> QED
  BY <1>12, <1>13, <1>15, <1>16

LEMMA InternalizeInv ==
    ASSUME SorterInv, Internalize PROVE SorterInv'
<1>0. /\ SorterTypes /\ GivenOnce /\ Prefix /\ HeldRight /\ stack # <<>>
      /\ stack \in Seq(Nat)
      /\ UNCHANGED <<plan, resolvers, is_set, pending, registrations_added, phase>>
  BY DEF SorterInv, Internalize, SorterTypes
<1>1. PICK W : Sorting(W)
  BY DEF SorterInv
<1>2. PICK r : r = Last(stack)
  OBVIOUS
<1>3. PICK push : push = GuidePush(guide, r, LatestLoc({tracker[v] : v \in InputsOf(r)}))
  OBVIOUS
<1>4. PICK trk : trk = [v \in Places |-> IF v \in OutputsOf(r) THEN push.loc ELSE tracker[v]]
  OBVIOUS
<1>5. PICK to : to = AdvanceTrack(trk)
  OBVIOUS
<1>6. /\ guide' = push.guide /\ exec_order' = OrderAfter(push.released)
      /\ tracker' = trk /\ max_tracked' = to /\ RegistrarAdvance(to)
      /\ \E woken \in AdvanceOrders(to) : stack' = Front(stack) \o woken
  BY <1>2, <1>3, <1>4, <1>5 DEF Internalize, WriteOrder
<1>7. PICK woken \in AdvanceOrders(to) : stack' = Front(stack) \o woken
  BY <1>6
<1>8. /\ push.loc \in Location /\ push.loc.id >= 1
      /\ \A v \in InputsOf(r) : tracker[v] \in Location /\ Follows(tracker[v], push.loc)
      /\ Sorted(Extended(W, r, push.loc))'
  BY <1>0, <1>1, <1>2, <1>3, <1>6, InternalizeSorted
<1>9. PICK loc \in Location : loc = push.loc /\ loc.id >= 1 /\ loc # None
  BY <1>8, LocationNotNone
<1>10. PICK W2 : W2 = Extended(W, r, loc)
  OBVIOUS
<1>11. /\ DOMAIN W \subseteq Known /\ Known \in SUBSET Nat
       /\ ToSet(stack) \subseteq Known /\ ToSet(pending) \subseteq Known
       /\ \A v \in Places : ToSet(delayed[v]) \subseteq Known
  BY <1>0, <1>1, KnownWaiting
<1>12. WaitingOnce(W, Known, stack, pending, delayed) /\ DelayedOnce(delayed)
  BY <1>1 DEF Sorting, WaitingOnce
<1>13. /\ Front(stack) \in Seq(Nat) /\ r \in Nat
       /\ ToSet(stack) = ToSet(Front(stack)) \union {r}
  BY <1>0, <1>2, FrontOnce
<1>14. r \in Known /\ r \in ToSet(stack) /\ r \notin DOMAIN W
  BY <1>11, <1>12, <1>13 DEF WaitingOnce
<1>15. \A v \in OutputsOf(r) : v \in Places /\ tracker[v] = None /\ v > max_tracked
  BY <1>0, <1>1, <1>14, OutputsUntracked
<1>16. /\ trk \in [Places -> Location \union {None}]
       /\ \A v \in Places : trk[v] = IF v \in OutputsOf(r) THEN loc ELSE tracker[v]
  BY <1>0, <1>4, <1>9 DEF SorterTypes
<1>17. StillTracked(trk)
  BY <1>9, <1>16 DEF StillTracked
<1>18. AdvancedTo(trk, max_tracked, to)
  BY <1>0, <1>5, TrackAdvanced DEF SorterTypes
<1>19. /\ to \in Int /\ to \in -1..(NumPlaces - 1)
       /\ delayed' = DelayedAfter(delayed, to) /\ max_tracked_variable' = to
       /\ delayed' \in [Places -> Seq(Nat)]
       /\ \A u \in Places : u <= to => trk[u] # None
       /\ \A q \in WokenBy(delayed, to) : \A u \in InputsOf(q) : u <= to
       /\ \A q \in ToSet(stack) \union ToSet(pending) : \A u \in InputsOf(q) : u <= to
       /\ \A u \in Places : \A q \in ToSet(delayed'[u]) : u > to /\ q \in ToSet(delayed[u])
  BY <1>0, <1>1, <1>6, <1>17, <1>18, Advanced
<1>20. Wakes(woken, delayed, to)
  BY <1>7, <1>12, <1>19, WokenOnce DEF Wakes
<1>21. Known' = Known /\ \A q : InputsOf(q)' = InputsOf(q) /\ OutputsOf(q)' = OutputsOf(q)
  BY <1>0 DEF Known, InputsOf, OutputsOf
<1>22. /\ stack' \in Seq(Nat)
       /\ ToSet(stack') = ToSet(Front(stack)) \union WokenBy(delayed, to)
  <2>1. woken \in Seq(Nat) /\ ToSet(woken) = WokenBy(delayed, to)
    BY <1>20 DEF Wakes
  <2> QED
    BY <1>7, <1>13, <2>1, ConcatOnce
<1>23. SorterTypes'
  BY <1>0, <1>6, <1>16, <1>19, <1>22 DEF SorterTypes
<1>24. GivenOnce'
  BY <1>0, <1>21 DEF GivenOnce
<1>25. Prefix'
  BY <1>6, <1>18, <1>19 DEF Prefix, AdvancedTo
<1>26. HeldRight'
  <2>1. \A q \in ToSet(stack)' \union ToSet(pending)' :
            q \in ToSet(stack) \union ToSet(pending) \/ q \in WokenBy(delayed, to)
    BY <1>0, <1>13, <1>22
  <2>2. \A u \in Places : \A q \in ToSet(delayed[u]) :
            u \in InputsOf(q) /\ \A w \in InputsOf(q) : w <= u
    BY <1>0 DEF HeldRight
  <2> QED
    BY <1>6, <1>19, <1>21, <2>1, <2>2 DEF HeldRight
<1>27. Sorted(W2)'
  BY <1>8, <1>9, <1>10
<1>28. WaitingOnce(W2, Known, stack, pending, delayed)'
  <2>1. WaitingOnce(Extended(W, Last(stack), loc), Known, Front(stack) \o woken, pending,
                    DelayedAfter(delayed, to))
    BY <1>0, <1>11, <1>12, <1>19, <1>20, WaitingPlaced
  <2> QED
    BY <1>0, <1>2, <1>7, <1>10, <1>19, <1>21, <2>1
<1>29. /\ DOMAIN W2 = DOMAIN W \union {r} /\ W2[r] = loc
       /\ \A q \in DOMAIN W : W2[q] = W[q]
  BY <1>10, <1>14 DEF Extended
<1>30. \A q \in Known : InputsOf(q) \in SUBSET Places /\ OutputsOf(q) \in SUBSET Places
  BY <1>0, KnownResolver
<1>31. Settled(W2)'
  <2>1. ASSUME NEW q \in DOMAIN W2, NEW u \in OutputsOf(q) PROVE trk[u] = W2[q]
    <3>1. CASE q = r
      BY <1>15, <1>16, <1>29, <2>1, <3>1
    <3>2. CASE q # r
      <4>1. q \in DOMAIN W /\ q \in Known /\ u \in Places
        BY <1>11, <1>29, <1>30, <2>1, <3>2
      <4>2. u \notin OutputsOf(r)
        BY <1>0, <1>14, <2>1, <3>2, <4>1 DEF GivenOnce
      <4>3. tracker[u] = W[q]
        BY <1>1, <2>1, <4>1 DEF Sorting, Settled
      <4> QED
        BY <1>16, <1>29, <4>1, <4>2, <4>3
    <3> QED
      BY <3>1, <3>2
  <2>2. ASSUME NEW q \in DOMAIN W2, NEW u \in InputsOf(q)
        PROVE  trk[u] \in Location /\ Follows(trk[u], W2[q])
    <3>1. tracker[u] \in Location /\ Follows(tracker[u], W2[q])
      BY <1>1, <1>8, <1>9, <1>29, <2>2 DEF Sorting, Settled
    <3>2. u \in Places /\ u \notin OutputsOf(r)
      BY <1>11, <1>14, <1>15, <1>29, <1>30, <2>2, <3>1, LocationNotNone
    <3> QED
      BY <1>16, <3>1, <3>2
  <2>3. ASSUME NEW q \in DOMAIN W2 PROVE W2[q].id >= 1 /\ GivesAbove(resolvers[q + 1])
    <3>1. CASE q = r
      <4>1. ASSUME NEW u \in InputsOf(r), NEW w \in OutputsOf(r) PROVE u < w
        <5>1. u <= max_tracked /\ u \in Int
          BY <1>0, <1>14, <1>30, <4>1 DEF HeldRight, Places
        <5>2. w > max_tracked /\ w \in Int
          BY <1>15, <4>1 DEF Places
        <5>3. max_tracked \in Int
          BY <1>0 DEF SorterTypes
        <5> QED
          BY <5>1, <5>2, <5>3
      <4>2. GivesAbove(resolvers[r + 1])
        BY <4>1 DEF GivesAbove, InputsOf, OutputsOf
      <4> QED
        BY <1>9, <1>29, <3>1, <4>2
    <3>2. CASE q # r
      BY <1>1, <1>29, <2>3, <3>2 DEF Sorting, Settled
    <3> QED
      BY <3>1, <3>2
  <2>4. ASSUME NEW u \in is_set PROVE trk[u] = DefaultLoc
    <3>1. tracker[u] = DefaultLoc /\ u \in Places
      BY <1>0, <1>1 DEF Sorting, Settled, SorterTypes
    <3>2. u \notin OutputsOf(r)
      BY <1>15, <3>1, DefaultLocation, LocationNotNone
    <3> QED
      BY <1>16, <3>1, <3>2
  <2>5. ASSUME NEW u \in Places, trk[u] # None
        PROVE  u \in is_set \/ \E q \in DOMAIN W2 : u \in OutputsOf(q)
    <3>1. CASE u \in OutputsOf(r)
      BY <1>29, <3>1
    <3>2. CASE u \notin OutputsOf(r)
      <4>1. tracker[u] # None
        BY <1>16, <2>5, <3>2
      <4>2. u \in is_set \/ \E q \in DOMAIN W : u \in OutputsOf(q)
        BY <1>1, <4>1 DEF Sorting, Settled
      <4> QED
        BY <1>29, <4>2
    <3> QED
      BY <3>1, <3>2
  <2> QED
    BY <1>0, <1>6, <1>21, <2>1, <2>2, <2>3, <2>4, <2>5 DEF Settled
<1> QED
  BY <1>23, <1>24, <1>25, <1>26, <1>27, <1>28, <1>31 DEF SorterInv, Sorting

LEMMA SorterInvariant == Spec => []SorterInv
<1>1. Init => SorterInv
  BY SorterInitInv DEF Init
<1>2. SorterInv /\ [Next]_vars => SorterInv'
  <2> SUFFICES ASSUME SorterInv, [Next]_vars PROVE SorterInv'
    OBVIOUS
  <2>1. CASE SorterNext
    BY <2>1, SetValueInv, AddResolutionInv, AddResolutionEndInv, InternalizeNextInv,
       InternalizeInv, GetAwaiterInv, WaitTillResolvedInv DEF SorterNext
  <2>2. CASE UNCHANGED sorterVars
    BY <2>2, SorterUnchanged
  <2>3. PlaybackNext => UNCHANGED sorterVars
    BY DEF PlaybackNext, NewPlayback, PlaybackSetValue, PlaybackAddResolution,
           PlaybackGetAwaiter, PlaybackWaitTillResolved
  <2>4. UNCHANGED vars => UNCHANGED sorterVars
    BY DEF vars
  <2> QED
    BY <2>1, <2>2, <2>3, <2>4 DEF Next
<1> QED
  BY <1>1, <1>2, PTL DEF Spec

---------------------------------------------------------------------------
(* Where the items of the first n spans stand in their concatenation.       *)
Laid(n, m, H, c, all, W) ==
    /\ n \in Nat /\ m \in Nat /\ n <= m + 1 /\ H \in [0..m -> Seq(OrderItem)]
    /\ LaidOut(c, n, H, all) /\ Placed(H, W)

ItemAt(n, H, c, all, W, k, d, q) ==
    /\ d \in 0..(n - 1) /\ q \in 1..Len(H[d]) /\ k = c[d] + q
    /\ all[k] = H[d][q] /\ all[k].value \in DOMAIN W
    /\ W[all[k].value] = [id |-> d, pos |-> q - 1]

LEMMA ItemStands ==
    ASSUME NEW n, NEW m, NEW H, NEW c, NEW all, NEW W, Laid(n, m, H, c, all, W),
           NEW k \in DOMAIN all
    PROVE  \E d, q : ItemAt(n, H, c, all, W, k, d, q)
<1>1. /\ n \in Nat /\ m \in Nat /\ n <= m + 1 /\ H \in [0..m -> Seq(OrderItem)]
      /\ Starts(c, n, H) /\ Placed(H, W) /\ all \in Seq(OrderItem) /\ Len(all) = c[n]
      /\ \A d \in 0..(n - 1) : \A q \in 1..Len(H[d]) : all[c[d] + q] = H[d][q]
  BY DEF Laid, LaidOut
<1>2. k \in 1..c[n]
  <2>1. DOMAIN all = 1..Len(all)
    BY <1>1
  <2> QED
    BY <1>1, <2>1
<1>3. \E d \in 0..(n - 1) : \E q \in 1..Len(H[d]) : k = c[d] + q
  <2>1. n \in Nat /\ m \in Nat /\ n <= m + 1 /\ H \in [0..m -> Seq(OrderItem)]
    BY <1>1
  <2>2. Starts(c, n, H)
    BY <1>1
  <2>3. InSpan(c, n, H, k)
    BY <1>2, <2>1, <2>2, Located
  <2> QED
    BY <2>3 DEF InSpan
<1>4. PICK d \in 0..(n - 1) : \E q \in 1..Len(H[d]) : k = c[d] + q
  BY <1>3
<1>5. PICK q \in 1..Len(H[d]) : k = c[d] + q
  BY <1>4
<1>6. all[k] = H[d][q]
  BY <1>1, <1>5
<1>7. d \in DOMAIN H
  BY <1>1
<1>8. H[d][q].value \in DOMAIN W /\ W[H[d][q].value] = [id |-> d, pos |-> q - 1]
  BY <1>1, <1>7 DEF Placed
<1> QED
  BY <1>5, <1>6, <1>8 DEF ItemAt

LEMMA PlacedStands ==
    ASSUME NEW n, NEW m, NEW H, NEW c, NEW all, NEW W, Laid(n, m, H, c, all, W),
           NEW r \in DOMAIN W, W[r].id < n
    PROVE  \E k \in DOMAIN all :
                all[k].value = r /\ ItemAt(n, H, c, all, W, k, W[r].id, W[r].pos + 1)
<1>1. /\ n \in Nat /\ m \in Nat /\ n <= m + 1 /\ H \in [0..m -> Seq(OrderItem)]
      /\ Starts(c, n, H) /\ Placed(H, W) /\ all \in Seq(OrderItem) /\ Len(all) = c[n]
      /\ \A d \in 0..(n - 1) : \A q \in 1..Len(H[d]) : all[c[d] + q] = H[d][q]
  BY DEF Laid, LaidOut
<1>2. /\ W[r] \in Location /\ W[r].id \in DOMAIN H /\ W[r].pos < Len(H[W[r].id])
      /\ H[W[r].id][W[r].pos + 1].value = r
  BY <1>1 DEF Placed
<1>3. PICK d, p \in Nat : d = W[r].id /\ p = W[r].pos
  BY <1>2 DEF Location
<1>4. d \in 0..(n - 1) /\ d \in 0..m /\ d \in 0..n
  BY <1>1, <1>2, <1>3
<1>5. H[d] \in Seq(OrderItem)
  BY <1>1, <1>4
<1>6. PICK L \in Nat : L = Len(H[d])
  BY <1>5
<1>7. PICK q \in 1..L : q = p + 1 /\ q - 1 = p
  <2>1. p < L
    BY <1>2, <1>3, <1>6
  <2>2. p + 1 \in 1..L /\ (p + 1) - 1 = p
    BY <2>1
  <2> QED
    BY <2>2
<1>8. H[d][q].value = r /\ all[c[d] + q] = H[d][q]
  BY <1>1, <1>2, <1>3, <1>4, <1>6, <1>7
<1>9. W[r] = [id |-> d, pos |-> q - 1]
  <2>1. W[H[d][q].value] = [id |-> d, pos |-> q - 1]
    BY <1>1, <1>2, <1>3, <1>6, <1>7 DEF Placed
  <2> QED
    BY <1>8, <2>1
<1>10. c[d] + q \in DOMAIN all
  <2>1. d + 1 \in 0..n /\ n \in 0..n /\ d + 1 <= n
    BY <1>1, <1>4
  <2>2. c[d + 1] <= c[n]
    BY <1>1, <2>1, StartsMonotone
  <2>3. PICK x, y, z \in Nat : x = c[d] /\ y = c[d + 1] /\ z = c[n]
    BY <1>1, <1>4, <2>1 DEF Starts
  <2>4. y = x + L
    BY <1>1, <1>4, <1>6, <2>3 DEF Starts
  <2>5. x + q \in 1..z
    BY <2>2, <2>3, <2>4
  <2>6. DOMAIN all = 1..z
    BY <1>1, <2>3
  <2> QED
    BY <2>3, <2>5, <2>6
<1>11. PICK k : k = c[d] + q
  OBVIOUS
<1>12. all[k].value = r /\ k \in DOMAIN all
  BY <1>8, <1>10, <1>11
<1>13. ItemAt(n, H, c, all, W, k, d, q)
  BY <1>4, <1>6, <1>8, <1>9, <1>11, <1>12 DEF ItemAt
<1> QED
  BY <1>3, <1>7, <1>12, <1>13

(* Along the concatenation the locations increase strictly.                 *)
LEMMA ItemsOrdered ==
    ASSUME NEW n, NEW m, NEW H, NEW c, NEW all, NEW W, Laid(n, m, H, c, all, W),
           NEW k, NEW d, NEW q, ItemAt(n, H, c, all, W, k, d, q),
           NEW j, NEW e, NEW p, ItemAt(n, H, c, all, W, j, e, p), j < k
    PROVE  e < d \/ (e = d /\ p < q)
<1>1. /\ n \in Nat /\ m \in Nat /\ n <= m + 1 /\ H \in [0..m -> Seq(OrderItem)]
      /\ Starts(c, n, H)
  BY DEF Laid, LaidOut
<1>2. /\ d \in 0..(n - 1) /\ q \in 1..Len(H[d]) /\ k = c[d] + q
      /\ e \in 0..(n - 1) /\ p \in 1..Len(H[e]) /\ j = c[e] + p
  BY DEF ItemAt
<1>3. c[e] + p < c[d] + q
  BY <1>2
<1> QED
  BY <1>1, <1>2, <1>3, LaidOutOrder

LEMMA OrderLaid ==
    ASSUME SorterInv
    PROVE  \E W, H, base, c :
            /\ Sorting(W) /\ Shape(H, base, guide, exec_order)
            /\ Laid(base, base + LastSpan, H, c, exec_order, W)
            /\ phase = "recorded" => \A d \in DOMAIN H : d >= base => H[d] = <<>>
<1>1. PICK W : Sorting(W)
  BY DEF SorterInv
<1>2. PICK H, base : /\ Shape(H, base, guide, exec_order) /\ Placed(H, W)
                     /\ phase = "recorded" => \A d \in DOMAIN H : d >= base => H[d] = <<>>
  BY <1>1 DEF Sorting, Sorted
<1>3. base \in Nat /\ LastSpan \in Nat /\ exec_order = FlattenSeq(FirstSpans(H, base))
  BY <1>2, LastSpanType DEF Shape
<1>4. PICK m \in Nat : m = base + LastSpan /\ base <= m + 1
  BY <1>3
<1>5. H \in [0..m -> Seq(OrderItem)]
  BY <1>2, <1>4 DEF Shape
<1>6. \E c : LaidOut(c, base, H, FlattenSeq(FirstSpans(H, base)))
  BY <1>3, <1>4, <1>5, SpansLaidOut
<1>7. PICK c : LaidOut(c, base, H, exec_order)
  BY <1>3, <1>6
<1>8. Laid(base, m, H, c, exec_order, W)
  BY <1>2, <1>3, <1>4, <1>5, <1>7 DEF Laid
<1> QED
  BY <1>1, <1>2, <1>4, <1>8

(* A resolver stands behind those it needs, and no window that starts at or *)
(* before one of them reaches it.                                           *)
At(d, q) == [id |-> d, pos |-> q - 1]

LEMMA FollowsLater ==
    ASSUME NEW n, NEW m, NEW H, NEW c, NEW all, NEW W, Laid(n, m, H, c, all, W),
           NEW k, NEW d, NEW q, ItemAt(n, H, c, all, W, k, d, q),
           NEW j, NEW e, NEW p, ItemAt(n, H, c, all, W, j, e, p), Follows(At(e, p), At(d, q))
    PROVE  j < k /\ e < d /\ (e + 1 < d \/ (e + 1 = d /\ p <= q))
<1>1. /\ n \in Nat /\ m \in Nat /\ n <= m + 1 /\ H \in [0..m -> Seq(OrderItem)]
      /\ Starts(c, n, H)
  BY DEF Laid, LaidOut
<1>2. /\ d \in 0..(n - 1) /\ q \in 1..Len(H[d]) /\ k = c[d] + q
      /\ e \in 0..(n - 1) /\ p \in 1..Len(H[e]) /\ j = c[e] + p
  BY DEF ItemAt
<1>3. d \in 0..m /\ e \in 0..m /\ d \in 0..n /\ e \in 0..n /\ e + 1 \in 0..n
  BY <1>1, <1>2
<1>4. H[d] \in Seq(OrderItem) /\ H[e] \in Seq(OrderItem)
  BY <1>1, <1>3
<1>5. PICK M, N \in Nat : M = Len(H[d]) /\ N = Len(H[e])
  BY <1>4
<1>6. q \in Nat /\ q >= 1 /\ q <= M /\ p \in Nat /\ p >= 1 /\ p <= N /\ d \in Nat /\ e \in Nat
  BY <1>2, <1>5
<1>7. e + 1 < d \/ (e + 1 = d /\ p <= q)
  <2>1. e + 1 < d \/ (e + 1 = d /\ p - 1 <= q - 1)
    BY DEF Follows, At
  <2> QED
    BY <1>6, <2>1
<1>8. e + 1 <= d /\ e < d
  BY <1>6, <1>7
<1>9. PICK x, y, z \in Nat : x = c[e] /\ y = c[e + 1] /\ z = c[d]
  BY <1>1, <1>3 DEF Starts
<1>10. y = x + N
  BY <1>1, <1>2, <1>5, <1>9 DEF Starts
<1>11. y <= z
  <2>1. c[e + 1] <= c[d]
    BY <1>1, <1>3, <1>8, StartsMonotone
  <2> QED
    BY <1>9, <2>1
<1>12. x + p < z + q
  BY <1>6, <1>10, <1>11
<1> QED
  BY <1>2, <1>7, <1>8, <1>9, <1>12

LEMMA WindowEnds ==
    ASSUME NEW n, NEW m, NEW H, NEW c, NEW all, NEW W, Laid(n, m, H, c, all, W), Windows(H, n),
           NEW k, NEW d, NEW q, ItemAt(n, H, c, all, W, k, d, q),
           NEW j, NEW e, NEW p, ItemAt(n, H, c, all, W, j, e, p), Follows(At(e, p), At(d, q)),
           NEW i, NEW f, NEW s, ItemAt(n, H, c, all, W, i, f, s), i <= j
    PROVE  i + all[i].parallelism <= k
<1>1. /\ n \in Nat /\ m \in Nat /\ n <= m + 1 /\ H \in [0..m -> Seq(OrderItem)]
      /\ Starts(c, n, H)
  BY DEF Laid, LaidOut
<1>2. /\ d \in 0..(n - 1) /\ q \in 1..Len(H[d]) /\ k = c[d] + q
      /\ e \in 0..(n - 1) /\ p \in 1..Len(H[e]) /\ j = c[e] + p
      /\ f \in 0..(n - 1) /\ s \in 1..Len(H[f]) /\ i = c[f] + s /\ all[i] = H[f][s]
  BY DEF ItemAt
<1>3. e < d /\ (e + 1 < d \/ (e + 1 = d /\ p <= q))
  BY FollowsLater
<1>4. f < e \/ (f = e /\ s <= p)
  <2>1. CASE i < j
    <3>1. f < e \/ (f = e /\ s < p)
      BY <2>1, ItemsOrdered
    <3>2. s \in Int /\ p \in Int
      BY <1>2
    <3> QED
      BY <3>1, <3>2
  <2>2. CASE ~(i < j)
    <3>1. i \in Int /\ j \in Int
      <4>0. e \in 0..n /\ f \in 0..n
        BY <1>1, <1>2
      <4>1. PICK x, y \in Nat : x = c[e] /\ y = c[f]
        BY <1>1, <4>0 DEF Starts
      <4>2. PICK u, v \in Nat : u = s /\ v = p
        BY <1>2
      <4>3. i = y + u /\ j = x + v
        BY <1>2, <4>1, <4>2
      <4> QED
        BY <4>3
    <3>2. i = j
      BY <2>2, <3>1
    <3>3. At(f, s) = At(e, p)
      BY <3>2 DEF ItemAt, At
    <3>4. f = e /\ s - 1 = p - 1
      BY <3>3 DEF At
    <3>5. s \in Int /\ p \in Int
      BY <1>2
    <3> QED
      BY <3>4, <3>5
  <2> QED
    BY <2>1, <2>2
<1>5. d \in Nat /\ e \in Nat /\ f \in Nat /\ f + 1 <= d /\ d < n
  <2>1. n \in Nat /\ d \in 0..(n - 1) /\ e \in 0..(n - 1) /\ f \in 0..(n - 1)
    BY <1>1, <1>2
  <2>2. d \in Nat /\ e \in Nat /\ f \in Nat /\ d < n
    BY <2>1
  <2>3. f + 1 <= d
    BY <1>3, <1>4, <2>2
  <2> QED
    BY <2>2, <2>3
<1>6. /\ f \in 0..m /\ f + 1 \in 0..m /\ d \in 0..m /\ f \in 0..n /\ d \in 0..n
      /\ f + 1 \in 0..n /\ f + 2 \in 0..n /\ f + 1 \in 0..(n - 1) /\ (f + 1) + 1 = f + 2
  BY <1>1, <1>5
<1>7. H[f] \in Seq(OrderItem) /\ H[f + 1] \in Seq(OrderItem)
  BY <1>1, <1>6
<1>8. PICK N, M \in Nat : N = Len(H[f]) /\ M = Len(H[f + 1])
  BY <1>7
<1>9. PICK par : par = all[i].parallelism
  OBVIOUS
<1>10. PICK x \in 0..(N - 1) : x = s - 1 /\ s = x + 1
  <2>1. s - 1 \in 0..(N - 1) /\ s = (s - 1) + 1
    BY <1>2, <1>8
  <2> QED
    BY <2>1
<1>11. WindowFits(par, x, N, M)
  <2>1. WindowFits(H[f][x + 1].parallelism, x, Len(H[f]), Len(H[f + 1]))
    BY <1>2, <1>8, <1>10 DEF Windows
  <2> QED
    BY <1>2, <1>8, <1>9, <1>10, <2>1
<1>12. /\ par \in Nat /\ x + par <= N + M
       /\ \A y \in 0..(M - 1) : x <= y => x + par <= N + y
  BY <1>11 DEF WindowFits
<1>13. PICK a, b, g, h \in Nat : a = c[f] /\ b = c[f + 1] /\ g = c[f + 2] /\ h = c[d]
  BY <1>1, <1>6 DEF Starts
<1>14. b = a + N
  BY <1>1, <1>2, <1>8, <1>13 DEF Starts
<1>15. g = b + M
  BY <1>1, <1>6, <1>8, <1>13 DEF Starts
<1>16. q \in Nat /\ q >= 1 /\ p \in Nat /\ s \in Nat
  BY <1>2
<1>17. CASE f + 2 <= d
  <2>1. g <= h
    <3>1. c[f + 2] <= c[d]
      BY <1>1, <1>6, <1>17, StartsMonotone
    <3> QED
      BY <1>13, <3>1
  <2>2. a + s + par <= h + q
    BY <1>10, <1>12, <1>14, <1>15, <1>16, <2>1
  <2> QED
    BY <1>2, <1>9, <1>13, <2>2
<1>18. CASE ~(f + 2 <= d)
  <2>1. f + 1 = d /\ f = e /\ e + 1 = d
    BY <1>3, <1>4, <1>5, <1>18
  <2>2. s <= p /\ p <= q
    BY <1>3, <1>4, <1>5, <2>1
  <2>3. q <= M /\ h = b
    <3>1. q \in 1..M
      BY <1>2, <1>8, <2>1
    <3> QED
      BY <1>13, <2>1, <3>1
  <2>4. q - 1 \in 0..(M - 1) /\ x <= q - 1
    BY <1>10, <1>16, <2>2, <2>3
  <2>5. x + par <= N + (q - 1)
    BY <1>12, <2>4
  <2>6. a + s + par <= h + q
    BY <1>10, <1>12, <1>14, <1>16, <2>3, <2>5
  <2> QED
    BY <1>2, <1>9, <1>13, <2>6
<1> QED
  BY <1>17, <1>18

(* Everything a placed resolver needs was set, or comes from one it follows. *)
LEMMA InputFrom ==
    ASSUME SorterTypes, NEW W, Sorting(W), NEW r \in DOMAIN W, NEW v \in InputsOf(r)
    PROVE  v \in is_set
           \/ \E q \in DOMAIN W : v \in OutputsOf(q) /\ Follows(W[q], W[r])
<1>1. v \in Places
  BY KnownWaiting, KnownResolver
<1>2. tracker[v] # None /\ Follows(tracker[v], W[r])
  BY LocationNotNone DEF Sorting, Settled
<1>3. v \in is_set \/ \E q \in DOMAIN W : v \in OutputsOf(q)
  BY <1>1, <1>2 DEF Sorting, Settled
<1>4. \A q \in DOMAIN W : v \in OutputsOf(q) => tracker[v] = W[q]
  BY DEF Sorting, Settled
<1> QED
  BY <1>2, <1>3, <1>4

LEMMA BatchesFromInv ==
    ASSUME SorterInv PROVE BatchesIndependent
<1>0. SorterTypes
  BY DEF SorterInv
<1>1. PICK W, H, base, c :
            /\ Sorting(W) /\ Shape(H, base, guide, exec_order)
            /\ Laid(base, base + LastSpan, H, c, exec_order, W)
  BY OrderLaid
<1>2. PICK m : m = base + LastSpan
  OBVIOUS
<1>3. Laid(base, m, H, c, exec_order, W) /\ Windows(H, base) /\ base \in Nat
  BY <1>1, <1>2 DEF Shape
<1>4. \A k \in DOMAIN exec_order : \E d, q : ItemAt(base, H, c, exec_order, W, k, d, q)
  BY <1>3, ItemStands
<1> SUFFICES ASSUME NEW k \in DOMAIN exec_order
             PROVE
        /\ exec_order[k].parallelism > 0
        /\ \A j \in DOMAIN exec_order : DependsOn(k, j) =>
                /\ j < k
                /\ \A i \in 1..j : i + exec_order[i].parallelism <= k
        /\ \A v \in InputsOf(exec_order[k].value) :
                v \in is_set \/ \E j \in 1..(k - 1) : v \in OutputsOf(exec_order[j].value)
  BY DEF BatchesIndependent
<1>5. PICK d, q : ItemAt(base, H, c, exec_order, W, k, d, q)
  BY <1>4
<1>6. PICK r \in DOMAIN W : r = exec_order[k].value /\ W[r] = At(d, q)
  BY <1>5 DEF ItemAt, At
<1>7. DOMAIN exec_order = 1..Len(exec_order) /\ Len(exec_order) \in Nat
  <2>1. exec_order \in Seq(OrderItem)
    BY <1>3 DEF Laid, LaidOut
  <2> QED
    BY <2>1
<1>8. exec_order[k].parallelism > 0
  <2>1. d \in 0..(base - 1) /\ q \in 1..Len(H[d]) /\ exec_order[k] = H[d][q]
    BY <1>5 DEF ItemAt
  <2>2. d \in DOMAIN H /\ H[d] \in Seq(OrderItem)
    <3>1. d \in 0..m /\ H \in [0..m -> Seq(OrderItem)]
      BY <1>3, <2>1 DEF Laid
    <3> QED
      BY <3>1
  <2>3. PICK x \in 0..(Len(H[d]) - 1) : q = x + 1
    <3>1. q - 1 \in 0..(Len(H[d]) - 1) /\ q = (q - 1) + 1
      BY <2>1, <2>2
    <3> QED
      BY <3>1
  <2>4. WindowFits(H[d][x + 1].parallelism, x, Len(H[d]), Len(H[d + 1]))
    BY <1>3, <2>1 DEF Windows
  <2> QED
    BY <2>1, <2>3, <2>4 DEF WindowFits
<1>9. ASSUME NEW j \in DOMAIN exec_order, DependsOn(k, j)
      PROVE  j < k /\ \A i \in 1..j : i + exec_order[i].parallelism <= k
  <2>1. PICK e, p : ItemAt(base, H, c, exec_order, W, j, e, p)
    BY <1>4
  <2>2. PICK s \in DOMAIN W : s = exec_order[j].value /\ W[s] = At(e, p)
    BY <2>1 DEF ItemAt, At
  <2>3. PICK v : v \in InputsOf(r) /\ v \in OutputsOf(s)
    BY <1>6, <1>9, <2>2 DEF DependsOn
  <2>4. Follows(At(e, p), At(d, q))
    <3>1. tracker[v] = W[s] /\ Follows(tracker[v], W[r])
      BY <1>1, <2>3 DEF Sorting, Settled
    <3> QED
      BY <1>6, <2>2, <3>1
  <2>5. j < k
    BY <1>3, <1>5, <2>1, <2>4, FollowsLater
  <2>6. ASSUME NEW i \in 1..j PROVE i + exec_order[i].parallelism <= k
    <3>1. i \in DOMAIN exec_order /\ i <= j
      BY <1>7
    <3>2. PICK f, t : ItemAt(base, H, c, exec_order, W, i, f, t)
      BY <1>4, <3>1
    <3> QED
      BY <1>3, <1>5, <2>1, <2>4, <3>1, <3>2, WindowEnds
  <2> QED
    BY <2>5, <2>6
<1>10. ASSUME NEW v \in InputsOf(r), v \notin is_set
       PROVE  \E j \in 1..(k - 1) : v \in OutputsOf(exec_order[j].value)
  <2>1. PICK s \in DOMAIN W : v \in OutputsOf(s) /\ Follows(W[s], W[r])
    BY <1>0, <1>1, <1>10, InputFrom
  <2>2. PICK e, p : e = W[s].id /\ p = W[s].pos + 1
    OBVIOUS
  <2>3. W[s] \in Location
    BY <1>3 DEF Laid, Placed
  <2>4. At(e, p) = W[s]
    <3>1. PICK a, b \in Nat : W[s] = [id |-> a, pos |-> b]
      BY <2>3 DEF Location
    <3>2. e = a /\ p - 1 = b
      BY <2>2, <3>1
    <3> QED
      BY <3>1, <3>2 DEF At
  <2>5. W[s].id < base
    <3>1. PICK a \in Nat : a = W[s].id
      BY <2>3 DEF Location
    <3>2. d \in 0..(base - 1)
      BY <1>5 DEF ItemAt
    <3>3. At(d, q).id = d
      BY DEF At
    <3>4. a + 1 <= d
      BY <1>6, <2>1, <3>1, <3>2, <3>3 DEF Follows
    <3> QED
      BY <1>3, <3>1, <3>2, <3>4
  <2>6. \E j \in DOMAIN exec_order : exec_order[j].value = s
            /\ ItemAt(base, H, c, exec_order, W, j, W[s].id, W[s].pos + 1)
    BY <1>3, <2>5, PlacedStands
  <2>7. PICK j \in DOMAIN exec_order : exec_order[j].value = s
            /\ ItemAt(base, H, c, exec_order, W, j, e, p)
    BY <2>2, <2>6
  <2>8. Follows(At(e, p), At(d, q))
    BY <1>6, <2>1, <2>4
  <2>9. j < k
    BY <1>3, <1>5, <2>7, <2>8, FollowsLater
  <2>10. j \in 1..(k - 1)
    BY <1>7, <2>9
  <2> QED
    BY <2>1, <2>7, <2>10
<1> QED
  BY <1>6, <1>8, <1>9, <1>10

(* No batch of the order holds an item and something it needs, whatever     *)
(* item the batch starts with, and everything an item needs is set or       *)
(* stands before it: for every client, parallelism and guide size.          *)
THEOREM BatchesAreIndependent == Spec => []BatchesIndependent
<1>1. SorterInv => BatchesIndependent
  BY BatchesFromInv
<1> QED
  BY <1>1, SorterInvariant, PTL

---------------------------------------------------------------------------
LEMMA TrackersFromInv ==
    ASSUME SorterInv PROVE TrackersFollowOrder
<1>0. SorterTypes
  BY DEF SorterInv
<1>1. PICK W : Sorting(W)
  BY DEF SorterInv
<1>2. PICK H, base : Shape(H, base, guide, exec_order) /\ Placed(H, W)
  BY <1>1 DEF Sorting, Sorted
<1>3. /\ base \in Nat /\ LastSpan \in Nat /\ GUIDE_SIZE = LastSpan + 1
      /\ H \in [0..(base + LastSpan) -> Seq(OrderItem)]
  BY <1>2, LastSpanType DEF Shape
<1>4. PICK m, n, G \in Nat :
        /\ m = base + LastSpan /\ G = GUIDE_SIZE /\ n = base + G /\ n = m + 1 /\ n <= m + 1
  <2>1. base + LastSpan \in Nat /\ base + GUIDE_SIZE \in Nat /\ GUIDE_SIZE \in Nat
        /\ base + GUIDE_SIZE = (base + LastSpan) + 1
    BY <1>3
  <2> QED
    BY <2>1
<1>5. H \in [0..m -> Seq(OrderItem)]
  BY <1>3, <1>4
<1>6. PICK items : items = exec_order \o GuideItems(guide)
  OBVIOUS
<1>7. items = FlattenSeq(FirstSpans(H, n))
  <2>1. PICK s, a, b : /\ s = FirstSpans(H, n) /\ a = FirstSpans(H, base)
                       /\ b = [k \in 1..G |-> guide.spans[k - 1].buffer]
    OBVIOUS
  <2>2. \A k \in 1..n : k - 1 \in 0..m
    BY <1>4
  <2>3. s \in [1..(base + G) -> Seq(OrderItem)] /\ \A i \in 1..n : s[i] = H[i - 1]
    BY <1>4, <1>5, <2>1, <2>2 DEF FirstSpans
  <2>4. \A k \in 1..base : k - 1 \in 0..m /\ k \in 1..n
    BY <1>3, <1>4
  <2>5. a \in [1..base -> Seq(OrderItem)] /\ \A i \in 1..base : a[i] = H[i - 1]
    BY <1>5, <2>1, <2>4 DEF FirstSpans
  <2>6. \A k \in 1..G : /\ k - 1 \in SpanIxs /\ base + (k - 1) \in 0..m
                        /\ base + k \in 1..n /\ (base + k) - 1 = base + (k - 1)
    BY <1>3, <1>4 DEF SpanIxs
  <2>7. \A k \in 1..G : b[k] = H[base + (k - 1)]
    BY <1>2, <2>1, <2>6 DEF Shape, InGuide
  <2>8. b \in [1..G -> Seq(OrderItem)]
    <3>1. \A k \in 1..G : H[base + (k - 1)] \in Seq(OrderItem)
      BY <1>5, <2>6
    <3>2. DOMAIN b = 1..G /\ b = [k \in 1..G |-> b[k]]
      BY <2>1
    <3> QED
      BY <2>7, <3>1, <3>2
  <2>9. InParts(OrderItem, s, a, base, b, G)
    BY <1>3, <1>4, <2>3, <2>4, <2>5, <2>6, <2>7, <2>8 DEF InParts
  <2>10. FlattenSeq(s) = FlattenSeq(a) \o FlattenSeq(b)
    BY <2>9, FlattenConcat
  <2>11. exec_order = FlattenSeq(a)
    BY <1>2, <2>1 DEF Shape
  <2>12. GuideItems(guide) = FlattenSeq(b)
    BY <1>4, <2>1 DEF GuideItems, Released
  <2> QED
    BY <1>6, <2>1, <2>10, <2>11, <2>12
<1>8. \E c : LaidOut(c, n, H, FlattenSeq(FirstSpans(H, n)))
  BY <1>4, <1>5, SpansLaidOut
<1>9. PICK c : LaidOut(c, n, H, items)
  BY <1>7, <1>8
<1>10. Laid(n, m, H, c, items, W)
  BY <1>2, <1>4, <1>5, <1>9 DEF Laid
<1> DEFINE loc(k) == tracker[CHOOSE v \in OutputsOf(items[k].value) : TRUE]
<1>11. ASSUME NEW k \in DOMAIN items, OutputsOf(items[k].value) # {}
       PROVE  \E d, q : ItemAt(n, H, c, items, W, k, d, q) /\ loc(k) = At(d, q) /\ d >= 1
  <2>1. PICK d, q : ItemAt(n, H, c, items, W, k, d, q)
    BY <1>10, ItemStands
  <2>2. PICK r \in DOMAIN W : r = items[k].value /\ W[r] = At(d, q)
    BY <2>1 DEF ItemAt, At
  <2>3. PICK v \in OutputsOf(r) : v = CHOOSE x \in OutputsOf(items[k].value) : TRUE
    BY <1>11, <2>2
  <2>4. tracker[v] = W[r] /\ W[r].id >= 1
    BY <1>1 DEF Sorting, Settled
  <2>5. At(d, q).id = d
    BY DEF At
  <2> QED
    BY <2>1, <2>2, <2>3, <2>4, <2>5
<1>12. ASSUME NEW k \in DOMAIN items, OutputsOf(items[k].value) # {}
       PROVE  LocBefore(DefaultLoc, loc(k))
  <2> HIDE DEF loc
  <2>1. PICK d, q : ItemAt(n, H, c, items, W, k, d, q) /\ loc(k) = At(d, q) /\ d >= 1
    BY <1>11, <1>12
  <2>2. d \in Nat /\ At(d, q).id = d /\ DefaultLoc.id = 0
    BY <2>1 DEF ItemAt, At, DefaultLoc
  <2>3. 0 < d
    BY <2>1, <2>2
  <2> QED
    BY <2>1, <2>2, <2>3 DEF LocBefore
<1>13. ASSUME NEW k \in DOMAIN items, NEW j \in 1..(k - 1),
              OutputsOf(items[j].value) # {}, OutputsOf(items[k].value) # {}
       PROVE  LocBefore(loc(j), loc(k))
  <2> HIDE DEF loc
  <2>1. DOMAIN items = 1..Len(items) /\ Len(items) \in Nat
    <3>1. items \in Seq(OrderItem)
      BY <1>9 DEF LaidOut
    <3> QED
      BY <3>1
  <2>2. j \in DOMAIN items /\ j < k
    BY <2>1
  <2>3. PICK d, q : ItemAt(n, H, c, items, W, k, d, q) /\ loc(k) = At(d, q)
    BY <1>11, <1>13
  <2>4. PICK e, p : ItemAt(n, H, c, items, W, j, e, p) /\ loc(j) = At(e, p)
    BY <1>11, <1>13, <2>2
  <2>5. e < d \/ (e = d /\ p < q)
    BY <1>10, <2>2, <2>3, <2>4, ItemsOrdered
  <2>6. p \in Int /\ q \in Int
    BY <2>3, <2>4 DEF ItemAt
  <2>7. e < d \/ (e = d /\ p - 1 < q - 1)
    BY <2>5, <2>6
  <2>8. LocBefore(At(e, p), At(d, q))
    BY <2>7 DEF LocBefore, At
  <2> QED
    BY <2>3, <2>4, <2>8
<1> QED
  BY <1>6, <1>12, <1>13 DEF TrackersFollowOrder

(* The locations of outputs increase strictly along the order and from it   *)
(* into the guide, and none is the location of a value that was set: the    *)
(* comparison an awaiter makes and the assertion in notify are right.       *)
THEOREM TrackersFollowTheOrder == Spec => []TrackersFollowOrder
<1>1. SorterInv => TrackersFollowOrder
  BY TrackersFromInv
<1> QED
  BY <1>1, SorterInvariant, PTL

---------------------------------------------------------------------------
(* The client's side: every place that is given is set, given by a          *)
(* registered resolver or still to be given; inputs are given; and there    *)
(* are records for the registrations to come.                               *)
Adds(p) == {i \in DOMAIN p : p[i].op = "add"}

Accounted(n) ==
    /\ \A v \in 0..(n - 1) : \/ v \in is_set
                             \/ \E r \in Known : v \in OutputsOf(r)
                             \/ \E i \in DOMAIN plan : v \in Gives(plan[i])
    /\ \A r \in Known : InputsOf(r) \subseteq 0..(n - 1)
    /\ \A i \in DOMAIN plan : plan[i].inputs \subseteq 0..(n - 1)

Budget == Len(resolvers) + Cardinality(Adds(plan)) <= 2 * NumPlaces

Accounts == Budget /\ \E n \in 0..NumPlaces : Accounted(n)

LEMMA AddsFinite ==
    ASSUME NEW p \in Seq(Call)
    PROVE  IsFiniteSet(Adds(p)) /\ Cardinality(Adds(p)) \in Nat
<1>1. 1 \in Int /\ Len(p) \in Int /\ DOMAIN p = 1..Len(p)
  OBVIOUS
<1>2. IsFiniteSet(1..Len(p)) /\ Adds(p) \in SUBSET (1..Len(p))
  BY <1>1, FS_Interval DEF Adds
<1>3. IsFiniteSet(Adds(p))
  BY <1>2, FS_Subset
<1> QED
  BY <1>3, FS_CardinalityType

LEMMA AddsTail ==
    ASSUME NEW p \in Seq(Call), p # <<>>
    PROVE  Cardinality(Adds(p))
             = Cardinality(Adds(Tail(p))) + (IF Head(p).op = "add" THEN 1 ELSE 0)
<1>1. PICK n \in Nat : n + 1 = Len(p)
  <2>1. Len(p) \in Nat \ {0}
    BY EmptySeq
  <2>2. Len(p) - 1 \in Nat /\ (Len(p) - 1) + 1 = Len(p)
    BY <2>1
  <2> QED
    BY <2>2
<1>2. PICK t \in Seq(Call) : t = Tail(p)
  BY HeadTailProperties
<1>3. /\ DOMAIN p = 1..(n + 1) /\ DOMAIN t = 1..n /\ p[1] = Head(p)
      /\ \A i \in 1..n : t[i] = p[i + 1]
  BY <1>1, <1>2
<1>4. PICK A, B : A = Adds(t) /\ B = Adds(p) \ {1}
  OBVIOUS
<1>5. PICK f : f = [i \in A |-> i + 1]
  OBVIOUS
<1>6. \A i \in A : i \in 1..n /\ t[i].op = "add"
  BY <1>3, <1>4 DEF Adds
<1>7. \A i \in A : i + 1 \in B
  <2>1. \A i \in 1..n : i + 1 \in 1..(n + 1) /\ i + 1 # 1
    OBVIOUS
  <2> QED
    BY <1>3, <1>4, <1>6, <2>1 DEF Adds
<1>8. \A j \in B : \E i \in A : j = i + 1
  <2> SUFFICES ASSUME NEW j \in B PROVE \E i \in A : j = i + 1
    OBVIOUS
  <2>1. j \in 1..(n + 1) /\ j # 1 /\ p[j].op = "add"
    BY <1>3, <1>4 DEF Adds
  <2>2. PICK i \in 1..n : j = i + 1
    <3>1. j - 1 \in 1..n /\ j = (j - 1) + 1
      BY <2>1
    <3> QED
      BY <3>1
  <2>3. i \in A
    BY <1>3, <1>4, <2>1, <2>2 DEF Adds
  <2> QED
    BY <2>2, <2>3
<1>9. \A i, j \in A : i + 1 = j + 1 => i = j
  <2>1. \A i, j \in 1..n : i + 1 = j + 1 => i = j
    OBVIOUS
  <2> QED
    BY <1>6, <2>1
<1>10. f \in Bijection(A, B)
  <2>1. f \in [A -> B] /\ DOMAIN f = A /\ \A i \in A : f[i] = i + 1
    BY <1>5, <1>7
  <2>2. f \in Injection(A, B)
    BY <1>9, <2>1 DEF Injection, IsInjective
  <2>3. f \in Surjection(A, B)
    BY <1>8, <2>1 DEF Surjection
  <2> QED
    BY <2>2, <2>3 DEF Bijection
<1>11. IsFiniteSet(A) /\ Cardinality(A) \in Nat
  BY <1>4, AddsFinite
<1>12. Cardinality(B) = Cardinality(A)
  <2>1. ExistsBijection(A, B)
    BY <1>10 DEF ExistsBijection
  <2> QED
    BY <1>11, <2>1, FS_Bijection
<1>13. IsFiniteSet(Adds(p)) /\ Cardinality(Adds(p)) \in Nat
  BY AddsFinite
<1>14. Cardinality(B) = IF 1 \in Adds(p) THEN Cardinality(Adds(p)) - 1 ELSE Cardinality(Adds(p))
  BY <1>4, <1>13, FS_RemoveElement
<1>15. 1 \in Adds(p) <=> Head(p).op = "add"
  <2>1. 1 \in 1..(n + 1)
    OBVIOUS
  <2> QED
    BY <1>3, <2>1 DEF Adds
<1>16. PICK x, y \in Nat : x = Cardinality(Adds(p)) /\ y = Cardinality(A)
  BY <1>11, <1>13
<1>17. x = y + (IF Head(p).op = "add" THEN 1 ELSE 0)
  <2>1. y = IF 1 \in Adds(p) THEN x - 1 ELSE x
    BY <1>12, <1>14, <1>16
  <2>2. CASE Head(p).op = "add"
    <3>1. y = x - 1
      BY <1>15, <2>1, <2>2
    <3> QED
      BY <2>2, <3>1
  <2>3. CASE Head(p).op # "add"
    <3>1. y = x
      BY <1>15, <2>1, <2>3
    <3> QED
      BY <2>3, <3>1
  <2> QED
    BY <2>2, <2>3
<1> QED
  BY <1>2, <1>4, <1>16, <1>17

LEMMA AccountsInit == SorterInit => Accounts
<1> SUFFICES ASSUME SorterInit PROVE Accounts
  OBVIOUS
<1>1. plan \in Seq(Call) /\ PlanLegal(plan)
  BY SorterAssumption DEF SorterInit
<1>2. Len(resolvers) = 0 /\ Known = {}
  BY DEF SorterInit, Known
<1>3. Budget
  <2>1. Cardinality(Adds(plan)) \in Nat
    BY <1>1, AddsFinite
  <2>2. Cardinality(Adds(plan)) <= 2 * NumPlaces
    BY <1>1 DEF PlanLegal, Adds
  <2> QED
    BY <1>2, <2>1, <2>2 DEF Budget
<1>4. PICK given : given = UNION {Gives(plan[i]) : i \in DOMAIN plan}
  OBVIOUS
<1>5. PICK n \in 0..NumPlaces : given = 0..(n - 1)
  BY <1>1, <1>4 DEF PlanLegal, Given
<1>6. \A i \in DOMAIN plan : plan[i].inputs \subseteq given
  BY <1>1, <1>4 DEF PlanLegal, Given
<1>7. Accounted(n)
  BY <1>2, <1>4, <1>5, <1>6 DEF Accounted
<1> QED
  BY <1>3, <1>7 DEF Accounts

(* The calls move from the plan to the log.                                 *)
LEMMA AccountsNext ==
    ASSUME SorterInv, Accounts, SorterNext \/ UNCHANGED sorterVars PROVE Accounts'
<1>0. SorterTypes /\ plan \in Seq(Call) /\ resolvers \in Seq(Resolver)
  BY DEF SorterInv, SorterTypes
<1>1. PICK n \in 0..NumPlaces : Accounted(n)
  BY DEF Accounts
<1>2. Budget
  BY DEF Accounts
<1>3. CASE UNCHANGED <<plan, resolvers, is_set>>
  <2>1. Known' = Known /\ \A r : InputsOf(r)' = InputsOf(r) /\ OutputsOf(r)' = OutputsOf(r)
    BY <1>3 DEF Known, InputsOf, OutputsOf
  <2>2. Accounted(n)'
    BY <1>1, <1>3, <2>1 DEF Accounted
  <2>3. Budget'
    BY <1>2, <1>3 DEF Budget
  <2> QED
    BY <2>2, <2>3 DEF Accounts
<1>4. ASSUME plan # <<>>
      PROVE  /\ Head(plan) \in Call /\ Tail(plan) \in Seq(Call)
             /\ 1 \in DOMAIN plan /\ plan[1] = Head(plan)
             /\ \A i \in DOMAIN Tail(plan) : i + 1 \in DOMAIN plan /\ Tail(plan)[i] = plan[i + 1]
             /\ \A i \in DOMAIN plan : i = 1 \/ \E j \in DOMAIN Tail(plan) : i = j + 1
  <2>1. /\ Head(plan) \in Call /\ Tail(plan) \in Seq(Call)
        /\ 1 \in DOMAIN plan /\ plan[1] = Head(plan)
        /\ \A i \in DOMAIN Tail(plan) : i + 1 \in DOMAIN plan /\ Tail(plan)[i] = plan[i + 1]
    BY <1>0, <1>4, PlanTail
  <2>2. Len(plan) \in Nat \ {0}
    BY <1>0, <1>4, EmptySeq
  <2>3. PICK m \in Nat : Len(plan) = m + 1
    <3>1. Len(plan) - 1 \in Nat /\ Len(plan) = (Len(plan) - 1) + 1
      BY <2>2
    <3> QED
      BY <3>1
  <2>4. DOMAIN plan = 1..(m + 1) /\ DOMAIN Tail(plan) = 1..m
    BY <1>0, <1>4, <2>3
  <2>5. ASSUME NEW i \in 1..(m + 1), i # 1 PROVE \E j \in 1..m : i = j + 1
    <3>1. i - 1 \in 1..m /\ i = (i - 1) + 1
      BY <2>5
    <3> QED
      BY <3>1
  <2> QED
    BY <2>1, <2>4, <2>5
<1>5. CASE SetValue
  <2>1. /\ plan # <<>> /\ Head(plan).op = "set" /\ plan' = Tail(plan)
        /\ is_set' = is_set \union {Head(plan).key} /\ resolvers' = resolvers
    BY <1>5 DEF SetValue
  <2>2. Known' = Known /\ \A r : InputsOf(r)' = InputsOf(r) /\ OutputsOf(r)' = OutputsOf(r)
    BY <2>1 DEF Known, InputsOf, OutputsOf
  <2>3. Gives(plan[1]) = {Head(plan).key}
    BY <1>4, <2>1, CallCases
  <2>4. Accounted(n)'
    <3>1. ASSUME NEW v \in 0..(n - 1)
          PROVE  \/ v \in is_set'
                 \/ \E r \in Known : v \in OutputsOf(r)
                 \/ \E i \in DOMAIN plan' : v \in Gives(plan'[i])
      <4>1. ASSUME NEW i \in DOMAIN plan, v \in Gives(plan[i])
            PROVE  v \in is_set' \/ \E j \in DOMAIN plan' : v \in Gives(plan'[j])
        BY <1>4, <2>1, <2>3, <4>1
      <4> QED
        BY <1>1, <2>1, <4>1 DEF Accounted
    <3>2. \A i \in DOMAIN plan' : plan'[i].inputs \subseteq 0..(n - 1)
      BY <1>1, <1>4, <2>1 DEF Accounted
    <3> QED
      BY <1>1, <2>2, <3>1, <3>2 DEF Accounted
  <2>5. Budget'
    <3>1. Cardinality(Adds(plan))
             = Cardinality(Adds(Tail(plan))) + (IF Head(plan).op = "add" THEN 1 ELSE 0)
      BY <1>0, <2>1, AddsTail
    <3>2. Cardinality(Adds(Tail(plan))) \in Nat
      BY <1>4, <2>1, AddsFinite
    <3>3. Cardinality(Adds(plan)) = Cardinality(Adds(plan'))
      BY <2>1, <3>1, <3>2
    <3> QED
      BY <1>2, <2>1, <3>3 DEF Budget
  <2> QED
    BY <2>4, <2>5 DEF Accounts
<1>6. CASE AddResolution
  <2>0. PICK L \in Nat : L = Len(resolvers)
    BY <1>0
  <2>1. PICK new : new = [inputs |-> Head(plan).inputs, outputs |-> Head(plan).outputs]
    OBVIOUS
  <2>2. /\ plan # <<>> /\ Head(plan).op = "add" /\ plan' = Tail(plan)
        /\ is_set' = is_set /\ resolvers' = Append(resolvers, new)
    BY <1>6, <2>1 DEF AddResolution
  <2>3. /\ Gives(plan[1]) = Head(plan).outputs
        /\ Head(plan).inputs \in SUBSET Places /\ Head(plan).outputs \in SUBSET Places
    BY <1>4, <2>2, CallCases
  <2>4. new \in Resolver
    BY <2>1, <2>3 DEF Resolver
  <2>5. Len(resolvers') = L + 1 /\ resolvers'[L + 1] = new
        /\ \A k \in 1..L : resolvers'[k] = resolvers[k]
    BY <1>0, <2>0, <2>2, <2>4, AppendProperties
  <2>6. Known = 0..(L - 1) /\ Known' = 0..L
    <3>1. (L + 1) - 1 = L
      OBVIOUS
    <3> QED
      BY <2>0, <2>5, <3>1 DEF Known
  <2>7. Known' = Known \union {L} /\ \A q \in Known : q + 1 \in 1..L
    BY <2>6
  <2>8. /\ InputsOf(L)' = Head(plan).inputs /\ OutputsOf(L)' = Gives(plan[1])
        /\ \A q \in Known : InputsOf(q)' = InputsOf(q) /\ OutputsOf(q)' = OutputsOf(q)
    BY <2>1, <2>3, <2>5, <2>7 DEF InputsOf, OutputsOf
  <2>9. Accounted(n)'
    <3>1. ASSUME NEW v \in 0..(n - 1)
          PROVE  \/ v \in is_set'
                 \/ \E r \in Known' : v \in OutputsOf(r)'
                 \/ \E i \in DOMAIN plan' : v \in Gives(plan'[i])
      <4>1. ASSUME NEW i \in DOMAIN plan, v \in Gives(plan[i])
            PROVE  \/ \E r \in Known' : v \in OutputsOf(r)'
                   \/ \E j \in DOMAIN plan' : v \in Gives(plan'[j])
        BY <1>4, <2>2, <2>7, <2>8, <4>1
      <4>2. ASSUME NEW r \in Known, v \in OutputsOf(r)
            PROVE  \E q \in Known' : v \in OutputsOf(q)'
        BY <2>7, <2>8, <4>2
      <4> QED
        BY <1>1, <2>2, <4>1, <4>2 DEF Accounted
    <3>2. \A i \in DOMAIN plan' : plan'[i].inputs \subseteq 0..(n - 1)
      BY <1>1, <1>4, <2>2 DEF Accounted
    <3>3. \A r \in Known' : InputsOf(r)' \subseteq 0..(n - 1)
      BY <1>1, <1>4, <2>2, <2>7, <2>8 DEF Accounted
    <3> QED
      BY <3>1, <3>2, <3>3 DEF Accounted
  <2>10. Budget'
    <3>1. Cardinality(Adds(plan))
             = Cardinality(Adds(Tail(plan))) + (IF Head(plan).op = "add" THEN 1 ELSE 0)
      BY <1>0, <2>2, AddsTail
    <3>2. PICK x \in Nat : x = Cardinality(Adds(Tail(plan)))
      BY <1>4, <2>2, AddsFinite
    <3>3. Cardinality(Adds(plan)) = x + 1 /\ Cardinality(Adds(plan')) = x
      BY <2>2, <3>1, <3>2
    <3>4. L + (x + 1) <= 2 * NumPlaces
      BY <1>2, <2>0, <3>3 DEF Budget
    <3>5. (L + 1) + x <= 2 * NumPlaces
      <4>1. PICK N \in Nat : N = 2 * NumPlaces
        BY SorterAssumption
      <4> QED
        BY <3>4, <4>1
    <3> QED
      BY <2>5, <3>3, <3>5 DEF Budget
  <2> QED
    BY <2>9, <2>10 DEF Accounts
<1>7. SorterNext => SetValue \/ AddResolution \/ UNCHANGED <<plan, resolvers, is_set>>
  BY DEF SorterNext, AddResolutionEnd, InternalizeNext, Internalize, GetAwaiter,
         WaitTillResolved
<1>8. UNCHANGED sorterVars => UNCHANGED <<plan, resolvers, is_set>>
  BY DEF sorterVars
<1> QED
  BY <1>3, <1>5, <1>6, <1>7, <1>8

---------------------------------------------------------------------------
(* The order holds each placed resolver at most once, and only grows.       *)
OnceEach(order, known) ==
    /\ order \in Seq(OrderItem)
    /\ \A k \in DOMAIN order : order[k].value \in known
    /\ \A j, k \in DOMAIN order : order[j].value = order[k].value => j = k

LEMMA OrderOnce ==
    ASSUME SorterInv PROVE OnceEach(exec_order, Known)
<1>0. SorterTypes
  BY DEF SorterInv
<1>1. PICK W, H, base, c :
            /\ Sorting(W) /\ Shape(H, base, guide, exec_order)
            /\ Laid(base, base + LastSpan, H, c, exec_order, W)
  BY OrderLaid
<1>2. PICK m : m = base + LastSpan
  OBVIOUS
<1>3. Laid(base, m, H, c, exec_order, W)
  BY <1>1, <1>2
<1>4. \A k \in DOMAIN exec_order : \E d, q : ItemAt(base, H, c, exec_order, W, k, d, q)
  BY <1>3, ItemStands
<1>5. DOMAIN W \subseteq Known
  BY <1>0, <1>1, KnownWaiting
<1>6. \A k \in DOMAIN exec_order : exec_order[k].value \in Known
  BY <1>4, <1>5 DEF ItemAt
<1>7. ASSUME NEW j \in DOMAIN exec_order, NEW k \in DOMAIN exec_order,
             exec_order[j].value = exec_order[k].value
      PROVE  j = k
  <2>1. PICK d, q : ItemAt(base, H, c, exec_order, W, j, d, q)
    BY <1>4
  <2>2. PICK e, p : ItemAt(base, H, c, exec_order, W, k, e, p)
    BY <1>4
  <2>3. [id |-> d, pos |-> q - 1] = [id |-> e, pos |-> p - 1]
    BY <1>7, <2>1, <2>2 DEF ItemAt
  <2>4. d = e /\ q - 1 = p - 1
    BY <2>3
  <2>5. q \in Int /\ p \in Int
    BY <2>1, <2>2 DEF ItemAt
  <2>6. q = p
    BY <2>4, <2>5
  <2> QED
    BY <2>1, <2>2, <2>4, <2>6 DEF ItemAt
<1>8. exec_order \in Seq(OrderItem)
  BY <1>3 DEF Laid, LaidOut
<1> QED
  BY <1>6, <1>7, <1>8 DEF OnceEach

Grown(new, order) == Len(order) <= Len(new) /\ \A k \in 1..Len(order) : new[k] = order[k]

LEMMA ConcatGrown ==
    ASSUME NEW order \in Seq(OrderItem), NEW released \in Seq(OrderItem)
    PROVE  Grown(order \o released, order)
<1>1. PICK u \in Seq(OrderItem) : u = order \o released
  BY ConcatProperties
<1>2. PICK m, n \in Nat : m = Len(order) /\ n = Len(released)
  OBVIOUS
<1>3. Len(u) = m + n /\ \A i \in 1..(m + n) : u[i] = IF i <= m THEN order[i] ELSE released[i - m]
  BY <1>1, <1>2, ConcatProperties
<1>4. m <= m + n /\ \A i \in 1..m : i \in 1..(m + n) /\ i <= m
  OBVIOUS
<1> QED
  BY <1>1, <1>2, <1>3, <1>4 DEF Grown

LEMMA OrderGrows ==
    ASSUME SorterInv, SorterNext \/ UNCHANGED sorterVars PROVE Grown(exec_order', exec_order)
<1>1. PICK W : Sorting(W)
  BY DEF SorterInv
<1>2. PICK H, base : Shape(H, base, guide, exec_order) /\ Placed(H, W)
  BY <1>1 DEF Sorting, Sorted
<1>3. exec_order \in Seq(OrderItem)
  BY <1>2, ShapeOrder
<1>4. CASE exec_order' = exec_order
  BY <1>3, <1>4 DEF Grown
<1>5. CASE Flush
  <2>1. PICK f : f = GuideFlush(guide)
    OBVIOUS
  <2>2. \E H2 : Flushed(H2, base, exec_order, W, GuideFlush(guide))
    BY <1>2, FlushShape
  <2>3. f.released \in Seq(OrderItem)
    BY <2>1, <2>2 DEF Flushed
  <2>4. exec_order' = OrderAfter(f.released)
    BY <1>5, <2>1 DEF Flush, WriteOrder
  <2>5. exec_order' = exec_order \o f.released
    BY <1>2, <2>3, <2>4, OrderWritten
  <2>6. PICK rel \in Seq(OrderItem) : rel = f.released
    BY <2>3
  <2>7. Grown(exec_order \o rel, exec_order)
    BY <1>3, ConcatGrown
  <2> QED
    BY <2>5, <2>6, <2>7
<1>6. CASE Internalize
  <2>1. stack # <<>> /\ phase' = phase
    BY <1>6 DEF Internalize
  <2>2. PICK r : r = Last(stack)
    OBVIOUS
  <2>3. PICK push : push = GuidePush(guide, r, LatestLoc({tracker[v] : v \in InputsOf(r)}))
    OBVIOUS
  <2>4. guide' = push.guide /\ exec_order' = OrderAfter(push.released)
    BY <1>6, <2>2, <2>3 DEF Internalize, WriteOrder
  <2>5. push.released \in Seq(OrderItem) /\ exec_order' = exec_order \o push.released
    BY <1>1, <2>1, <2>2, <2>3, <2>4, InternalizeSorted
  <2>6. PICK rel \in Seq(OrderItem) : rel = push.released
    BY <2>5
  <2>7. Grown(exec_order \o rel, exec_order)
    BY <1>3, ConcatGrown
  <2> QED
    BY <2>5, <2>6, <2>7
<1>7. SorterNext => Flush \/ Internalize \/ exec_order' = exec_order
  BY DEF SorterNext, SetValue, AddResolution, AddResolutionEnd, InternalizeNext, GetAwaiter,
         WaitTillResolved
<1>8. UNCHANGED sorterVars => exec_order' = exec_order
  BY DEF sorterVars
<1> QED
  BY <1>4, <1>5, <1>6, <1>7, <1>8

---------------------------------------------------------------------------
(* The record: where each resolver of the order stands, and how much of the *)
(* order is certain to be of resolvers registered up to it.                 *)
RecordItem == [order_ix : Nat, order_len : Nat, parallelism : Nat]

RecordIxs == 0..(2 * NumPlaces - 1)

Noted(rec, order) ==
    \A k \in DOMAIN order : /\ rec[order[k].value].order_ix = k - 1
                            /\ rec[order[k].value].parallelism = order[k].parallelism

Lengths(rec, order, n) ==
    \A r \in 0..(n - 1) : /\ rec[r].order_len <= Len(order)
                          /\ \A k \in 1..rec[r].order_len : order[k].value <= r

RecordRight ==
    /\ record \in [RecordIxs -> RecordItem] /\ order_len = Len(exec_order)
    /\ Noted(record, exec_order) /\ Lengths(record, exec_order, registrations_added)

LEMMA RecordWrittenNotes ==
    ASSUME NEW K, NEW rec \in [K -> RecordItem], NEW order \in Seq(OrderItem),
           NEW new, OnceEach(new, K), Grown(new, order), Noted(rec, order)
    PROVE  /\ RecordWritten(rec, new, Len(order)) \in [K -> RecordItem]
           /\ Noted(RecordWritten(rec, new, Len(order)), new)
           /\ \A r \in K : RecordWritten(rec, new, Len(order))[r].order_len = rec[r].order_len
<1>1. new \in Seq(OrderItem)
  BY DEF OnceEach
<1>2. PICK m, n \in Nat : m = Len(order) /\ n = Len(new) /\ m <= n
  BY <1>1 DEF Grown
<1>3. DOMAIN order = 1..m /\ DOMAIN new = 1..n /\ \A k \in 1..m : new[k] = order[k]
  BY <1>1, <1>2 DEF Grown
<1> DEFINE ks(r) == Writes(new, m, r)
           item(r) == IF ks(r) = {} THEN rec[r]
                      ELSE LET k == LargestPlace(ks(r)) IN
                           [rec[r] EXCEPT !.order_ix = k - 1, !.parallelism = new[k].parallelism]
<1>3a. \A r : ks(r) = {k \in (m + 1)..n : new[k].value = r}
  BY <1>2 DEF Writes
<1>4. PICK rec2 : rec2 = RecordWritten(rec, new, Len(order))
  OBVIOUS
<1>5. rec2 = [r \in K |-> item(r)]
  <2>1. RecordWritten(rec, new, m) = [r \in DOMAIN rec |-> item(r)]
    BY DEF RecordWritten
  <2>2. DOMAIN rec = K
    OBVIOUS
  <2> HIDE DEF item
  <2> QED
    BY <1>2, <1>4, <2>1, <2>2
<1>6. \A k \in (m + 1)..n : k \in 1..n /\ k \in Nat /\ k - 1 \in Nat /\ k <= k
  BY <1>2
<1>7. ASSUME NEW r \in K, NEW k \in ks(r)
      PROVE  item(r) = [rec[r] EXCEPT !.order_ix = k - 1, !.parallelism = new[k].parallelism]
  <2>1. \A l \in ks(r) : l = k
    <3> SUFFICES ASSUME NEW l \in ks(r) PROVE l = k
      OBVIOUS
    <3>1. l \in 1..n /\ k \in 1..n /\ new[l].value = new[k].value
      BY <1>3a, <1>6, <1>7
    <3> QED
      BY <1>3, <3>1 DEF OnceEach
  <2>2. k <= k
    BY <1>3a, <1>6, <1>7
  <2> HIDE DEF ks
  <2>3. LargestPlace(ks(r)) = k
    <3>1. \A l \in ks(r) : l <= k
      BY <2>1, <2>2
    <3>2. \E x \in ks(r) : \A l \in ks(r) : l <= x
      BY <1>7, <3>1
    <3>3. LargestPlace(ks(r)) \in ks(r)
      BY <3>2 DEF LargestPlace
    <3> QED
      BY <2>1, <3>3
  <2> QED
    BY <1>7, <2>3
<1>8. ASSUME NEW r \in K, ks(r) = {} PROVE item(r) = rec[r]
  BY <1>8
<1> HIDE DEF item
<1>9. ASSUME NEW r \in K PROVE item(r) \in RecordItem /\ item(r).order_len = rec[r].order_len
  <2>1. rec[r] \in RecordItem
    OBVIOUS
  <2>2. CASE ks(r) = {}
    BY <1>8, <2>1, <2>2
  <2>3. CASE ks(r) # {}
    <3>1. PICK k \in ks(r) : TRUE
      BY <2>3
    <3>2. k \in (m + 1)..n
      BY <1>3a, <3>1
    <3> HIDE DEF ks
    <3>3. new[k] \in OrderItem /\ k - 1 \in Nat
      BY <1>1, <1>2, <1>6, <3>2
    <3>4. item(r) = [rec[r] EXCEPT !.order_ix = k - 1, !.parallelism = new[k].parallelism]
      BY <1>7, <3>1
    <3> QED
      BY <2>1, <3>3, <3>4 DEF RecordItem, OrderItem
  <2> QED
    BY <2>2, <2>3
<1>10. rec2 \in [K -> RecordItem] /\ \A r \in K : rec2[r] = item(r)
  BY <1>5, <1>9
<1>11. ASSUME NEW k \in 1..n
       PROVE  /\ rec2[new[k].value].order_ix = k - 1
              /\ rec2[new[k].value].parallelism = new[k].parallelism
  <2>1. PICK r \in K : r = new[k].value
    BY <1>3 DEF OnceEach
  <2>2. CASE k <= m
    <3>1. k \in 1..m
      BY <2>2
    <3>2. ks(r) = {}
      <4>1. \A l \in (m + 1)..n : l # k
        BY <1>2, <2>2
      <4> QED
        BY <1>3, <1>3a, <1>6, <2>1, <4>1 DEF OnceEach
    <3> HIDE DEF ks
    <3>3. rec2[r] = rec[r]
      BY <1>8, <1>10, <3>2
    <3>4. rec[order[k].value].order_ix = k - 1
          /\ rec[order[k].value].parallelism = order[k].parallelism
      BY <1>3, <3>1 DEF Noted
    <3> QED
      BY <1>3, <2>1, <3>1, <3>3, <3>4
  <2>3. CASE ~(k <= m)
    <3>1. k \in ks(r)
      BY <1>2, <1>3a, <2>1, <2>3
    <3> HIDE DEF ks
    <3>2. rec2[r] = [rec[r] EXCEPT !.order_ix = k - 1, !.parallelism = new[k].parallelism]
      BY <1>7, <1>10, <3>1
    <3>3. rec[r] \in RecordItem
      OBVIOUS
    <3> QED
      BY <2>1, <3>2, <3>3 DEF RecordItem
  <2> QED
    BY <2>2, <2>3
<1>12. Noted(rec2, new)
  BY <1>3, <1>11 DEF Noted
<1> QED
  BY <1>4, <1>9, <1>10, <1>12

LenSet(rec2, rec, x, len) == rec2 = [rec EXCEPT ![x].order_len = len]

LenUpdated(rec2, rec, K, x, len, order) ==
    /\ rec2 \in [K -> RecordItem] /\ Noted(rec2, order)
    /\ \A r \in K : rec2[r].order_len = IF r = x THEN len ELSE rec[r].order_len

LEMMA LenSetItems ==
    ASSUME NEW K, NEW rec \in [K -> RecordItem], NEW x \in K, NEW len \in Nat,
           NEW rec2, LenSet(rec2, rec, x, len), NEW order, OnceEach(order, K), Noted(rec, order)
    PROVE  LenUpdated(rec2, rec, K, x, len, order)
<1>1. \A r \in K : rec2[r] = IF r = x THEN [rec[x] EXCEPT !.order_len = len] ELSE rec[r]
  BY DEF LenSet
<1>2. \A r \in K : rec[r] \in RecordItem
  OBVIOUS
<1>3. [rec[x] EXCEPT !.order_len = len] \in RecordItem
  BY <1>2 DEF RecordItem
<1>4. /\ [rec[x] EXCEPT !.order_len = len].order_len = len
      /\ [rec[x] EXCEPT !.order_len = len].order_ix = rec[x].order_ix
      /\ [rec[x] EXCEPT !.order_len = len].parallelism = rec[x].parallelism
  BY <1>2 DEF RecordItem
<1>5. rec2 \in [K -> RecordItem]
  <2>1. rec2 = [r \in K |-> rec2[r]]
    BY DEF LenSet
  <2>2. \A r \in K : rec2[r] \in RecordItem
    BY <1>1, <1>2, <1>3
  <2> QED
    BY <2>1, <2>2
<1>6. \A r \in K : /\ rec2[r].order_len = IF r = x THEN len ELSE rec[r].order_len
                   /\ rec2[r].order_ix = rec[r].order_ix
                   /\ rec2[r].parallelism = rec[r].parallelism
  BY <1>1, <1>4
<1>7. Noted(rec2, order)
  BY <1>6 DEF Noted, OnceEach
<1> QED
  BY <1>5, <1>6, <1>7 DEF LenUpdated

LEMMA LengthsGrown ==
    ASSUME NEW K, NEW rec \in [K -> RecordItem], NEW order \in Seq(OrderItem),
           NEW n \in Nat, 0..(n - 1) \subseteq K, Lengths(rec, order, n),
           NEW new \in Seq(OrderItem), Grown(new, order),
           NEW rec2, \A r \in K : rec2[r].order_len = rec[r].order_len
    PROVE  Lengths(rec2, new, n)
<1> SUFFICES ASSUME NEW r \in 0..(n - 1)
             PROVE  /\ rec2[r].order_len <= Len(new)
                    /\ \A k \in 1..rec2[r].order_len : new[k].value <= r
  BY DEF Lengths
<1>1. rec[r] \in RecordItem /\ rec2[r].order_len = rec[r].order_len
  OBVIOUS
<1>2. PICK a, b, c \in Nat : a = rec[r].order_len /\ b = Len(order) /\ c = Len(new)
  BY <1>1 DEF RecordItem
<1>3. a <= b /\ b <= c
  BY <1>2 DEF Lengths, Grown
<1>4. a <= c
  BY <1>3
<1>5. \A k \in 1..a : order[k].value <= r /\ k \in 1..b
  BY <1>2, <1>3 DEF Lengths
<1>6. \A k \in 1..b : new[k] = order[k]
  BY <1>2 DEF Grown
<1> QED
  BY <1>1, <1>2, <1>4, <1>5, <1>6

(* What holds of the order and the registrations in every state.            *)
Kept == OnceEach(exec_order, Known) /\ Known \subseteq RecordIxs

LEMMA KeptFromInv ==
    ASSUME SorterInv, Accounts PROVE Kept
<1>1. OnceEach(exec_order, Known)
  BY OrderOnce
<1>2. resolvers \in Seq(Resolver) /\ plan \in Seq(Call)
  BY DEF SorterInv, SorterTypes
<1>3. PICK x, y, N \in Nat : x = Len(resolvers) /\ y = Cardinality(Adds(plan)) /\ N = 2 * NumPlaces
  BY <1>2, AddsFinite, SorterAssumption
<1>4. x + y <= N
  BY <1>3 DEF Accounts, Budget
<1>5. 0..(x - 1) \subseteq 0..(N - 1)
  BY <1>4
<1> QED
  BY <1>1, <1>3, <1>5 DEF Kept, Known, RecordIxs

LEMMA RecordRightInit == SorterInit => RecordRight
<1> SUFFICES ASSUME SorterInit PROVE RecordRight
  OBVIOUS
<1>1. EmptyRecordItem \in RecordItem
  BY DEF EmptyRecordItem, RecordItem
<1>2. record \in [RecordIxs -> RecordItem]
  BY <1>1 DEF SorterInit, RecordIxs
<1>3. order_len = Len(exec_order) /\ DOMAIN exec_order = {} /\ registrations_added = 0
  BY DEF SorterInit
<1>4. 0..(0 - 1) = {}
  OBVIOUS
<1> QED
  BY <1>2, <1>3, <1>4 DEF RecordRight, Noted, Lengths

(* The recorded lengths never shrink.                                       *)
LensGrow(rec2, rec, n) == \A r \in 0..(n - 1) : rec[r].order_len <= rec2[r].order_len

LEMMA LensKept ==
    ASSUME NEW K, NEW rec \in [K -> RecordItem], NEW n \in Nat, 0..(n - 1) \subseteq K,
           NEW rec2, \A r \in K : rec2[r].order_len = rec[r].order_len
    PROVE  LensGrow(rec2, rec, n)
<1> SUFFICES ASSUME NEW r \in 0..(n - 1) PROVE rec[r].order_len <= rec2[r].order_len
  BY DEF LensGrow
<1>1. rec[r] \in RecordItem /\ rec2[r].order_len = rec[r].order_len
  OBVIOUS
<1>2. PICK a \in Nat : a = rec[r].order_len /\ a <= a
  BY <1>1 DEF RecordItem
<1> QED
  BY <1>1, <1>2

(* Writing the order, with the records of what is written.                  *)
LEMMA WriteRecords ==
    ASSUME SorterTypes, RecordRight, Kept, Kept', Grown(exec_order', exec_order),
           NEW rec, rec = RecordWritten(record, exec_order', Len(exec_order))
    PROVE  /\ rec \in [RecordIxs -> RecordItem] /\ Noted(rec, exec_order')
           /\ Lengths(rec, exec_order', registrations_added)
           /\ \A r \in RecordIxs : rec[r].order_len = record[r].order_len
<1>1. OnceEach(exec_order', RecordIxs)
  BY DEF Kept, OnceEach
<1>2. /\ exec_order \in Seq(OrderItem) /\ exec_order' \in Seq(OrderItem)
      /\ record \in [RecordIxs -> RecordItem] /\ Noted(record, exec_order)
  BY <1>1 DEF Kept, OnceEach, RecordRight
<1>3. PICK o, n : o = exec_order /\ n = exec_order'
  OBVIOUS
<1>4. /\ RecordWritten(record, n, Len(o)) \in [RecordIxs -> RecordItem]
      /\ Noted(RecordWritten(record, n, Len(o)), n)
      /\ \A r \in RecordIxs : RecordWritten(record, n, Len(o))[r].order_len = record[r].order_len
  <2>1. o \in Seq(OrderItem) /\ OnceEach(n, RecordIxs) /\ Grown(n, o) /\ Noted(record, o)
    BY <1>1, <1>2, <1>3
  <2> QED
    BY <1>2, <2>1, RecordWrittenNotes
<1>5. /\ rec \in [RecordIxs -> RecordItem] /\ Noted(rec, n)
      /\ \A r \in RecordIxs : rec[r].order_len = record[r].order_len
  BY <1>3, <1>4
<1>6. registrations_added \in Nat /\ 0..(registrations_added - 1) \subseteq RecordIxs
  <2>1. registrations_added \in Nat /\ 0..(registrations_added - 1) \subseteq Known
    BY DEF SorterTypes, Known
  <2> QED
    BY <2>1 DEF Kept
<1>7. Lengths(record, o, registrations_added)
  BY <1>3 DEF RecordRight
<1>8. Lengths(rec, n, registrations_added)
  BY <1>2, <1>3, <1>5, <1>6, <1>7, LengthsGrown
<1> QED
  BY <1>3, <1>5, <1>8

(* A flush: the last registration's record covers everything registered.    *)
LEMMA FlushRecords ==
    ASSUME SorterTypes, RecordRight, Kept, Kept', Grown(exec_order', exec_order), Flush,
           phase = "calls", UNCHANGED <<resolvers, registrations_added>>
    PROVE  /\ RecordRight' /\ LensGrow(record', record, registrations_added)
           /\ registrations_added > 0
                => record'[registrations_added - 1].order_len = Len(exec_order')
<1>1. PICK rec : rec = RecordWritten(record, exec_order', Len(exec_order))
  OBVIOUS
<1>2. PICK n, last \in Nat : n = registrations_added /\ last = LastRegistration
  BY DEF SorterTypes, LastRegistration
<1>3. LenSet(record', rec, last, Len(exec_order')) /\ order_len' = Len(exec_order')
  BY <1>1, <1>2 DEF Flush, WriteOrder, RecordFlushed, LenSet
<1>4. /\ rec \in [RecordIxs -> RecordItem] /\ Noted(rec, exec_order')
      /\ Lengths(rec, exec_order', n)
      /\ \A r \in RecordIxs : rec[r].order_len = record[r].order_len
  BY <1>1, <1>2, WriteRecords
<1>5. OnceEach(exec_order', RecordIxs) /\ exec_order' \in Seq(OrderItem)
  BY DEF Kept, OnceEach
<1>6. PICK len \in Nat : len = Len(exec_order')
  BY <1>5
<1>7. Known = 0..(n - 1) /\ Known' = Known
  BY <1>2 DEF SorterTypes, Known
<1>8. last \in RecordIxs /\ (n > 0 => last = n - 1)
  <2>1. NumPlaces \in Nat \ {0}
    BY SorterAssumption
  <2>2. 0 \in RecordIxs
    BY <2>1 DEF RecordIxs
  <2>3. CASE n > 1
    <3>1. last = n - 1
      BY <1>2, <2>3 DEF LastRegistration
    <3>2. n - 1 \in Known
      BY <1>7, <2>3
    <3> QED
      BY <3>1, <3>2 DEF Kept
  <2>4. CASE ~(n > 1)
    <3>1. last = 1 - 1
      BY <1>2, <2>4 DEF LastRegistration
    <3>2. n > 0 => n = 1
      BY <2>4
    <3> QED
      BY <2>2, <3>1, <3>2
  <2> QED
    BY <2>3, <2>4
<1>9. PICK o, rec2 : o = exec_order' /\ rec2 = record'
  OBVIOUS
<1>10. /\ rec2 \in [RecordIxs -> RecordItem] /\ Noted(rec2, o)
       /\ \A r \in RecordIxs : rec2[r].order_len = IF r = last THEN len ELSE rec[r].order_len
  <2>1. LenSet(rec2, rec, last, len) /\ OnceEach(o, RecordIxs) /\ Noted(rec, o)
    BY <1>3, <1>4, <1>5, <1>6, <1>9
  <2>2. LenUpdated(rec2, rec, RecordIxs, last, len, o)
    BY <1>4, <1>8, <2>1, LenSetItems
  <2> QED
    BY <2>2 DEF LenUpdated
<1>11. Lengths(rec2, o, n)
  <2> SUFFICES ASSUME NEW r \in 0..(n - 1)
               PROVE  /\ rec2[r].order_len <= Len(o)
                      /\ \A k \in 1..rec2[r].order_len : o[k].value <= r
    BY DEF Lengths
  <2>1. r \in RecordIxs
    BY <1>7 DEF Kept
  <2>2. CASE r = last
    <3>1. n > 0 /\ r = n - 1
      BY <1>8, <2>2
    <3>2. rec2[r].order_len = len /\ len = Len(o) /\ len <= len
      BY <1>6, <1>9, <1>10, <2>1, <2>2
    <3>3. \A k \in 1..len : o[k].value \in 0..(n - 1)
      <4>1. DOMAIN o = 1..len
        BY <1>5, <1>6, <1>9
      <4> QED
        BY <1>7, <1>9, <4>1 DEF Kept, OnceEach
    <3>4. \A x \in 0..(n - 1) : x <= r
      BY <3>1
    <3> QED
      BY <3>2, <3>3, <3>4
  <2>3. CASE r # last
    <3>1. rec2[r].order_len = rec[r].order_len
      BY <1>10, <2>1, <2>3
    <3> QED
      BY <1>4, <1>9, <3>1 DEF Lengths
  <2> QED
    BY <2>2, <2>3
<1>12. RecordRight'
  BY <1>2, <1>3, <1>9, <1>10, <1>11 DEF RecordRight
<1>13. LensGrow(rec2, record, n)
  <2> SUFFICES ASSUME NEW r \in 0..(n - 1) PROVE record[r].order_len <= rec2[r].order_len
    BY DEF LensGrow
  <2>1. r \in RecordIxs
    BY <1>7 DEF Kept
  <2>2. PICK a, b \in Nat : a = record[r].order_len /\ b = Len(exec_order)
    <3>1. exec_order \in Seq(OrderItem) /\ record[r] \in RecordItem
      BY <2>1 DEF Kept, OnceEach, RecordRight
    <3> QED
      BY <3>1 DEF RecordItem
  <2>3. a <= b /\ b <= len /\ a <= a
    BY <1>2, <1>6, <2>2 DEF RecordRight, Lengths, Grown
  <2>4. a <= len
    BY <2>3
  <2> QED
    BY <1>4, <1>10, <2>1, <2>2, <2>3, <2>4
<1>14. n > 0 => rec2[n - 1].order_len = len
  BY <1>8, <1>10
<1> QED
  BY <1>2, <1>6, <1>9, <1>12, <1>13, <1>14

LEMMA RecordRightNext ==
    ASSUME SorterInv, RecordRight, Kept, Kept', Grown(exec_order', exec_order),
           SorterNext \/ UNCHANGED sorterVars
    PROVE  RecordRight' /\ LensGrow(record', record, registrations_added)
<1>0. SorterTypes
  BY DEF SorterInv
<1>0a. registrations_added \in Nat /\ 0..(registrations_added - 1) \subseteq RecordIxs
  <2>1. registrations_added \in Nat /\ 0..(registrations_added - 1) \subseteq Known
    BY <1>0 DEF SorterTypes, Known
  <2> QED
    BY <2>1 DEF Kept
<1>0b. record \in [RecordIxs -> RecordItem]
  BY DEF RecordRight
<1>0c. PICK rec0, regs : rec0 = record /\ regs = registrations_added
  OBVIOUS
<1>1. CASE UNCHANGED <<record, exec_order, order_len, registrations_added>>
  <2>1. LensGrow(rec0, rec0, regs)
    BY <1>0a, <1>0b, <1>0c, LensKept
  <2> QED
    BY <1>0c, <1>1, <2>1 DEF RecordRight
<1>2. CASE Internalize
  <2>1. PICK rec : rec = RecordWritten(record, exec_order', Len(exec_order))
    OBVIOUS
  <2>2. record' = rec /\ order_len' = Len(exec_order') /\ registrations_added' = registrations_added
    BY <1>2, <2>1 DEF Internalize, WriteOrder
  <2>3. /\ rec \in [RecordIxs -> RecordItem] /\ Noted(rec, exec_order')
        /\ Lengths(rec, exec_order', registrations_added)
        /\ \A r \in RecordIxs : rec[r].order_len = record[r].order_len
    BY <1>0, <2>1, WriteRecords
  <2>4. LensGrow(rec, rec0, regs)
    BY <1>0a, <1>0b, <1>0c, <2>3, LensKept
  <2> QED
    BY <1>0c, <2>2, <2>3, <2>4 DEF RecordRight
<1>3. CASE GetAwaiter
  <2>1. Flush /\ phase = "calls" /\ UNCHANGED <<resolvers, registrations_added>>
    BY <1>3 DEF GetAwaiter
  <2> QED
    BY <1>0, <2>1, FlushRecords
<1>4. CASE WaitTillResolved
  <2>1. /\ phase = "calls" /\ UNCHANGED <<resolvers, registrations_added>>
        /\ Flush \/ UNCHANGED <<record, exec_order, order_len, registrations_added>>
    BY <1>4 DEF WaitTillResolved
  <2>2. CASE Flush
    BY <1>0, <2>1, <2>2, FlushRecords
  <2> QED
    BY <1>1, <2>1, <2>2
<1>5. CASE AddResolutionEnd
  <2>0. exec_order \in Seq(OrderItem) /\ registrations_added \in Nat
    BY <1>0 DEF SorterTypes, Kept, OnceEach
  <2>1. PICK n, len \in Nat : n = registrations_added /\ len = Len(exec_order)
    BY <2>0
  <2>2. /\ LenSet(record', record, n, len) /\ registrations_added' = n + 1
        /\ exec_order' = exec_order /\ order_len' = order_len /\ phase = "adding"
    BY <1>5, <2>1 DEF AddResolutionEnd, LenSet, RecordRight
  <2>3. Known = 0..n
    <3>1. Len(resolvers) = n + 1 /\ (n + 1) - 1 = n
      BY <1>0, <2>1, <2>2 DEF SorterTypes
    <3> QED
      BY <3>1 DEF Known
  <2>4. n \in RecordIxs /\ OnceEach(exec_order, RecordIxs)
    BY <2>3 DEF Kept, OnceEach
  <2>5. PICK o, rec2 : o = exec_order /\ rec2 = record'
    OBVIOUS
  <2>6. /\ rec2 \in [RecordIxs -> RecordItem] /\ Noted(rec2, o)
        /\ \A r \in RecordIxs : rec2[r].order_len = IF r = n THEN len ELSE record[r].order_len
    <3>1. /\ LenSet(rec2, record, n, len) /\ OnceEach(o, RecordIxs) /\ Noted(record, o)
          /\ record \in [RecordIxs -> RecordItem]
      BY <2>2, <2>4, <2>5 DEF RecordRight
    <3>2. LenUpdated(rec2, rec0, RecordIxs, n, len, o)
      BY <1>0c, <2>4, <3>1, LenSetItems
    <3> QED
      BY <1>0c, <3>2 DEF LenUpdated
  <2>7. Lengths(rec2, o, n + 1)
    <3> SUFFICES ASSUME NEW r \in 0..((n + 1) - 1)
                 PROVE  /\ rec2[r].order_len <= Len(o)
                        /\ \A k \in 1..rec2[r].order_len : o[k].value <= r
      BY DEF Lengths
    <3>1. r \in RecordIxs
      BY <2>3 DEF Kept
    <3>2. CASE r = n
      <4>1. rec2[r].order_len = len /\ len = Len(o) /\ len <= len
        BY <2>1, <2>5, <2>6, <3>1, <3>2
      <4>2. \A k \in 1..len : o[k].value \in 0..n
        <5>1. o \in Seq(OrderItem)
          BY <2>5 DEF Kept, OnceEach
        <5>2. DOMAIN o = 1..len
          BY <4>1, <5>1
        <5> QED
          BY <2>3, <2>5, <5>2 DEF Kept, OnceEach
      <4>3. \A x \in 0..n : x <= n
        OBVIOUS
      <4> QED
        BY <3>2, <4>1, <4>2, <4>3
    <3>3. CASE r # n
      <4>1. r \in 0..(n - 1)
        BY <3>3
      <4>2. rec2[r].order_len = record[r].order_len
        BY <2>6, <3>1, <3>3
      <4>3. Lengths(record, o, n)
        BY <2>1, <2>5 DEF RecordRight
      <4> QED
        BY <4>1, <4>2, <4>3 DEF Lengths
    <3> QED
      BY <3>2, <3>3
  <2>8. LensGrow(rec2, record, n)
    <3> SUFFICES ASSUME NEW r \in 0..(n - 1) PROVE record[r].order_len <= rec2[r].order_len
      BY DEF LensGrow
    <3>1. r \in RecordIxs /\ r # n
      BY <2>3 DEF Kept
    <3>2. PICK a \in Nat : a = record[r].order_len /\ a <= a
      BY <1>0b, <3>1 DEF RecordItem
    <3> QED
      BY <2>6, <3>1, <3>2
  <2> QED
    BY <2>1, <2>2, <2>5, <2>6, <2>7, <2>8 DEF RecordRight
<1>6. SorterNext => \/ Internalize \/ GetAwaiter \/ WaitTillResolved \/ AddResolutionEnd
                    \/ UNCHANGED <<record, exec_order, order_len, registrations_added>>
  BY DEF SorterNext, SetValue, AddResolution, InternalizeNext
<1>7. UNCHANGED sorterVars => UNCHANGED <<record, exec_order, order_len, registrations_added>>
  BY DEF sorterVars
<1> QED
  BY <1>1, <1>2, <1>3, <1>4, <1>5, <1>6, <1>7

---------------------------------------------------------------------------
(* After a flush every placed resolver stands in the order.                 *)
Emptied(H, base) == \A d \in DOMAIN H : d >= base => H[d] = <<>>

AllStand(W, order) == \A r \in DOMAIN W : \E k \in DOMAIN order : order[k].value = r

LEMMA EmptiedStand ==
    ASSUME NEW W, NEW H, NEW base, NEW g, NEW order,
           Shape(H, base, g, order), Placed(H, W), Emptied(H, base)
    PROVE  AllStand(W, order)
<1> SUFFICES ASSUME NEW r \in DOMAIN W PROVE \E k \in DOMAIN order : order[k].value = r
  BY DEF AllStand
<1>1. base \in Nat /\ LastSpan \in Nat /\ order = FlattenSeq(FirstSpans(H, base))
  BY LastSpanType DEF Shape
<1>2. PICK m \in Nat : m = base + LastSpan /\ base <= m + 1
  BY <1>1
<1>3. H \in [0..m -> Seq(OrderItem)]
  BY <1>2 DEF Shape
<1>4. \E c : LaidOut(c, base, H, FlattenSeq(FirstSpans(H, base)))
  BY <1>1, <1>2, <1>3, SpansLaidOut
<1>5. PICK c : LaidOut(c, base, H, order)
  BY <1>1, <1>4
<1>6. Laid(base, m, H, c, order, W)
  BY <1>1, <1>2, <1>3, <1>5 DEF Laid
<1>7. W[r] \in Location /\ W[r].id \in DOMAIN H /\ W[r].pos < Len(H[W[r].id])
  BY DEF Placed
<1>8. PICK d, p \in Nat : d = W[r].id /\ p = W[r].pos
  BY <1>7 DEF Location
<1>9. d < base
  <2> SUFFICES ASSUME d >= base PROVE FALSE
    BY <1>1
  <2>1. H[d] = <<>>
    BY <1>7, <1>8 DEF Emptied
  <2>2. Len(H[d]) = 0
    BY <2>1
  <2>3. p < 0
    BY <1>7, <1>8, <2>2
  <2> QED
    BY <2>3
<1>10. W[r].id < base
  BY <1>8, <1>9
<1>11. \E k \in DOMAIN order :
            order[k].value = r /\ ItemAt(base, H, c, order, W, k, W[r].id, W[r].pos + 1)
  BY <1>6, <1>10, PlacedStands
<1> QED
  BY <1>11

LEMMA FlushStands ==
    ASSUME NEW W, Sorted(W), Flush PROVE AllStand(W, exec_order')
<1>1. PICK H, base : /\ Shape(H, base, guide', exec_order') /\ Placed(H, W)
                     /\ \A d \in DOMAIN H : d >= base => H[d] = <<>>
  BY FlushSorted
<1>2. PICK g, o : g = guide' /\ o = exec_order'
  OBVIOUS
<1>3. Shape(H, base, g, o) /\ Placed(H, W) /\ Emptied(H, base)
  BY <1>1, <1>2 DEF Emptied
<1>4. AllStand(W, o)
  BY <1>3, EmptiedStand
<1> QED
  BY <1>2, <1>4

(* A recorder that ended: it panicked over a resolver that is held back, or *)
(* none is and all of them stand in the order.                              *)
Ended ==
    /\ phase = "panicked" => \E v \in Places : delayed[v] # <<>>
    /\ phase = "recorded" => \A v \in Places : delayed[v] = <<>>

LEMMA EndedNext ==
    ASSUME SorterInv, Ended, SorterNext \/ UNCHANGED sorterVars PROVE Ended'
<1>0. phase \in {"calls", "adding", "recorded", "panicked"}
      /\ (phase \in {"recorded", "panicked"} => stack = <<>> /\ pending = <<>> /\ plan = <<>>)
  BY DEF SorterInv, SorterTypes
<1>1. CASE UNCHANGED <<phase, delayed>>
  BY <1>1 DEF Ended
<1>2. CASE WaitTillResolved
  BY <1>2 DEF WaitTillResolved, Ended
<1>3. CASE phase' = "calls" \/ phase' = "adding"
  BY <1>3 DEF Ended
<1>4. SetValue \/ AddResolution \/ AddResolutionEnd => phase' = "calls" \/ phase' = "adding"
  BY DEF SetValue, AddResolution, AddResolutionEnd
<1>5. Internalize => phase' = "calls" \/ phase' = "adding"
  BY <1>0 DEF Internalize
<1>6. InternalizeNext \/ GetAwaiter => UNCHANGED <<phase, delayed>>
  BY DEF InternalizeNext, GetAwaiter
<1>7. UNCHANGED sorterVars => UNCHANGED <<phase, delayed>>
  BY DEF sorterVars
<1> QED
  BY <1>1, <1>2, <1>3, <1>4, <1>5, <1>6, <1>7 DEF SorterNext

LEMMA RecordedAll ==
    ASSUME SorterInv, Ended, phase = "recorded"
    PROVE  /\ \A r \in Known : \E k \in DOMAIN exec_order : exec_order[k].value = r
           /\ \A r \in Known : GivesAbove(resolvers[r + 1])
<1>1. PICK W : Sorting(W)
  BY DEF SorterInv
<1>2. PICK H, base : /\ Shape(H, base, guide, exec_order) /\ Placed(H, W)
                     /\ \A d \in DOMAIN H : d >= base => H[d] = <<>>
  BY <1>1 DEF Sorting, Sorted
<1>3. AllStand(W, exec_order)
  <2>1. PICK g, o : g = guide /\ o = exec_order
    OBVIOUS
  <2>2. Shape(H, base, g, o) /\ Placed(H, W) /\ Emptied(H, base)
    BY <1>2, <2>1 DEF Emptied
  <2>3. AllStand(W, o)
    BY <2>2, EmptiedStand
  <2> QED
    BY <2>1, <2>3
<1>4. DOMAIN W = Known
  <2>1. stack = <<>> /\ pending = <<>>
    BY DEF SorterInv, SorterTypes
  <2>2. Held(delayed) = {}
    BY EmptyOnce DEF Ended, Held
  <2>3. DOMAIN W = Known \ (ToSet(stack) \union ToSet(pending) \union Held(delayed))
    BY <1>1 DEF Sorting, WaitingOnce
  <2> QED
    BY <2>1, <2>2, <2>3, EmptyOnce
<1> QED
  BY <1>1, <1>3, <1>4 DEF AllStand, Sorting, Settled

(* A resolver is held back for good only behind one that gives a place      *)
(* below one it needs: the first untracked place is given by a resolver     *)
(* that is held too, under a place above.                                   *)
LEMMA PanicReason ==
    ASSUME SorterInv, Accounts, Ended, phase = "panicked"
    PROVE  \E q \in Known : ~GivesAbove(resolvers[q + 1])
<1>0. /\ SorterTypes /\ Prefix /\ HeldRight /\ plan = <<>> /\ stack = <<>> /\ pending = <<>>
      /\ delayed \in [Places -> Seq(Nat)]
  BY DEF SorterInv, SorterTypes
<1>1. PICK W : Sorting(W)
  BY DEF SorterInv
<1>2. PICK n \in 0..NumPlaces : Accounted(n)
  BY DEF Accounts
<1>3. PICK v \in Places : delayed[v] # <<>>
  BY DEF Ended
<1>4. PICK r : r \in ToSet(delayed[v])
  <2>1. delayed[v] \in Seq(Nat)
    BY <1>0
  <2> QED
    BY <1>3, <2>1, NonemptySeq
<1>5. v > max_tracked /\ v \in InputsOf(r)
  BY <1>0, <1>4 DEF HeldRight
<1>6. r \in Known
  BY <1>1, <1>4 DEF Sorting, WaitingOnce, Held
<1>7. v \in 0..(n - 1)
  BY <1>2, <1>5, <1>6 DEF Accounted
<1>8. PICK m \in Int : m = max_tracked /\ m >= -1
  BY <1>0, SorterAssumption DEF SorterTypes
<1>9. PICK u \in Nat : u = m + 1
  <2>1. m + 1 \in Nat
    BY <1>8
  <2> QED
    BY <2>1
<1>10. u \in 0..(n - 1) /\ u \in Places
  <2>1. PICK N \in Nat : N = NumPlaces /\ n <= N
    BY <1>2, SorterAssumption
  <2>2. u <= v
    BY <1>5, <1>7, <1>8, <1>9
  <2>3. u \in 0..(n - 1)
    BY <1>7, <2>2
  <2> QED
    BY <1>2, <2>1, <2>3 DEF Places
<1>11. tracker[u] = None
  BY <1>0, <1>8, <1>9, <1>10 DEF Prefix
<1>12. u \notin is_set
  <2>1. u \in is_set => tracker[u] = DefaultLoc
    BY <1>1 DEF Sorting, Settled
  <2> QED
    BY <1>11, <2>1, DefaultLocation, LocationNotNone
<1>13. PICK q \in Known : u \in OutputsOf(q)
  <2>1. DOMAIN plan = {}
    BY <1>0
  <2> QED
    BY <1>2, <1>10, <1>12, <2>1 DEF Accounted
<1>14. q \notin DOMAIN W
  <2>1. q \in DOMAIN W => tracker[u] = W[q]
    BY <1>1, <1>13 DEF Sorting, Settled
  <2>2. q \in DOMAIN W => W[q] \in Location
    BY <1>1 DEF Sorting, Sorted, Placed
  <2> QED
    BY <1>11, <2>1, <2>2, LocationNotNone
<1>15. q \in Held(delayed)
  <2>1. DOMAIN W = Known \ (ToSet(stack) \union ToSet(pending) \union Held(delayed))
    BY <1>1 DEF Sorting, WaitingOnce
  <2>2. ToSet(stack) = {} /\ ToSet(pending) = {}
    BY <1>0, EmptyOnce
  <2> QED
    BY <1>13, <1>14, <2>1, <2>2
<1>16. PICK w \in Places : q \in ToSet(delayed[w])
  BY <1>15 DEF Held
<1>17. w > max_tracked /\ w \in InputsOf(q)
  BY <1>0, <1>16 DEF HeldRight
<1>18. ~(w < u)
  <2>1. w \in Int
    BY SorterAssumption DEF Places
  <2> QED
    BY <1>8, <1>9, <1>17, <2>1
<1>19. ~GivesAbove(resolvers[q + 1])
  BY <1>13, <1>17, <1>18 DEF GivesAbove, InputsOf, OutputsOf
<1> QED
  BY <1>19

---------------------------------------------------------------------------
(* The log of the calls: idx is where each resolver was registered in it.   *)
Logged == Call \union {AwaitCall(v) : v \in Places}

Logs(idx, log, res, set) ==
    /\ log \in Seq(Logged) /\ res \in Seq(Resolver) /\ DOMAIN idx = 0..(Len(res) - 1)
    /\ \A r \in DOMAIN idx :
            idx[r] \in DOMAIN log /\ log[idx[r]] = AddCall(res[r + 1].inputs, res[r + 1].outputs)
    /\ \A q, r \in DOMAIN idx : q < r => idx[q] < idx[r]
    /\ \A i \in DOMAIN log : log[i].op = "add" => \E r \in DOMAIN idx : idx[r] = i
    /\ \A v : v \in set <=> \E i \in DOMAIN log : log[i] = SetCall(v)

LEMMA LoggedCases ==
    ASSUME NEW c \in Logged
    PROVE  /\ c.op \in {"set", "add", "await"}
           /\ c.op = "set" => c = SetCall(c.key) /\ c.key \in Places
           /\ c.op = "add" => /\ c = AddCall(c.inputs, c.outputs)
                              /\ c.inputs \in SUBSET Places /\ c.outputs \in SUBSET Places
           /\ c.op = "await" => c = AwaitCall(c.key) /\ c.key \in Places
           /\ c.op # "add" => c.inputs = {} /\ c.outputs = {}
<1>1. CASE \E v \in Places : c = SetCall(v)
  BY <1>1 DEF SetCall, AddCall, AwaitCall
<1>2. CASE \E ins, outs \in SUBSET Places : c = AddCall(ins, outs)
  BY <1>2 DEF SetCall, AddCall, AwaitCall
<1>3. CASE \E v \in Places : c = AwaitCall(v)
  BY <1>3 DEF SetCall, AddCall, AwaitCall
<1> QED
  BY <1>1, <1>2, <1>3 DEF Logged, Call

LEMMA LogsOther ==
    ASSUME NEW idx, NEW log, NEW res, NEW set, Logs(idx, log, res, set),
           NEW c \in Logged, c.op # "add", NEW set2,
           \A v : v \in set2 <=> v \in set \/ c = SetCall(v)
    PROVE  Logs(idx, Append(log, c), res, set2)
<1>1. /\ log \in Seq(Logged) /\ res \in Seq(Resolver) /\ DOMAIN idx = 0..(Len(res) - 1)
      /\ \A r \in DOMAIN idx :
            idx[r] \in DOMAIN log /\ log[idx[r]] = AddCall(res[r + 1].inputs, res[r + 1].outputs)
      /\ \A q, r \in DOMAIN idx : q < r => idx[q] < idx[r]
      /\ \A i \in DOMAIN log : log[i].op = "add" => \E r \in DOMAIN idx : idx[r] = i
      /\ \A v : v \in set <=> \E i \in DOMAIN log : log[i] = SetCall(v)
  BY DEF Logs
<1>2. PICK n \in Nat : n = Len(log)
  BY <1>1
<1>3. PICK l \in Seq(Logged) : l = Append(log, c)
  BY <1>1, AppendProperties
<1>4. Len(l) = n + 1 /\ l[n + 1] = c /\ \A i \in 1..n : l[i] = log[i]
  BY <1>1, <1>2, <1>3, AppendProperties
<1>5. DOMAIN log = 1..n /\ DOMAIN l = 1..(n + 1)
  BY <1>1, <1>2, <1>4
<1>6. DOMAIN l = DOMAIN log \union {n + 1}
  BY <1>5
<1>7. \A i \in DOMAIN log : l[i] = log[i]
  BY <1>4, <1>5
<1>8. \A r \in DOMAIN idx :
            idx[r] \in DOMAIN l /\ l[idx[r]] = AddCall(res[r + 1].inputs, res[r + 1].outputs)
  BY <1>1, <1>6, <1>7
<1>9. \A i \in DOMAIN l : l[i].op = "add" => \E r \in DOMAIN idx : idx[r] = i
  BY <1>1, <1>4, <1>6, <1>7
<1>10. \A v : v \in set2 <=> \E i \in DOMAIN l : l[i] = SetCall(v)
  BY <1>1, <1>4, <1>6, <1>7
<1>11. Logs(idx, l, res, set2)
  BY <1>1, <1>3, <1>8, <1>9, <1>10 DEF Logs
<1> QED
  BY <1>3, <1>11

(* A registration: the index of the new resolver is the call just logged.   *)
Extends(idx2, idx, n, len) ==
    /\ DOMAIN idx2 = DOMAIN idx \union {n} /\ idx2[n] = len + 1
    /\ n \notin DOMAIN idx /\ \A q \in DOMAIN idx : idx2[q] = idx[q]

LogsAdded(idx, log, res, set, c, new) ==
    \E idx2 : Logs(idx2, Append(log, c), Append(res, new), set)
              /\ Extends(idx2, idx, Len(res), Len(log))

LEMMA LogsAdd ==
    ASSUME NEW idx, NEW log, NEW res, NEW set, Logs(idx, log, res, set),
           NEW c \in Logged, c.op = "add",
           NEW new, new = [inputs |-> c.inputs, outputs |-> c.outputs]
    PROVE  LogsAdded(idx, log, res, set, c, new)
<1>1. /\ log \in Seq(Logged) /\ res \in Seq(Resolver) /\ DOMAIN idx = 0..(Len(res) - 1)
      /\ \A r \in DOMAIN idx :
            idx[r] \in DOMAIN log /\ log[idx[r]] = AddCall(res[r + 1].inputs, res[r + 1].outputs)
      /\ \A q, r \in DOMAIN idx : q < r => idx[q] < idx[r]
      /\ \A i \in DOMAIN log : log[i].op = "add" => \E r \in DOMAIN idx : idx[r] = i
      /\ \A v : v \in set <=> \E i \in DOMAIN log : log[i] = SetCall(v)
  BY DEF Logs
<1>2. PICK n, m \in Nat : n = Len(log) /\ m = Len(res)
  BY <1>1
<1>3. PICK l \in Seq(Logged) : l = Append(log, c)
  BY <1>1, AppendProperties
<1>4. Len(l) = n + 1 /\ l[n + 1] = c /\ \A i \in 1..n : l[i] = log[i]
  BY <1>1, <1>2, <1>3, AppendProperties
<1>5. DOMAIN log = 1..n /\ DOMAIN l = 1..(n + 1)
  BY <1>1, <1>2, <1>4
<1>6. DOMAIN l = DOMAIN log \union {n + 1}
  BY <1>5
<1>7. \A i \in DOMAIN log : l[i] = log[i]
  BY <1>4, <1>5
<1>8. c = AddCall(c.inputs, c.outputs) /\ new \in Resolver
  BY LoggedCases DEF Resolver
<1>9. PICK t \in Seq(Resolver) : t = Append(res, new)
  BY <1>1, <1>8, AppendProperties
<1>10. Len(t) = m + 1 /\ t[m + 1] = new /\ \A i \in 1..m : t[i] = res[i]
  BY <1>1, <1>2, <1>8, <1>9, AppendProperties
<1>11. PICK D : D = DOMAIN idx
  OBVIOUS
<1>12. D = 0..(m - 1)
  BY <1>1, <1>2, <1>11
<1>13. m \notin D /\ (\A q \in D : q + 1 \in 1..m /\ q < m) /\ 0..((m + 1) - 1) = D \union {m}
  BY <1>12
<1>14. PICK f : f = [r \in D \union {m} |-> IF r = m THEN n + 1 ELSE idx[r]]
  OBVIOUS
<1>15. DOMAIN f = D \union {m} /\ f[m] = n + 1 /\ \A q \in D : f[q] = idx[q]
  BY <1>13, <1>14
<1>16. Extends(f, idx, m, n)
  BY <1>11, <1>13, <1>15 DEF Extends
<1>17. ASSUME NEW r \in D \union {m}
       PROVE  f[r] \in DOMAIN l /\ l[f[r]] = AddCall(t[r + 1].inputs, t[r + 1].outputs)
  <2>1. CASE r = m
    BY <1>4, <1>6, <1>8, <1>10, <1>15, <2>1
  <2>2. CASE r \in D
    BY <1>1, <1>6, <1>7, <1>10, <1>11, <1>13, <1>15, <2>2
  <2> QED
    BY <2>1, <2>2
<1>18. ASSUME NEW q \in D \union {m}, NEW r \in D \union {m}, q < r PROVE f[q] < f[r]
  <2>1. CASE q \in D /\ r \in D
    BY <1>1, <1>11, <1>15, <1>18, <2>1
  <2>2. CASE q \in D /\ r = m
    <3>1. idx[q] \in 1..n
      BY <1>1, <1>5, <1>11, <2>2
    <3>2. idx[q] < n + 1
      BY <3>1
    <3> QED
      BY <1>15, <2>2, <3>2
  <2>3. CASE q = m
    <3>1. r \in 0..m
      BY <1>12
    <3> QED
      BY <1>18, <2>3, <3>1
  <2> QED
    BY <2>1, <2>2, <2>3
<1>19. \A i \in DOMAIN l : l[i].op = "add" => \E r \in D \union {m} : f[r] = i
  BY <1>1, <1>6, <1>7, <1>11, <1>15
<1>20. \A v : v \in set <=> \E i \in DOMAIN l : l[i] = SetCall(v)
  <2>1. \A v : c # SetCall(v)
    BY DEF SetCall
  <2> QED
    BY <1>1, <1>4, <1>6, <1>7, <2>1
<1>21. DOMAIN f = 0..(Len(t) - 1)
  BY <1>10, <1>13, <1>15
<1>22. Logs(f, l, t, set)
  BY <1>15, <1>17, <1>18, <1>19, <1>20, <1>21 DEF Logs
<1> QED
  BY <1>2, <1>3, <1>9, <1>16, <1>22 DEF LogsAdded

---------------------------------------------------------------------------
(* An awaiter was asked for at call i: each place it may be for was set     *)
(* before, or its resolver is in the part of the order that the record of   *)
(* the last registration before i covers.                                   *)
ServedAt(idx, log, res, rec, order, i, v) ==
    \/ \E j \in DOMAIN log : j < i /\ log[j] = SetCall(v)
    \/ \E r \in DOMAIN idx :
            /\ idx[r] < i /\ \A q \in DOMAIN idx : idx[q] < i => q <= r
            /\ \E k \in 1..rec[r].order_len : v \in res[order[k].value + 1].outputs

Served(idx, log, res, rec, order) ==
    \A i \in DOMAIN log : log[i].op = "await" =>
        \A v \in 0..log[i].key : ServedAt(idx, log, res, rec, order, i, v)

(* What a step leaves of a record and an order of n finished registrations. *)
Basis(idx, log, res, rec, order, n) ==
    /\ log \in Seq(Logged) /\ order \in Seq(OrderItem) /\ n \in Nat
    /\ \A r \in DOMAIN idx : idx[r] \in DOMAIN log /\ (r \in 0..(n - 1) \/ idx[r] = Len(log))
    /\ \A r \in 0..(n - 1) : rec[r].order_len \in Nat
    /\ Lengths(rec, order, n)
    /\ \A k \in DOMAIN order : order[k].value + 1 \in DOMAIN res

Later(idx2, idx, log2, log, res2, res, rec2, rec, order2, order, n) ==
    /\ LensGrow(rec2, rec, n) /\ Grown(order2, order)
    /\ \A r \in 0..(n - 1) : rec2[r].order_len \in Nat
    /\ \A x \in DOMAIN res : res2[x] = res[x]
    /\ DOMAIN log \subseteq DOMAIN log2 /\ \A i \in DOMAIN log : log2[i] = log[i]
    /\ DOMAIN idx \subseteq DOMAIN idx2 /\ \A q \in DOMAIN idx : idx2[q] = idx[q]
    /\ \A q \in DOMAIN idx2 : q \in DOMAIN idx \/ idx2[q] = Len(log) + 1

LEMMA ServedLater ==
    ASSUME NEW idx, NEW log, NEW res, NEW rec, NEW order, NEW n,
           Basis(idx, log, res, rec, order, n),
           NEW idx2, NEW log2, NEW res2, NEW rec2, NEW order2,
           Later(idx2, idx, log2, log, res2, res, rec2, rec, order2, order, n),
           NEW i \in DOMAIN log, NEW v, ServedAt(idx, log, res, rec, order, i, v)
    PROVE  ServedAt(idx2, log2, res2, rec2, order2, i, v)
<1>1. /\ log \in Seq(Logged) /\ order \in Seq(OrderItem) /\ n \in Nat
      /\ \A r \in DOMAIN idx : idx[r] \in DOMAIN log /\ (r \in 0..(n - 1) \/ idx[r] = Len(log))
      /\ \A r \in 0..(n - 1) : rec[r].order_len \in Nat
      /\ Lengths(rec, order, n)
      /\ \A k \in DOMAIN order : order[k].value + 1 \in DOMAIN res
  BY DEF Basis
<1>2. /\ LensGrow(rec2, rec, n) /\ Grown(order2, order)
      /\ \A r \in 0..(n - 1) : rec2[r].order_len \in Nat
      /\ \A x \in DOMAIN res : res2[x] = res[x]
      /\ DOMAIN log \subseteq DOMAIN log2 /\ \A j \in DOMAIN log : log2[j] = log[j]
      /\ DOMAIN idx \subseteq DOMAIN idx2 /\ \A q \in DOMAIN idx : idx2[q] = idx[q]
      /\ \A q \in DOMAIN idx2 : q \in DOMAIN idx \/ idx2[q] = Len(log) + 1
  BY DEF Later
<1>3. PICK m \in Nat : m = Len(log) /\ DOMAIN log = 1..m
  BY <1>1
<1>4. CASE \E j \in DOMAIN log : j < i /\ log[j] = SetCall(v)
  BY <1>2, <1>4 DEF ServedAt
<1>5. ASSUME NEW r \in DOMAIN idx, idx[r] < i, \A q \in DOMAIN idx : idx[q] < i => q <= r,
             NEW k \in 1..rec[r].order_len, v \in res[order[k].value + 1].outputs
      PROVE  ServedAt(idx2, log2, res2, rec2, order2, i, v)
  <2>1. r \in 0..(n - 1)
    <3>1. idx[r] # m
      BY <1>3, <1>5
    <3> QED
      BY <1>1, <1>3, <3>1
  <2>2. PICK a, b, L \in Nat : a = rec[r].order_len /\ b = rec2[r].order_len /\ L = Len(order)
    BY <1>1, <1>2, <2>1
  <2>3. a <= b /\ a <= L
    BY <1>1, <1>2, <2>1, <2>2 DEF LensGrow, Lengths
  <2>4. k \in 1..a
    BY <1>5, <2>2
  <2>5. k \in 1..b /\ k \in 1..L
    BY <2>3, <2>4
  <2>6. order2[k] = order[k] /\ k \in DOMAIN order
    BY <1>1, <1>2, <2>2, <2>5 DEF Grown
  <2>7. v \in res2[order2[k].value + 1].outputs
    BY <1>1, <1>2, <1>5, <2>6
  <2>8. \A q \in DOMAIN idx2 : idx2[q] < i => q <= r
    <3> SUFFICES ASSUME NEW q \in DOMAIN idx2, idx2[q] < i PROVE q <= r
      OBVIOUS
    <3>1. q \in DOMAIN idx
      <4> SUFFICES ASSUME idx2[q] = Len(log) + 1 PROVE FALSE
        BY <1>2
      <4>1. m + 1 < i
        BY <1>3
      <4> QED
        BY <1>3, <4>1
    <3> QED
      BY <1>2, <1>5, <3>1
  <2>9. r \in DOMAIN idx2 /\ idx2[r] < i
    BY <1>2, <1>5
  <2>10. k \in 1..rec2[r].order_len
    BY <2>2, <2>5
  <2> QED
    BY <2>7, <2>8, <2>9, <2>10 DEF ServedAt
<1> QED
  BY <1>4, <1>5 DEF ServedAt

LEMMA ServedStep ==
    ASSUME NEW idx, NEW log, NEW res, NEW rec, NEW order, NEW n,
           Basis(idx, log, res, rec, order, n), Served(idx, log, res, rec, order),
           NEW idx2, NEW log2, NEW res2, NEW rec2, NEW order2,
           Later(idx2, idx, log2, log, res2, res, rec2, rec, order2, order, n),
           \A i \in DOMAIN log2 : i \in DOMAIN log \/ log2[i].op # "await"
    PROVE  Served(idx2, log2, res2, rec2, order2)
<1> SUFFICES ASSUME NEW i \in DOMAIN log2, log2[i].op = "await", NEW v \in 0..log2[i].key
             PROVE  ServedAt(idx2, log2, res2, rec2, order2, i, v)
  BY DEF Served
<1>1. i \in DOMAIN log
  OBVIOUS
<1>2. log2[i] = log[i]
  BY <1>1 DEF Later
<1>3. ServedAt(idx, log, res, rec, order, i, v)
  BY <1>1, <1>2 DEF Served
<1> QED
  BY <1>1, <1>3, ServedLater

LogRight(idx) ==
    /\ Logs(idx, calls, resolvers, is_set)
    /\ Served(idx, calls, resolvers, record, exec_order)
    /\ phase = "adding" => idx[registrations_added] = Len(calls)

Ledger == \E idx : LogRight(idx)

LEMMA LedgerInit == SorterInit => Ledger
<1> SUFFICES ASSUME SorterInit PROVE Ledger
  OBVIOUS
<1>1. /\ calls = <<>> /\ resolvers = <<>> /\ is_set = {} /\ phase = "calls"
  BY DEF SorterInit
<1>2. DOMAIN calls = {} /\ Len(resolvers) = 0 /\ 0..(0 - 1) = {}
  BY <1>1
<1>3. PICK f : f = [r \in {} |-> 0]
  OBVIOUS
<1>4. DOMAIN f = {}
  BY <1>3
<1>5. calls \in Seq(Logged) /\ resolvers \in Seq(Resolver)
  BY <1>1
<1>6. Logs(f, calls, resolvers, is_set)
  BY <1>1, <1>2, <1>4, <1>5 DEF Logs
<1>7. Served(f, calls, resolvers, record, exec_order)
  BY <1>2 DEF Served
<1> QED
  BY <1>1, <1>6, <1>7 DEF Ledger, LogRight

LEMMA LedgerBasis ==
    ASSUME SorterTypes, Kept, RecordRight, NEW idx, LogRight(idx)
    PROVE  Basis(idx, calls, resolvers, record, exec_order, registrations_added)
<1>1. /\ calls \in Seq(Logged) /\ resolvers \in Seq(Resolver)
      /\ DOMAIN idx = 0..(Len(resolvers) - 1) /\ \A r \in DOMAIN idx : idx[r] \in DOMAIN calls
      /\ phase = "adding" => idx[registrations_added] = Len(calls)
  BY DEF LogRight, Logs
<1>2. PICK n, L \in Nat : n = registrations_added /\ L = Len(resolvers)
  BY <1>1 DEF SorterTypes
<1>3. L = (IF phase = "adding" THEN n + 1 ELSE n)
  BY <1>2 DEF SorterTypes
<1>4. \A r \in DOMAIN idx : r \in 0..(n - 1) \/ idx[r] = Len(calls)
  <2>1. \A r \in 0..(L - 1) : r \in 0..(n - 1) \/ (phase = "adding" /\ r = n)
    BY <1>3
  <2> QED
    BY <1>1, <1>2, <2>1
<1>5. Known = 0..(L - 1) /\ 0..(n - 1) \subseteq Known /\ \A r \in Known : r + 1 \in 1..L
  BY <1>2, <1>3 DEF Known
<1>6. \A r \in 0..(n - 1) : record[r].order_len \in Nat
  BY <1>5 DEF Kept, RecordRight, RecordItem
<1>7. exec_order \in Seq(OrderItem) /\ \A k \in DOMAIN exec_order : exec_order[k].value + 1 \in DOMAIN resolvers
  <2>1. DOMAIN resolvers = 1..L
    BY <1>1, <1>2
  <2> QED
    BY <1>5, <2>1 DEF Kept, OnceEach
<1>8. Lengths(record, exec_order, registrations_added)
  BY DEF RecordRight
<1> QED
  BY <1>1, <1>2, <1>4, <1>6, <1>7, <1>8 DEF Basis

(* A step whose new call, if any, is not for an awaiter.                    *)
LEMMA LedgerStep ==
    ASSUME SorterTypes, RecordRight, Kept, Kept', RecordRight',
           LensGrow(record', record, registrations_added), Grown(exec_order', exec_order),
           NEW idx, LogRight(idx), NEW idx2, Logs(idx2, calls', resolvers', is_set'),
           \A x \in DOMAIN resolvers : resolvers'[x] = resolvers[x],
           DOMAIN calls \subseteq DOMAIN calls', \A i \in DOMAIN calls : calls'[i] = calls[i],
           DOMAIN idx \subseteq DOMAIN idx2, \A q \in DOMAIN idx : idx2[q] = idx[q],
           \A q \in DOMAIN idx2 : q \in DOMAIN idx \/ idx2[q] = Len(calls) + 1
    PROVE  /\ Later(idx2, idx, calls', calls, resolvers', resolvers, record', record,
                    exec_order', exec_order, registrations_added)
           /\ (\A i \in DOMAIN calls' : i \in DOMAIN calls \/ calls'[i].op # "await")
                => Served(idx2, calls', resolvers', record', exec_order')
<1>1. Basis(idx, calls, resolvers, record, exec_order, registrations_added)
  BY LedgerBasis
<1>2. 0..(registrations_added - 1) \subseteq Known
  BY DEF SorterTypes, Known
<1>3. \A r \in 0..(registrations_added - 1) : record'[r].order_len \in Nat
  BY <1>2 DEF Kept, RecordRight, RecordItem
<1>4. Later(idx2, idx, calls', calls, resolvers', resolvers, record', record,
            exec_order', exec_order, registrations_added)
  BY <1>3 DEF Later
<1>5. PICK log, res, rec, order, n : /\ log = calls /\ res = resolvers /\ rec = record
                                     /\ order = exec_order /\ n = registrations_added
  OBVIOUS
<1>6. PICK log2, res2, rec2, order2 : /\ log2 = calls' /\ res2 = resolvers' /\ rec2 = record'
                                      /\ order2 = exec_order'
  OBVIOUS
<1>7. ASSUME \A i \in DOMAIN calls' : i \in DOMAIN calls \/ calls'[i].op # "await"
      PROVE  Served(idx2, log2, res2, rec2, order2)
  <2>1. Basis(idx, log, res, rec, order, n) /\ Served(idx, log, res, rec, order)
    BY <1>1, <1>5 DEF LogRight
  <2>2. Later(idx2, idx, log2, log, res2, res, rec2, rec, order2, order, n)
    BY <1>4, <1>5, <1>6
  <2>3. \A i \in DOMAIN log2 : i \in DOMAIN log \/ log2[i].op # "await"
    BY <1>5, <1>6, <1>7
  <2> QED
    BY <2>1, <2>2, <2>3, ServedStep
<1> QED
  BY <1>4, <1>6, <1>7

LEMMA LogAppended ==
    ASSUME NEW log \in Seq(Logged), NEW c \in Logged
    PROVE  /\ DOMAIN log \subseteq DOMAIN Append(log, c)
           /\ \A i \in DOMAIN log : Append(log, c)[i] = log[i]
           /\ \A i \in DOMAIN Append(log, c) : i \in DOMAIN log \/ i = Len(log) + 1
           /\ Append(log, c)[Len(log) + 1] = c /\ Len(log) + 1 \in DOMAIN Append(log, c)
           /\ Len(Append(log, c)) = Len(log) + 1
<1>1. PICK n \in Nat : n = Len(log)
  OBVIOUS
<1>2. PICK l \in Seq(Logged) : l = Append(log, c)
  BY AppendProperties
<1>3. Len(l) = n + 1 /\ l[n + 1] = c /\ \A i \in 1..n : l[i] = log[i]
  BY <1>1, <1>2, AppendProperties
<1>4. DOMAIN log = 1..n /\ DOMAIN l = 1..(n + 1)
  BY <1>1, <1>3
<1>5. 1..n \subseteq 1..(n + 1) /\ n + 1 \in 1..(n + 1) /\ \A i \in 1..(n + 1) : i \in 1..n \/ i = n + 1
  OBVIOUS
<1> QED
  BY <1>1, <1>2, <1>3, <1>4, <1>5

LEMMA LedgerNext ==
    ASSUME SorterInv, RecordRight, Kept, Kept', RecordRight',
           LensGrow(record', record, registrations_added), Grown(exec_order', exec_order),
           Ledger, SorterNext \/ UNCHANGED sorterVars, ~GetAwaiter
    PROVE  Ledger'
<1>0. SorterTypes
  BY DEF SorterInv
<1>1. PICK idx : LogRight(idx)
  BY DEF Ledger
<1>2. Logs(idx, calls, resolvers, is_set)
  BY <1>1 DEF LogRight
<1>3. calls \in Seq(Logged) /\ resolvers \in Seq(Resolver)
  BY <1>2 DEF Logs
<1>4. CASE /\ UNCHANGED <<calls, resolvers, is_set>>
           /\ phase' = "adding" => phase = "adding" /\ registrations_added' = registrations_added
  <2>1. Logs(idx, calls', resolvers', is_set')
    BY <1>2, <1>4
  <2>2. /\ \A x \in DOMAIN resolvers : resolvers'[x] = resolvers[x]
        /\ DOMAIN calls \subseteq DOMAIN calls' /\ \A i \in DOMAIN calls : calls'[i] = calls[i]
        /\ \A i \in DOMAIN calls' : i \in DOMAIN calls \/ calls'[i].op # "await"
    BY <1>4
  <2>3. Served(idx, calls', resolvers', record', exec_order')
    BY <1>0, <1>1, <2>1, <2>2, LedgerStep
  <2>4. LogRight(idx)'
    BY <1>1, <1>4, <2>1, <2>3 DEF LogRight
  <2> QED
    BY <2>4 DEF Ledger
<1>5. ASSUME plan # <<>> PROVE Head(plan) \in Call /\ Head(plan) \in Logged
  <2>1. plan \in Seq(Call)
    BY <1>0 DEF SorterTypes
  <2>2. Head(plan) \in Call
    BY <1>5, <2>1, PlanTail
  <2> QED
    BY <2>2 DEF Logged
<1>6. CASE SetValue
  <2>1. PICK c : c = Head(plan)
    OBVIOUS
  <2>2. /\ plan # <<>> /\ c.op = "set" /\ is_set' = is_set \union {c.key}
        /\ calls' = Append(calls, c) /\ resolvers' = resolvers /\ phase' = phase /\ phase = "calls"
    BY <1>6, <2>1 DEF SetValue
  <2>3. c \in Logged /\ c = SetCall(c.key)
    BY <1>5, <2>1, <2>2, LoggedCases
  <2>4. \A v : v \in is_set' <=> v \in is_set \/ c = SetCall(v)
    <3>1. \A v : c = SetCall(v) => v = c.key
      BY DEF SetCall
    <3> QED
      BY <2>2, <2>3, <3>1
  <2>5. Logs(idx, calls', resolvers', is_set')
    <3>1. PICK log, res, set, set2 : log = calls /\ res = resolvers /\ set = is_set /\ set2 = is_set'
      OBVIOUS
    <3>2. Logs(idx, log, res, set) /\ c.op # "add" /\ \A v : v \in set2 <=> v \in set \/ c = SetCall(v)
      BY <1>2, <2>2, <2>4, <3>1
    <3>3. Logs(idx, Append(log, c), res, set2)
      BY <2>3, <3>2, LogsOther
    <3> QED
      BY <2>2, <3>1, <3>3
  <2>6. /\ DOMAIN calls \subseteq DOMAIN calls' /\ \A i \in DOMAIN calls : calls'[i] = calls[i]
        /\ \A i \in DOMAIN calls' : i \in DOMAIN calls \/ calls'[i].op # "await"
    BY <1>3, <2>2, <2>3, LogAppended
  <2>7. \A x \in DOMAIN resolvers : resolvers'[x] = resolvers[x]
    BY <2>2
  <2>8. Served(idx, calls', resolvers', record', exec_order')
    BY <1>0, <1>1, <2>5, <2>6, <2>7, LedgerStep
  <2>9. LogRight(idx)'
    BY <2>2, <2>5, <2>8 DEF LogRight
  <2> QED
    BY <2>9 DEF Ledger
<1>7. CASE AddResolution
  <2>1. PICK c, new : c = Head(plan) /\ new = [inputs |-> c.inputs, outputs |-> c.outputs]
    OBVIOUS
  <2>2. /\ plan # <<>> /\ c.op = "add" /\ is_set' = is_set /\ phase = "calls"
        /\ calls' = Append(calls, c) /\ resolvers' = Append(resolvers, new)
        /\ registrations_added' = registrations_added
    BY <1>7, <2>1 DEF AddResolution
  <2>3. c \in Logged
    BY <1>5, <2>1, <2>2
  <2>4. LogsAdded(idx, calls, resolvers, is_set, c, new)
    <3>1. PICK log, res, set : log = calls /\ res = resolvers /\ set = is_set
      OBVIOUS
    <3>2. Logs(idx, log, res, set)
      BY <1>2, <3>1
    <3>3. LogsAdded(idx, log, res, set, c, new)
      BY <2>1, <2>2, <2>3, <3>2, LogsAdd
    <3> QED
      BY <3>1, <3>3
  <2>5. PICK idx2 : /\ Logs(idx2, Append(calls, c), Append(resolvers, new), is_set)
                    /\ Extends(idx2, idx, Len(resolvers), Len(calls))
    BY <2>4 DEF LogsAdded
  <2>6. Logs(idx2, calls', resolvers', is_set')
    BY <2>2, <2>5
  <2>7. /\ DOMAIN calls \subseteq DOMAIN calls' /\ (\A i \in DOMAIN calls : calls'[i] = calls[i])
        /\ (\A i \in DOMAIN calls' : i \in DOMAIN calls \/ calls'[i].op # "await")
        /\ Len(calls') = Len(calls) + 1
    BY <1>3, <2>2, <2>3, LogAppended
  <2>8. /\ DOMAIN idx \subseteq DOMAIN idx2 /\ (\A q \in DOMAIN idx : idx2[q] = idx[q])
        /\ (\A q \in DOMAIN idx2 : q \in DOMAIN idx \/ idx2[q] = Len(calls) + 1)
        /\ idx2[Len(resolvers)] = Len(calls) + 1
    BY <2>5 DEF Extends
  <2>9. \A x \in DOMAIN resolvers : resolvers'[x] = resolvers[x]
    <3>1. new \in Resolver
      BY <2>1, <2>2, <2>3, LoggedCases DEF Resolver
    <3> QED
      BY <1>3, <2>2, <3>1, AppendProperties
  <2>10. Served(idx2, calls', resolvers', record', exec_order')
    BY <1>0, <1>1, <2>6, <2>7, <2>8, <2>9, LedgerStep
  <2>11. Len(resolvers) = registrations_added
    BY <1>0, <2>2 DEF SorterTypes
  <2>12. idx2[registrations_added'] = Len(calls')
    BY <2>2, <2>7, <2>8, <2>11
  <2>13. LogRight(idx2)'
    BY <2>6, <2>10, <2>12 DEF LogRight
  <2> QED
    BY <2>13 DEF Ledger
<1>8. \/ SetValue \/ AddResolution
      \/ /\ UNCHANGED <<calls, resolvers, is_set>>
         /\ phase' = "adding" => phase = "adding" /\ registrations_added' = registrations_added
  BY DEF SorterNext, sorterVars, AddResolutionEnd, InternalizeNext, Internalize, WaitTillResolved
<1> QED
  BY <1>4, <1>6, <1>7, <1>8

(* get_awaiter: the flush has written all of what gives the places up to    *)
(* max_tracked, and the last registration's record covers it.               *)
LEMMA LedgerAwait ==
    ASSUME SorterInv, RecordRight, Kept, Kept', RecordRight',
           Grown(exec_order', exec_order), Ledger, GetAwaiter
    PROVE  Ledger'
<1>0. SorterTypes /\ Prefix
  BY DEF SorterInv
<1>1. PICK idx : LogRight(idx)
  BY DEF Ledger
<1>2. Logs(idx, calls, resolvers, is_set)
  BY <1>1 DEF LogRight
<1>3. calls \in Seq(Logged) /\ resolvers \in Seq(Resolver)
  BY <1>2 DEF Logs
<1>4. PICK c : c = AwaitCall(max_tracked)
  OBVIOUS
<1>5. /\ Flush /\ phase = "calls" /\ phase' = phase
      /\ UNCHANGED <<resolvers, is_set, registrations_added>>
      /\ calls' = Append(calls, c) /\ max_tracked >= 0
  BY <1>4 DEF GetAwaiter
<1>6. max_tracked \in Places
  BY <1>0, <1>5, SorterAssumption DEF SorterTypes, Places
<1>7. c \in Logged /\ c.op = "await" /\ c.key = max_tracked
  BY <1>4, <1>6 DEF Logged, AwaitCall
<1>8. \A v : c # SetCall(v)
  BY <1>7 DEF SetCall
<1>9. Logs(idx, calls', resolvers', is_set')
  <2>1. PICK log, res, set : log = calls /\ res = resolvers /\ set = is_set
    OBVIOUS
  <2>2. Logs(idx, log, res, set) /\ c.op # "add" /\ \A v : v \in set <=> v \in set \/ c = SetCall(v)
    BY <1>2, <1>7, <1>8, <2>1
  <2>3. Logs(idx, Append(log, c), res, set)
    BY <1>7, <2>2, LogsOther
  <2> QED
    BY <1>5, <2>1, <2>3
<1>10. /\ LensGrow(record', record, registrations_added)
       /\ registrations_added > 0
            => record'[registrations_added - 1].order_len = Len(exec_order')
  BY <1>0, <1>5, FlushRecords
<1>11. /\ DOMAIN calls \subseteq DOMAIN calls' /\ (\A i \in DOMAIN calls : calls'[i] = calls[i])
       /\ (\A i \in DOMAIN calls' : i \in DOMAIN calls \/ i = Len(calls) + 1)
       /\ calls'[Len(calls) + 1] = c /\ Len(calls) + 1 \in DOMAIN calls'
  BY <1>3, <1>5, <1>7, LogAppended
<1>12. \A x \in DOMAIN resolvers : resolvers'[x] = resolvers[x]
  BY <1>5
<1>13. Later(idx, idx, calls', calls, resolvers', resolvers, record', record,
             exec_order', exec_order, registrations_added)
  BY <1>0, <1>1, <1>9, <1>10, <1>11, <1>12, LedgerStep
<1>14. Basis(idx, calls, resolvers, record, exec_order, registrations_added)
  BY <1>0, <1>1, LedgerBasis
<1>15. ASSUME NEW i \in DOMAIN calls, NEW v, ServedAt(idx, calls, resolvers, record, exec_order, i, v)
       PROVE  ServedAt(idx, calls', resolvers', record', exec_order', i, v)
  <2>1. PICK log, res, rec, order, n : /\ log = calls /\ res = resolvers /\ rec = record
                                       /\ order = exec_order /\ n = registrations_added
    OBVIOUS
  <2>2. PICK log2, res2, rec2, order2 : /\ log2 = calls' /\ res2 = resolvers' /\ rec2 = record'
                                        /\ order2 = exec_order'
    OBVIOUS
  <2>3. Basis(idx, log, res, rec, order, n) /\ ServedAt(idx, log, res, rec, order, i, v) /\ i \in DOMAIN log
    BY <1>14, <1>15, <2>1
  <2>4. Later(idx, idx, log2, log, res2, res, rec2, rec, order2, order, n)
    BY <1>13, <2>1, <2>2
  <2>5. ServedAt(idx, log2, res2, rec2, order2, i, v)
    BY <2>3, <2>4, ServedLater
  <2> QED
    BY <2>2, <2>5
<1>16. PICK m, n \in Nat : m = Len(calls) /\ n = registrations_added
  BY <1>0, <1>3 DEF SorterTypes
<1>17. DOMAIN idx = 0..(n - 1) /\ Known = 0..(n - 1) /\ \A r \in DOMAIN idx : idx[r] \in 1..m
  <2>1. Len(resolvers) = n
    BY <1>0, <1>5, <1>16 DEF SorterTypes
  <2> QED
    BY <1>2, <1>3, <1>16, <2>1 DEF Logs, Known
<1>18. ASSUME NEW v \in 0..max_tracked
       PROVE  ServedAt(idx, calls', resolvers', record', exec_order', m + 1, v)
  <2>1. PICK W : Sorting(W)
    BY DEF SorterInv
  <2>2. v \in Places /\ tracker[v] # None
    <3>1. PICK t, N \in Nat : t = max_tracked /\ N = NumPlaces /\ t <= N - 1
      BY <1>0, <1>5, SorterAssumption DEF SorterTypes
    <3>2. v \in 0..(N - 1) /\ v <= t
      BY <3>1
    <3> QED
      BY <1>0, <3>1, <3>2 DEF Prefix, Places
  <2>3. CASE v \in is_set
    <3>1. PICK j \in DOMAIN calls : calls[j] = SetCall(v)
      BY <1>2, <2>3 DEF Logs
    <3>2. j < m + 1
      <4>1. j \in 1..m
        BY <1>3, <1>16
      <4> QED
        BY <4>1
    <3>3. j \in DOMAIN calls' /\ calls'[j] = SetCall(v)
      BY <1>11, <3>1
    <3> QED
      BY <3>2, <3>3 DEF ServedAt
  <2>4. CASE \E r \in DOMAIN W : v \in OutputsOf(r)
    <3>1. PICK r \in DOMAIN W : v \in OutputsOf(r)
      BY <2>4
    <3>2. r \in Known
      BY <2>1 DEF Sorting, WaitingOnce
    <3>3. PICK k \in DOMAIN exec_order' : exec_order'[k].value = r
      <4>1. AllStand(W, exec_order')
        BY <1>5, <2>1, FlushStands DEF Sorting
      <4> QED
        BY <3>1, <4>1 DEF AllStand
    <3>4. n > 0 /\ n - 1 \in 0..(n - 1) /\ \A q \in 0..(n - 1) : q <= n - 1
      BY <1>17, <3>2
    <3>5. k \in 1..record'[n - 1].order_len
      <4>1. exec_order' \in Seq(OrderItem)
        BY DEF Kept, OnceEach
      <4>2. k \in 1..Len(exec_order')
        BY <3>3, <4>1
      <4> QED
        BY <1>10, <1>16, <3>4, <4>2
    <3>6. v \in resolvers'[exec_order'[k].value + 1].outputs
      BY <1>5, <3>1, <3>3 DEF OutputsOf
    <3>7. n - 1 \in DOMAIN idx /\ idx[n - 1] < m + 1
      <4>1. n - 1 \in DOMAIN idx /\ idx[n - 1] \in 1..m
        BY <1>17, <3>4
      <4> QED
        BY <4>1
    <3> QED
      BY <1>17, <3>4, <3>5, <3>6, <3>7 DEF ServedAt
  <2> QED
    BY <2>1, <2>2, <2>3, <2>4 DEF Sorting, Settled
<1>19. Served(idx, calls', resolvers', record', exec_order')
  <2> SUFFICES ASSUME NEW i \in DOMAIN calls', calls'[i].op = "await", NEW v \in 0..calls'[i].key
               PROVE  ServedAt(idx, calls', resolvers', record', exec_order', i, v)
    BY DEF Served
  <2>1. CASE i \in DOMAIN calls
    <3>1. ServedAt(idx, calls, resolvers, record, exec_order, i, v)
      BY <1>1, <1>11, <2>1 DEF LogRight, Served
    <3> QED
      BY <1>15, <2>1, <3>1
  <2>2. CASE i = m + 1
    BY <1>7, <1>11, <1>16, <1>18, <2>2
  <2> QED
    BY <1>11, <1>16, <2>1, <2>2
<1>20. LogRight(idx)'
  BY <1>5, <1>9, <1>19 DEF LogRight
<1> QED
  BY <1>20 DEF Ledger

---------------------------------------------------------------------------
LEMMA StepOfSorter ==
    ASSUME [Next]_vars PROVE SorterNext \/ UNCHANGED sorterVars
BY DEF Next, vars, PlaybackNext, NewPlayback, PlaybackSetValue, PlaybackAddResolution,
       PlaybackGetAwaiter, PlaybackWaitTillResolved

(* What is known of the recorder, in every state.                           *)
LEMMA RecorderKept == Spec => [](SorterInv /\ Accounts /\ Ended /\ Kept)
<1>1. Init => Accounts /\ Ended
  <2>1. SorterInit => Ended
    BY DEF SorterInit, Ended
  <2> QED
    BY <2>1, AccountsInit DEF Init
<1>2. SorterInv /\ Accounts /\ Ended /\ [Next]_vars => Accounts' /\ Ended'
  BY StepOfSorter, AccountsNext, EndedNext
<1>3. SorterInv /\ Accounts => Kept
  BY KeptFromInv
<1> QED
  BY <1>1, <1>2, <1>3, SorterInvariant, PTL DEF Spec

LEMMA RecorderRight == Spec => [](RecordRight /\ Ledger)
<1>1. Init => RecordRight /\ Ledger
  BY RecordRightInit, LedgerInit DEF Init
<1>2. ASSUME SorterInv, Kept, Kept', RecordRight, Ledger, [Next]_vars
      PROVE  RecordRight' /\ Ledger'
  <2>1. SorterNext \/ UNCHANGED sorterVars
    BY <1>2, StepOfSorter
  <2>2. Grown(exec_order', exec_order)
    BY <1>2, <2>1, OrderGrows
  <2>3. RecordRight' /\ LensGrow(record', record, registrations_added)
    BY <1>2, <2>1, <2>2, RecordRightNext
  <2>4. CASE GetAwaiter
    BY <1>2, <2>2, <2>3, <2>4, LedgerAwait
  <2>5. CASE ~GetAwaiter
    BY <1>2, <2>1, <2>2, <2>3, <2>5, LedgerNext
  <2> QED
    BY <2>3, <2>4, <2>5
<1>3. SorterInv /\ Kept /\ Kept' /\ (RecordRight /\ Ledger) /\ [Next]_vars => (RecordRight /\ Ledger)'
  BY <1>2
<1> QED
  BY <1>1, <1>3, RecorderKept, PTL DEF Spec

(* A recorder that is done has all of its resolvers in the order, once.     *)
LEMMA OrderedAll ==
    ASSUME NEW n \in Nat, NEW order, OnceEach(order, 0..(n - 1)),
           \A r \in 0..(n - 1) : \E k \in DOMAIN order : order[k].value = r
    PROVE  Len(order) = n
<1>1. PICK m \in Nat : m = Len(order) /\ DOMAIN order = 1..m
  BY DEF OnceEach
<1>2. PICK f : f = [k \in 1..m |-> order[k].value]
  OBVIOUS
<1>3. f \in [1..m -> 0..(n - 1)] /\ \A k \in 1..m : f[k] = order[k].value
  BY <1>1, <1>2 DEF OnceEach
<1>4. f \in Bijection(1..m, 0..(n - 1))
  <2>1. f \in Injection(1..m, 0..(n - 1))
    BY <1>1, <1>3 DEF Injection, IsInjective, OnceEach
  <2>2. f \in Surjection(1..m, 0..(n - 1))
    BY <1>1, <1>3 DEF Surjection
  <2> QED
    BY <2>1, <2>2 DEF Bijection
<1>5. ExistsBijection(1..m, 0..(n - 1))
  BY <1>4 DEF ExistsBijection
<1>6. IsFiniteSet(1..m) /\ Cardinality(1..m) = m
  <2>1. 1 \in Int /\ m \in Int
    OBVIOUS
  <2>2. /\ IsFiniteSet(1..m)
        /\ Cardinality(1..m) = IF 1 > m THEN 0 ELSE m - 1 + 1
    BY <2>1, FS_Interval
  <2>3. CASE 1 > m
    BY <2>2, <2>3
  <2>4. CASE ~(1 > m)
    BY <2>2, <2>4
  <2> QED
    BY <2>3, <2>4
<1>7. Cardinality(0..(n - 1)) = n
  <2>1. 0 \in Int /\ n - 1 \in Int
    OBVIOUS
  <2>2. PICK p \in Int : p = n - 1
    BY <2>1
  <2>3. Cardinality(0..p) = IF 0 > p THEN 0 ELSE p - 0 + 1
    BY <2>1, <2>2, FS_Interval
  <2>4. CASE 0 > p
    BY <2>2, <2>3, <2>4
  <2>5. CASE ~(0 > p)
    BY <2>2, <2>3, <2>5
  <2> QED
    BY <2>4, <2>5, <2>2
<1>8. Cardinality(1..m) = Cardinality(0..(n - 1))
  BY <1>5, <1>6, FS_Bijection
<1> QED
  BY <1>1, <1>6, <1>7, <1>8

LEMMA PanickedCalls ==
    ASSUME SorterInv, Accounts, Ended, Ledger, phase = "panicked"
    PROVE  \E i \in DOMAIN calls : ~GivesAbove(calls[i])
<1>1. PICK idx : Logs(idx, calls, resolvers, is_set)
  BY DEF Ledger, LogRight
<1>2. PICK q \in Known : ~GivesAbove(resolvers[q + 1])
  BY PanicReason
<1>3. idx[q] \in DOMAIN calls
      /\ calls[idx[q]] = AddCall(resolvers[q + 1].inputs, resolvers[q + 1].outputs)
  BY <1>1, <1>2 DEF Logs, Known
<1>4. calls[idx[q]].inputs = resolvers[q + 1].inputs
      /\ calls[idx[q]].outputs = resolvers[q + 1].outputs
  BY <1>3 DEF AddCall
<1> QED
  BY <1>2, <1>3, <1>4 DEF GivesAbove

LEMMA OrderedFromInv ==
    ASSUME SorterInv, Accounts, Ended, Kept, RecordRight, Ledger
    PROVE  EveryResolverOrdered
<1>1. CASE phase = "panicked"
  <2>1. phase # "recorded"
    BY <1>1
  <2> QED
    BY <1>1, <2>1, PanickedCalls DEF EveryResolverOrdered
<1>2. CASE phase = "recorded"
  <2>1. PICK n \in Nat : n = registrations_added
    BY DEF SorterInv, SorterTypes
  <2>2. Known = 0..(n - 1)
    <3>1. Len(resolvers) = n
      BY <1>2, <2>1 DEF SorterInv, SorterTypes
    <3> QED
      BY <3>1 DEF Known
  <2>3. \A r \in 0..(n - 1) : \E k \in DOMAIN exec_order : exec_order[k].value = r
    BY <1>2, <2>2, RecordedAll
  <2>4. OnceEach(exec_order, 0..(n - 1))
    BY <2>2 DEF Kept
  <2>5. Len(exec_order) = n
    <3>1. PICK o : o = exec_order
      OBVIOUS
    <3>2. OnceEach(o, 0..(n - 1)) /\ \A r \in 0..(n - 1) : \E k \in DOMAIN o : o[k].value = r
      BY <2>3, <2>4, <3>1
    <3>3. Len(o) = n
      BY <3>2, OrderedAll
    <3> QED
      BY <3>1, <3>3
  <2>6. ASSUME NEW r \in 0..(n - 1)
        PROVE  /\ exec_order[record[r].order_ix + 1].value = r
               /\ record[r].parallelism = exec_order[record[r].order_ix + 1].parallelism
    <3>1. PICK k \in DOMAIN exec_order : exec_order[k].value = r
      BY <2>3
    <3>2. record[r].order_ix = k - 1 /\ record[r].parallelism = exec_order[k].parallelism
      BY <3>1 DEF RecordRight, Noted
    <3>3. k \in Int
      BY <3>1, <2>4 DEF OnceEach
    <3>4. record[r].order_ix + 1 = k
      BY <3>2, <3>3
    <3> QED
      BY <3>1, <3>2, <3>4
  <2>7. phase # "panicked"
    BY <1>2
  <2> QED
    BY <2>1, <2>5, <2>6, <2>7 DEF EveryResolverOrdered
<1>3. CASE phase # "panicked" /\ phase # "recorded"
  BY <1>3 DEF EveryResolverOrdered
<1> QED
  BY <1>1, <1>2, <1>3

(* A client of any size whose resolvers give only places above the ones     *)
(* they need never meets final_flush's assert (sorter_live.rs), and every   *)
(* recording that ends has each resolver in the order exactly once, where   *)
(* its record says.                                                         *)
THEOREM EveryResolverIsOrdered == Spec => []EveryResolverOrdered
<1>1. SorterInv /\ Accounts /\ Ended /\ Kept /\ RecordRight /\ Ledger => EveryResolverOrdered
  BY OrderedFromInv
<1> QED
  BY <1>1, RecorderKept, RecorderRight, PTL

---------------------------------------------------------------------------
(* Playback.  The resolvers registered so far are those whose call has been *)
(* made again; those below w have been written to their slots; the others   *)
(* are in the buffer; and the published slots are written.                  *)
Counted(idx, pos, regs, n) ==
    /\ pos \in Nat /\ n \in Nat /\ regs \in 0..n
    /\ \A r \in 0..(n - 1) : idx[r] <= pos <=> r < regs

SetUpTo(set, log, pos) ==
    \A v : v \in set <=> \E i \in DOMAIN log : i <= pos /\ log[i] = SetCall(v)

Buffered(buffer, w, regs) ==
    buffer \in Seq(Nat) /\ w \in 0..regs /\ ToSet(buffer) = w..(regs - 1)

Stored(items, order, w) ==
    items = [k \in DOMAIN order |-> IF order[k].value < w THEN order[k].value ELSE None]

Published(size, order, w) ==
    size \in 0..Len(order) /\ \A k \in 1..size : order[k].value < w

Playing(idx, w) ==
    /\ pb_pos \in 0..Len(calls)
    /\ Counted(idx, pb_pos, pb_registrations, registrations_added)
    /\ SetUpTo(pb_is_set, calls, pb_pos)
    /\ Buffered(pb_buffer, w, pb_registrations)
    /\ Stored(pb_items, exec_order, w) /\ Published(pb_size, exec_order, w)

PlaybackInv ==
    \/ /\ pb_phase = "off" /\ pb_pos = 0 /\ pb_is_set = {} /\ pb_registrations = 0
       /\ pb_buffer = <<>> /\ pb_size = 0
    \/ /\ pb_phase # "off" /\ phase = "recorded"
       /\ \E idx, w : LogRight(idx) /\ Playing(idx, w)

(* The record of a finished recording: the order has each of the n          *)
(* registrations once, where its record says.                               *)
Complete(order, rec, n) ==
    /\ n \in Nat /\ OnceEach(order, 0..(n - 1)) /\ Len(order) = n
    /\ \A r \in 0..(n - 1) : /\ rec[r].order_ix + 1 \in DOMAIN order
                             /\ order[rec[r].order_ix + 1].value = r
    /\ \A r \in 0..(n - 1) : rec[r].order_len \in Nat
    /\ Lengths(rec, order, n)

LEMMA RecordedComplete ==
    ASSUME SorterInv, Kept, Ended, RecordRight, EveryResolverOrdered, phase = "recorded"
    PROVE  Complete(exec_order, record, registrations_added)
<1>1. PICK n \in Nat : n = registrations_added
  BY DEF SorterInv, SorterTypes
<1>2. Known = 0..(n - 1)
  <2>1. Len(resolvers) = n
    BY <1>1 DEF SorterInv, SorterTypes
  <2> QED
    BY <2>1 DEF Known
<1>3. Len(exec_order) = n /\ OnceEach(exec_order, 0..(n - 1))
  BY <1>1, <1>2 DEF EveryResolverOrdered, Kept
<1>4. ASSUME NEW r \in 0..(n - 1)
      PROVE  /\ record[r].order_ix + 1 \in DOMAIN exec_order
             /\ exec_order[record[r].order_ix + 1].value = r
  <2>1. PICK k \in DOMAIN exec_order : exec_order[k].value = r
    BY <1>2, RecordedAll
  <2>2. record[r].order_ix = k - 1
    BY <2>1 DEF RecordRight, Noted
  <2>3. k \in Int
    BY <1>3, <2>1 DEF OnceEach
  <2>4. record[r].order_ix + 1 = k
    BY <2>2, <2>3
  <2> QED
    BY <2>1, <2>4
<1>5. \A r \in 0..(n - 1) : record[r].order_len \in Nat
  BY <1>2 DEF Kept, RecordRight, RecordItem
<1>6. Lengths(record, exec_order, n)
  BY <1>1 DEF RecordRight
<1> QED
  BY <1>1, <1>3, <1>4, <1>5, <1>6 DEF Complete

(* write_buffer puts the registrations of the buffer into their slots.      *)
Slot(items, rec, buffer, k) ==
    LET rs == {r \in ToSet(buffer) : rec[r].order_ix + 1 = k} IN
    IF rs = {} THEN items[k] ELSE CHOOSE r \in rs : TRUE

SlotsAfter(items, rec, buffer) == [k \in DOMAIN items |-> Slot(items, rec, buffer, k)]

LEMMA SlotsWritten ==
    ASSUME NEW order, NEW rec, NEW n, Complete(order, rec, n), NEW items, NEW w,
           Stored(items, order, w), NEW buffer, NEW regs \in 0..n, Buffered(buffer, w, regs)
    PROVE  Stored(SlotsAfter(items, rec, buffer), order, regs)
<1>1. /\ n \in Nat /\ order \in Seq(OrderItem) /\ Len(order) = n /\ DOMAIN order = 1..n
      /\ (\A k \in 1..n : order[k].value \in 0..(n - 1))
      /\ (\A j, k \in 1..n : order[j].value = order[k].value => j = k)
      /\ \A r \in 0..(n - 1) : /\ rec[r].order_ix + 1 \in 1..n
                               /\ order[rec[r].order_ix + 1].value = r
  <2>1. /\ n \in Nat /\ Len(order) = n /\ OnceEach(order, 0..(n - 1))
        /\ \A r \in 0..(n - 1) : /\ rec[r].order_ix + 1 \in DOMAIN order
                                 /\ order[rec[r].order_ix + 1].value = r
    BY DEF Complete
  <2>2. /\ order \in Seq(OrderItem)
        /\ \A k \in DOMAIN order : order[k].value \in 0..(n - 1)
        /\ \A j, k \in DOMAIN order : order[j].value = order[k].value => j = k
    BY <2>1, Zenon DEF OnceEach
  <2>3. DOMAIN order = 1..n
    BY <2>1, <2>2
  <2> QED
    BY <2>1, <2>2, <2>3, Zenon
<1>2. w \in 0..regs /\ ToSet(buffer) = w..(regs - 1)
  BY DEF Buffered
<1>3. DOMAIN items = 1..n
      /\ \A k \in 1..n : items[k] = IF order[k].value < w THEN order[k].value ELSE None
  BY <1>1 DEF Stored
<1>4. ASSUME NEW k \in 1..n
      PROVE  Slot(items, rec, buffer, k) = IF order[k].value < regs THEN order[k].value ELSE None
  <2>1. PICK x \in 0..(n - 1) : x = order[k].value
    BY <1>1
  <2>2. PICK rs : rs = {r \in ToSet(buffer) : rec[r].order_ix + 1 = k}
    OBVIOUS
  <2>3. Slot(items, rec, buffer, k) = IF rs = {} THEN items[k] ELSE CHOOSE r \in rs : TRUE
    BY <2>2 DEF Slot
  <2>4. rec[x].order_ix + 1 = k
    BY <1>1, <2>1
  <2>5. \A r \in w..(regs - 1) : r \in 0..(n - 1)
    BY <1>1, <1>2
  <2>6. \A r \in rs : r = x
    BY <1>1, <1>2, <2>1, <2>2, <2>5
  <2>7. x \in w..(regs - 1) => x \in rs
    BY <1>2, <2>2, <2>4
  <2>8. \A r \in rs : r \in w..(regs - 1)
    BY <1>2, <2>2
  <2>9. CASE x \in w..(regs - 1)
    <3>1. rs # {} /\ \A r \in rs : r = x
      BY <2>6, <2>7, <2>9
    <3>2. (CHOOSE r \in rs : TRUE) \in rs
      BY <3>1
    <3>3. Slot(items, rec, buffer, k) = x
      BY <2>3, <3>1, <3>2
    <3>4. x < regs
      BY <1>1, <1>2, <2>9
    <3> QED
      BY <2>1, <3>3, <3>4
  <2>10. CASE x \notin w..(regs - 1)
    <3>1. rs = {}
      BY <2>6, <2>8, <2>10
    <3>2. Slot(items, rec, buffer, k) = IF x < w THEN x ELSE None
      BY <1>3, <2>1, <2>3, <3>1
    <3>3. x < w <=> x < regs
      BY <1>1, <1>2, <2>10
    <3> QED
      BY <2>1, <3>2, <3>3
  <2> QED
    BY <2>9, <2>10
<1>5. SlotsAfter(items, rec, buffer) = [k \in 1..n |-> Slot(items, rec, buffer, k)]
  BY <1>3 DEF SlotsAfter
<1>6. SlotsAfter(items, rec, buffer)
        = [k \in 1..n |-> IF order[k].value < regs THEN order[k].value ELSE None]
  BY <1>4, <1>5
<1> QED
  BY <1>1, <1>6 DEF Stored

(* The recorded size publishes only what is registered.                     *)
LEMMA SizePublished ==
    ASSUME Complete(exec_order, record, registrations_added),
           NEW regs \in 0..registrations_added, regs = 0 => registrations_added = 0
    PROVE  /\ Published(RecordedSize(regs), exec_order, regs)
           /\ regs > 0 => \A k \in 1..record[regs - 1].order_len : k \in 1..RecordedSize(regs)
<1>1. PICK n \in Nat : n = registrations_added
  BY DEF Complete
<1>2. /\ Len(exec_order) = n
      /\ \A k \in 1..n : exec_order[k].value \in 0..(n - 1)
  <2>1. /\ Len(exec_order) = n /\ exec_order \in Seq(OrderItem)
        /\ \A k \in DOMAIN exec_order : exec_order[k].value \in 0..(n - 1)
    BY <1>1 DEF Complete, OnceEach
  <2> QED
    BY <2>1
<1>3. regs \in 0..n /\ regs \in Nat
  BY <1>1
<1>4. ASSUME regs > 0
      PROVE  /\ record[regs - 1].order_len \in 0..n
             /\ \A k \in 1..record[regs - 1].order_len : exec_order[k].value <= regs - 1
  <2>1. PICK r \in 0..(n - 1) : r = regs - 1
    <3>1. regs - 1 \in 0..(n - 1)
      BY <1>3, <1>4
    <3> QED
      BY <3>1
  <2>2. /\ record[r].order_len \in Nat /\ record[r].order_len <= n
        /\ \A k \in 1..record[r].order_len : exec_order[k].value <= r
    BY <1>1, <1>2 DEF Complete, Lengths
  <2> QED
    BY <2>1, <2>2
<1>5. CASE regs = n
  <2>1. RecordedSize(regs) = n
    BY <1>1, <1>5 DEF RecordedSize, RegistrationsCount
  <2>2. \A k \in 1..n : exec_order[k].value < regs
    BY <1>2, <1>5
  <2>3. n \in 0..n
    OBVIOUS
  <2>4. regs > 0 => \A k \in 1..record[regs - 1].order_len : k \in 1..n
    BY <1>4
  <2> QED
    BY <1>2, <2>1, <2>2, <2>3, <2>4 DEF Published
<1>6. CASE regs # n
  <2>1. RecordedSize(regs) = record[regs - 1].order_len
    BY <1>1, <1>6 DEF RecordedSize, RegistrationsCount
  <2>2. regs > 0
    BY <1>1, <1>3, <1>6
  <2>3. PICK s \in 0..n : s = record[regs - 1].order_len
    BY <1>4, <2>2
  <2>4. ASSUME NEW k \in 1..s PROVE exec_order[k].value < regs
    <3>1. k \in 1..n
      BY <2>3
    <3>2. PICK x \in 0..(n - 1) : x = exec_order[k].value
      BY <1>2, <3>1
    <3>3. x <= regs - 1
      BY <1>4, <2>2, <2>3, <3>2
    <3>4. x < regs
      BY <1>3, <3>3
    <3> QED
      BY <3>2, <3>4
  <2> QED
    BY <1>2, <2>1, <2>3, <2>4 DEF Published
<1> QED
  BY <1>5, <1>6

LEMMA BufferWritten ==
    ASSUME Complete(exec_order, record, registrations_added), NEW w,
           Stored(pb_items, exec_order, w), NEW buffer, NEW regs \in 0..registrations_added,
           Buffered(buffer, w, regs), NEW size, Published(size, exec_order, regs),
           WriteBuffer(buffer, size), exec_order' = exec_order
    PROVE  /\ Buffered(pb_buffer', regs, regs) /\ Stored(pb_items', exec_order', regs)
           /\ Published(pb_size', exec_order', regs)
<1>1. PICK items, rec, order, n : /\ items = pb_items /\ rec = record /\ order = exec_order
                                  /\ n = registrations_added
  OBVIOUS
<1>2. pb_items' = SlotsAfter(items, rec, buffer) /\ pb_size' = size /\ pb_buffer' = <<>>
  BY <1>1 DEF WriteBuffer, SlotsAfter, Slot
<1>3. Complete(order, rec, n) /\ Stored(items, order, w) /\ regs \in 0..n
  BY <1>1
<1>4. Stored(SlotsAfter(items, rec, buffer), order, regs)
  BY <1>3, SlotsWritten
<1>5. regs \in 0..regs /\ regs..(regs - 1) = {}
  BY <1>3 DEF Complete
<1>6. Buffered(pb_buffer', regs, regs)
  <2>1. PICK b : b = pb_buffer'
    OBVIOUS
  <2>2. b \in Seq(Nat) /\ ToSet(b) = {}
    BY <1>2, <2>1, EmptyOnce
  <2>3. Buffered(b, regs, regs)
    BY <1>5, <2>2 DEF Buffered
  <2> QED
    BY <2>1, <2>3
<1> QED
  BY <1>1, <1>2, <1>4, <1>6

(* The call made again: a registration is the next resolver's, and no other *)
(* call changes what is registered.                                         *)
LEMMA CountedNext ==
    ASSUME NEW idx, NEW log, NEW res, NEW set, Logs(idx, log, res, set),
           NEW pos, NEW regs, NEW n, n = Len(res), Counted(idx, pos, regs, n),
           pos + 1 \in DOMAIN log
    PROVE  /\ log[pos + 1].op # "add" => Counted(idx, pos + 1, regs, n)
           /\ log[pos + 1].op = "add" => Counted(idx, pos + 1, regs + 1, n)
<1>1. /\ pos \in Nat /\ n \in Nat /\ regs \in 0..n
      /\ \A r \in 0..(n - 1) : idx[r] <= pos <=> r < regs
  BY DEF Counted
<1>2. /\ log \in Seq(Logged) /\ DOMAIN idx = 0..(n - 1)
      /\ \A r \in DOMAIN idx :
            idx[r] \in DOMAIN log /\ log[idx[r]] = AddCall(res[r + 1].inputs, res[r + 1].outputs)
      /\ \A q, r \in DOMAIN idx : q < r => idx[q] < idx[r]
      /\ \A i \in DOMAIN log : log[i].op = "add" => \E r \in DOMAIN idx : idx[r] = i
  BY DEF Logs
<1>3. \A r \in 0..(n - 1) : idx[r] \in Nat
  BY <1>2
<1>4. \A x \in Nat : x <= pos + 1 <=> x <= pos \/ x = pos + 1
  BY <1>1
<1>5. pos + 1 \in Nat
  BY <1>1
<1>6. ASSUME log[pos + 1].op # "add" PROVE Counted(idx, pos + 1, regs, n)
  <2>1. ASSUME NEW r \in 0..(n - 1), idx[r] = pos + 1 PROVE FALSE
    <3>1. log[pos + 1] = AddCall(res[r + 1].inputs, res[r + 1].outputs)
      BY <1>2, <2>1
    <3> QED
      BY <1>6, <3>1 DEF AddCall
  <2>2. \A r \in 0..(n - 1) : idx[r] <= pos + 1 <=> idx[r] <= pos
    BY <1>3, <1>4, <2>1
  <2> QED
    BY <1>1, <1>5, <2>2 DEF Counted
<1>7. ASSUME log[pos + 1].op = "add" PROVE Counted(idx, pos + 1, regs + 1, n)
  <2>1. PICK r \in 0..(n - 1) : idx[r] = pos + 1
    BY <1>2, <1>7
  <2>2. ~(r < regs)
    <3>1. ~(pos + 1 <= pos)
      BY <1>1
    <3> QED
      BY <1>1, <2>1, <3>1
  <2>3. ~(regs < r)
    <3> SUFFICES ASSUME regs < r PROVE FALSE
      OBVIOUS
    <3>1. regs \in 0..(n - 1)
      BY <1>1
    <3>2. idx[regs] < pos + 1
      BY <1>2, <2>1, <3>1
    <3>3. idx[regs] <= pos
      BY <1>1, <1>3, <3>1, <3>2
    <3>4. regs < regs
      BY <1>1, <3>1, <3>3
    <3> QED
      BY <1>1, <3>4
  <2>4. r = regs /\ regs + 1 \in 0..n
    BY <1>1, <2>2, <2>3
  <2>5. ASSUME NEW q \in 0..(n - 1) PROVE idx[q] <= pos + 1 <=> q < regs + 1
    <3>1. idx[q] <= pos + 1 <=> idx[q] <= pos \/ idx[q] = pos + 1
      BY <1>3, <1>4
    <3>2. idx[q] = pos + 1 <=> q = r
      <4>1. q < r => idx[q] < idx[r]
        BY <1>2
      <4>2. r < q => idx[r] < idx[q]
        BY <1>2
      <4>3. PICK x, y \in Nat : x = idx[q] /\ y = idx[r]
        BY <1>3
      <4>4. x = y => ~(q < r) /\ ~(r < q)
        BY <4>1, <4>2, <4>3
      <4> QED
        BY <2>1, <4>3, <4>4
    <3>3. idx[q] <= pos <=> q < regs
      BY <1>1
    <3>4. q < regs + 1 <=> q < regs \/ q = regs
      BY <1>1
    <3> QED
      BY <2>4, <3>1, <3>2, <3>3, <3>4
  <2> QED
    BY <1>1, <1>5, <2>4, <2>5 DEF Counted
<1> QED
  BY <1>6, <1>7

LEMMA SetUpToNext ==
    ASSUME NEW set, NEW log \in Seq(Logged), NEW pos \in Nat, SetUpTo(set, log, pos),
           pos + 1 \in DOMAIN log
    PROVE  /\ log[pos + 1].op = "set" => SetUpTo(set \union {log[pos + 1].key}, log, pos + 1)
           /\ log[pos + 1].op # "set" => SetUpTo(set, log, pos + 1)
<1>1. PICK c : c = log[pos + 1]
  OBVIOUS
<1>2. c \in Logged
  BY <1>1
<1>3. \A i \in DOMAIN log : i <= pos + 1 <=> i <= pos \/ i = pos + 1
  OBVIOUS
<1>4. CASE c.op = "set"
  <2>1. c = SetCall(c.key)
    BY <1>2, <1>4, LoggedCases
  <2>2. \A v : c = SetCall(v) <=> v = c.key
    BY <2>1 DEF SetCall
  <2> QED
    BY <1>1, <1>3, <1>4, <2>2 DEF SetUpTo
<1>5. CASE c.op # "set"
  <2>1. \A v : c # SetCall(v)
    BY <1>5 DEF SetCall
  <2> QED
    BY <1>1, <1>3, <1>5, <2>1 DEF SetUpTo
<1> QED
  BY <1>4, <1>5

LEMMA AppendBuffered ==
    ASSUME NEW buffer, NEW w, NEW regs \in Nat, Buffered(buffer, w, regs)
    PROVE  Buffered(Append(buffer, regs), w, regs + 1)
<1>1. buffer \in Seq(Nat) /\ w \in 0..regs /\ ToSet(buffer) = w..(regs - 1)
  BY DEF Buffered
<1>2. Append(buffer, regs) \in Seq(Nat) /\ ToSet(Append(buffer, regs)) = ToSet(buffer) \union {regs}
  BY <1>1, AppendOnce
<1>3. w \in 0..(regs + 1) /\ w..(regs - 1) \union {regs} = w..((regs + 1) - 1)
  BY <1>1
<1> QED
  BY <1>1, <1>2, <1>3 DEF Buffered

---------------------------------------------------------------------------
(* Nothing is recorded once recording is done.                              *)
LEMMA RecordedStays ==
    ASSUME SorterTypes, phase = "recorded", SorterNext PROVE FALSE
<1>1. stack = <<>> /\ pending = <<>>
  BY DEF SorterTypes
<1> QED
  BY <1>1 DEF SorterNext, SetValue, AddResolution, AddResolutionEnd, InternalizeNext,
         Internalize, GetAwaiter, WaitTillResolved

LEMMA LogRightStays ==
    ASSUME NEW idx, LogRight(idx), UNCHANGED sorterVars PROVE LogRight(idx)'
BY DEF LogRight, sorterVars

LEMMA NewPlaybackInv ==
    ASSUME SorterInv, Kept, Ended, RecordRight, Ledger, EveryResolverOrdered,
           PlaybackInv, NewPlayback
    PROVE  PlaybackInv'
<1>1. /\ phase = "recorded" /\ pb_phase = "off" /\ pb_phase' = "calls" /\ UNCHANGED sorterVars
      /\ pb_items' = [k \in 1..registrations_added |-> None]
      /\ UNCHANGED <<pb_pos, pb_is_set, pb_registrations, pb_buffer, pb_size>>
  BY DEF NewPlayback, RegistrationsCount
<1>2. pb_pos = 0 /\ pb_is_set = {} /\ pb_registrations = 0 /\ pb_buffer = <<>> /\ pb_size = 0
  BY <1>1 DEF PlaybackInv
<1>3. PICK idx : LogRight(idx)
  BY DEF Ledger
<1>4. UNCHANGED <<calls, exec_order, registrations_added, phase>>
  BY <1>1 DEF sorterVars
<1>5. Complete(exec_order, record, registrations_added)
  BY <1>1, RecordedComplete
<1>6. PICK n \in Nat : n = registrations_added /\ Len(exec_order) = n
  BY <1>5 DEF Complete
<1>7. /\ exec_order \in Seq(OrderItem) /\ DOMAIN exec_order = 1..n
      /\ \A k \in 1..n : exec_order[k].value \in 0..(n - 1)
  <2>1. exec_order \in Seq(OrderItem)
        /\ \A k \in DOMAIN exec_order : exec_order[k].value \in 0..(n - 1)
    BY <1>5, <1>6 DEF Complete, OnceEach
  <2> QED
    BY <1>6, <2>1
<1>8. calls \in Seq(Logged) /\ \A r \in 0..(n - 1) : idx[r] \in DOMAIN calls
  <2>1. Len(resolvers) = n
    BY <1>1, <1>6 DEF SorterInv, SorterTypes
  <2> QED
    BY <1>3, <2>1 DEF LogRight, Logs
<1>9. Counted(idx, 0, 0, n)
  <2>1. \A i \in DOMAIN calls : ~(i <= 0)
    BY <1>8
  <2>2. \A r \in 0..(n - 1) : ~(r < 0)
    OBVIOUS
  <2> QED
    BY <1>8, <2>1, <2>2 DEF Counted
<1>10. SetUpTo({}, calls, 0)
  <2>1. \A i \in DOMAIN calls : ~(i <= 0)
    BY <1>8
  <2> QED
    BY <2>1 DEF SetUpTo
<1>11. Buffered(<<>>, 0, 0)
  <2>1. PICK b : b = <<>>
    OBVIOUS
  <2>2. b \in Seq(Nat) /\ ToSet(b) = {} /\ 0..(0 - 1) = {} /\ 0 \in 0..0
    BY <2>1, EmptyOnce
  <2>3. Buffered(b, 0, 0)
    BY <2>2 DEF Buffered
  <2> QED
    BY <2>1, <2>3
<1>12. Stored(pb_items', exec_order, 0)
  <2>1. \A k \in 1..n : ~(exec_order[k].value < 0)
    BY <1>7
  <2> QED
    BY <1>1, <1>6, <1>7, <2>1 DEF Stored
<1>13. Published(0, exec_order, 0)
  <2>1. 0 \in 0..n /\ 1..0 = {}
    OBVIOUS
  <2> QED
    BY <1>6, <2>1 DEF Published
<1>14. 0 \in 0..Len(calls)
  BY <1>8
<1>15. Playing(idx, 0)'
  BY <1>1, <1>2, <1>4, <1>6, <1>9, <1>10, <1>11, <1>12, <1>13, <1>14 DEF Playing
<1>16. LogRight(idx)'
  BY <1>1, <1>3, LogRightStays
<1>17. pb_phase' # "off" /\ phase' = "recorded"
  BY <1>1, <1>4
<1> QED
  BY <1>15, <1>16, <1>17 DEF PlaybackInv

(* What a step of playback starts from.                                     *)
LEMMA PlaybackFrom ==
    ASSUME SorterInv, PlaybackInv, pb_phase # "off", NEW op, Replaying(op)
    PROVE  \E idx, w :
            /\ LogRight(idx) /\ Playing(idx, w) /\ phase = "recorded"
            /\ calls \in Seq(Logged) /\ pb_pos \in Nat /\ pb_pos + 1 \in DOMAIN calls
            /\ pb_pos' = pb_pos + 1 /\ pb_pos + 1 \in 0..Len(calls)
            /\ NextCall = calls[pb_pos + 1] /\ calls[pb_pos + 1].op = op
            /\ op = "add" => Counted(idx, pb_pos + 1, pb_registrations + 1, registrations_added)
            /\ op # "add" => Counted(idx, pb_pos + 1, pb_registrations, registrations_added)
            /\ op = "set" => SetUpTo(pb_is_set \union {NextCall.key}, calls, pb_pos + 1)
            /\ op # "set" => SetUpTo(pb_is_set, calls, pb_pos + 1)
<1>1. PICK idx, w : LogRight(idx) /\ Playing(idx, w) /\ phase = "recorded"
  BY DEF PlaybackInv
<1>2. /\ calls \in Seq(Logged) /\ pb_pos \in 0..Len(calls) /\ pb_pos < Len(calls)
      /\ pb_pos' = pb_pos + 1 /\ NextCall = calls[pb_pos + 1] /\ calls[pb_pos + 1].op = op
  BY <1>1 DEF LogRight, Logs, Playing, Replaying, NextCall
<1>3. PICK m, p \in Nat : m = Len(calls) /\ p = pb_pos
  BY <1>2
<1>4. p + 1 \in 1..m /\ p + 1 \in 0..m
  BY <1>2, <1>3
<1>5. pb_pos + 1 \in DOMAIN calls /\ pb_pos + 1 \in 0..Len(calls) /\ pb_pos \in Nat
  BY <1>2, <1>3, <1>4
<1>6. registrations_added = Len(resolvers)
  BY <1>1 DEF SorterInv, SorterTypes
<1>7. PICK log, res, set, regs, n, ps :
            /\ log = calls /\ res = resolvers /\ set = is_set /\ regs = pb_registrations
            /\ n = registrations_added /\ ps = pb_is_set
  OBVIOUS
<1>8. Logs(idx, log, res, set) /\ n = Len(res) /\ Counted(idx, p, regs, n)
      /\ p + 1 \in DOMAIN log /\ log \in Seq(Logged) /\ SetUpTo(ps, log, p)
  BY <1>1, <1>2, <1>3, <1>5, <1>6, <1>7 DEF LogRight, Playing
<1>9. /\ log[p + 1].op # "add" => Counted(idx, p + 1, regs, n)
      /\ log[p + 1].op = "add" => Counted(idx, p + 1, regs + 1, n)
  BY <1>8, CountedNext
<1>10. /\ log[p + 1].op = "set" => SetUpTo(ps \union {log[p + 1].key}, log, p + 1)
       /\ log[p + 1].op # "set" => SetUpTo(ps, log, p + 1)
  BY <1>8, SetUpToNext
<1> QED
  BY <1>1, <1>2, <1>3, <1>5, <1>7, <1>9, <1>10

LEMMA PlaybackSetValueInv ==
    ASSUME SorterInv, PlaybackInv, PlaybackSetValue PROVE PlaybackInv'
<1>1. /\ Replaying("set") /\ pb_phase # "off" /\ UNCHANGED sorterVars
      /\ pb_is_set' = pb_is_set \union {NextCall.key}
      /\ UNCHANGED <<pb_registrations, pb_buffer, pb_items, pb_size, pb_phase>>
  BY DEF PlaybackSetValue, Replaying
<1>2. UNCHANGED <<calls, exec_order, registrations_added, phase>>
  BY <1>1 DEF sorterVars
<1>3. PICK idx, w :
        /\ LogRight(idx) /\ Playing(idx, w) /\ phase = "recorded"
        /\ pb_pos' = pb_pos + 1 /\ pb_pos + 1 \in 0..Len(calls)
        /\ Counted(idx, pb_pos + 1, pb_registrations, registrations_added)
        /\ SetUpTo(pb_is_set \union {NextCall.key}, calls, pb_pos + 1)
  <2>1. "set" # "add"
    OBVIOUS
  <2> QED
    BY <1>1, <2>1, PlaybackFrom
<1>4. Playing(idx, w)'
  BY <1>1, <1>2, <1>3 DEF Playing
<1>5. LogRight(idx)'
  BY <1>1, <1>3, LogRightStays
<1>6. pb_phase' # "off" /\ phase' = "recorded"
  BY <1>1, <1>2, <1>3
<1> QED
  BY <1>4, <1>5, <1>6 DEF PlaybackInv

LEMMA PlaybackAddResolutionInv ==
    ASSUME SorterInv, Kept, Ended, RecordRight, EveryResolverOrdered,
           PlaybackInv, PlaybackAddResolution
    PROVE  PlaybackInv'
<1>1. /\ Replaying("add") /\ pb_phase # "off" /\ UNCHANGED sorterVars
      /\ pb_registrations' = pb_registrations + 1
      /\ UNCHANGED <<pb_is_set, pb_phase>>
  BY DEF PlaybackAddResolution, Replaying
<1>2. UNCHANGED <<calls, exec_order, registrations_added, phase>>
  BY <1>1 DEF sorterVars
<1>3. PICK idx, w :
        /\ LogRight(idx) /\ Playing(idx, w) /\ phase = "recorded"
        /\ pb_pos' = pb_pos + 1 /\ pb_pos + 1 \in 0..Len(calls)
        /\ Counted(idx, pb_pos + 1, pb_registrations + 1, registrations_added)
        /\ SetUpTo(pb_is_set, calls, pb_pos + 1)
  <2>1. "add" # "set"
    OBVIOUS
  <2> QED
    BY <1>1, <2>1, PlaybackFrom
<1>4. Complete(exec_order, record, registrations_added)
  BY <1>3, RecordedComplete
<1>5. PICK n, old, regs \in Nat : n = registrations_added /\ old = pb_registrations /\ regs = old + 1
  <2>1. registrations_added \in Nat /\ pb_registrations \in 0..registrations_added
    BY <1>3 DEF Playing, Counted
  <2>2. pb_registrations \in Nat /\ pb_registrations + 1 \in Nat
    BY <2>1
  <2> QED
    BY <2>1, <2>2
<1>6. regs \in 0..n /\ regs # 0
  BY <1>3, <1>5 DEF Counted
<1>7. PICK buffer : buffer = Append(pb_buffer, pb_registrations)
  OBVIOUS
<1>8. Buffered(buffer, w, regs)
  <2>1. PICK b : b = pb_buffer
    OBVIOUS
  <2>2. Buffered(b, w, old)
    BY <1>3, <1>5, <2>1 DEF Playing
  <2>3. Buffered(Append(b, old), w, old + 1)
    BY <1>5, <2>2, AppendBuffered
  <2> QED
    BY <1>5, <1>7, <2>1, <2>3
<1>9. CASE WriteBuffer(buffer, RecordedSize(pb_registrations + 1))
  <2>1. Published(RecordedSize(regs), exec_order, regs)
    BY <1>4, <1>5, <1>6, SizePublished
  <2>2. PICK size : size = RecordedSize(regs)
    OBVIOUS
  <2>3. WriteBuffer(buffer, size) /\ Published(size, exec_order, regs)
    BY <1>5, <1>9, <2>1, <2>2
  <2>4. Stored(pb_items, exec_order, w) /\ regs \in 0..registrations_added
    BY <1>3, <1>5, <1>6 DEF Playing
  <2>5. /\ Buffered(pb_buffer', regs, regs) /\ Stored(pb_items', exec_order', regs)
        /\ Published(pb_size', exec_order', regs)
    BY <1>2, <1>4, <1>8, <2>3, <2>4, BufferWritten
  <2>6. Playing(idx, regs)'
    BY <1>1, <1>2, <1>3, <1>5, <2>5 DEF Playing
  <2>7. LogRight(idx)'
    BY <1>1, <1>3, LogRightStays
  <2>8. pb_phase' # "off" /\ phase' = "recorded"
    BY <1>1, <1>2, <1>3
  <2> QED
    BY <2>6, <2>7, <2>8 DEF PlaybackInv
<1>10. CASE pb_buffer' = buffer /\ UNCHANGED <<pb_items, pb_size>>
  <2>1. Playing(idx, w)'
    BY <1>1, <1>2, <1>3, <1>5, <1>8, <1>10 DEF Playing
  <2>2. LogRight(idx)'
    BY <1>1, <1>3, LogRightStays
  <2>3. pb_phase' # "off" /\ phase' = "recorded"
    BY <1>1, <1>2, <1>3
  <2> QED
    BY <2>1, <2>2, <2>3 DEF PlaybackInv
<1> QED
  BY <1>7, <1>9, <1>10 DEF PlaybackAddResolution

(* get_awaiter's flush, for a client that has registered something.         *)
LEMMA AwaitFlushed ==
    ASSUME SorterInv, Kept, Ended, RecordRight, EveryResolverOrdered,
           PlaybackInv, PlaybackGetAwaiter, pb_phase' = pb_phase
    PROVE  \E idx :
            /\ LogRight(idx) /\ phase = "recorded" /\ Playing(idx, pb_registrations)'
            /\ pb_pos \in Nat /\ pb_pos' = pb_pos + 1 /\ pb_pos + 1 \in DOMAIN calls
            /\ calls[pb_pos + 1].op = "await"
            /\ Counted(idx, pb_pos, pb_registrations, registrations_added)
            /\ pb_registrations > 0 => \A k \in 1..record[pb_registrations - 1].order_len :
                                            k \in 1..pb_size'
            /\ pb_registrations = 0 => registrations_added = 0
<1>1. /\ Replaying("await") /\ pb_phase = "calls" /\ UNCHANGED sorterVars
      /\ UNCHANGED <<pb_is_set, pb_registrations>>
  BY DEF PlaybackGetAwaiter, Replaying
<1>2. UNCHANGED <<calls, exec_order, registrations_added, phase>>
  BY <1>1 DEF sorterVars
<1>3. PICK idx, w :
        /\ LogRight(idx) /\ Playing(idx, w) /\ phase = "recorded"
        /\ pb_pos \in Nat /\ pb_pos + 1 \in DOMAIN calls /\ calls[pb_pos + 1].op = "await"
        /\ pb_pos' = pb_pos + 1 /\ pb_pos + 1 \in 0..Len(calls)
        /\ Counted(idx, pb_pos + 1, pb_registrations, registrations_added)
        /\ SetUpTo(pb_is_set, calls, pb_pos + 1)
  <2>1. "await" # "set" /\ "await" # "add" /\ pb_phase # "off"
    BY <1>1
  <2> QED
    BY <1>1, <2>1, PlaybackFrom
<1>4. Complete(exec_order, record, registrations_added)
  BY <1>3, RecordedComplete
<1>5. PICK n, regs \in Nat : n = registrations_added /\ regs = pb_registrations /\ regs \in 0..n
  <2>1. registrations_added \in Nat /\ pb_registrations \in 0..registrations_added
    BY <1>3 DEF Playing, Counted
  <2>2. pb_registrations \in Nat
    BY <2>1
  <2> QED
    BY <2>1, <2>2
<1>6. ~(pb_registrations = 0 /\ RegistrationsCount > 0)
  BY <1>1 DEF PlaybackGetAwaiter
<1>7. regs = 0 => n = 0
  BY <1>5, <1>6 DEF RegistrationsCount
<1>8. WriteBuffer(pb_buffer, RecordedSize(regs))
  BY <1>5, <1>6 DEF PlaybackGetAwaiter
<1>9. PICK size : size = RecordedSize(regs)
  OBVIOUS
<1>10. /\ Published(RecordedSize(regs), exec_order, regs)
       /\ regs > 0 => \A k \in 1..record[regs - 1].order_len : k \in 1..RecordedSize(regs)
  BY <1>4, <1>5, <1>7, SizePublished
<1>11. PICK buffer : buffer = pb_buffer
  OBVIOUS
<1>12. /\ WriteBuffer(buffer, size) /\ Published(size, exec_order, regs)
       /\ Buffered(buffer, w, regs) /\ Stored(pb_items, exec_order, w)
       /\ regs \in 0..registrations_added
  BY <1>3, <1>5, <1>8, <1>9, <1>10, <1>11 DEF Playing
<1>13. /\ Buffered(pb_buffer', regs, regs) /\ Stored(pb_items', exec_order', regs)
       /\ Published(pb_size', exec_order', regs)
  BY <1>2, <1>4, <1>12, BufferWritten
<1>14. pb_size' = size
  BY <1>12 DEF WriteBuffer
<1>15. Playing(idx, regs)'
  BY <1>1, <1>2, <1>3, <1>5, <1>13 DEF Playing
<1>16. Counted(idx, pb_pos, pb_registrations, registrations_added)
  BY <1>3 DEF Playing
<1>17. Playing(idx, pb_registrations)'
  BY <1>1, <1>5, <1>15
<1> QED
  BY <1>3, <1>5, <1>7, <1>9, <1>10, <1>14, <1>16, <1>17

LEMMA PlaybackGetAwaiterInv ==
    ASSUME SorterInv, Kept, Ended, RecordRight, EveryResolverOrdered,
           PlaybackInv, PlaybackGetAwaiter
    PROVE  PlaybackInv'
<1>1. /\ Replaying("await") /\ pb_phase = "calls" /\ UNCHANGED sorterVars
      /\ UNCHANGED <<pb_is_set, pb_registrations>>
  BY DEF PlaybackGetAwaiter, Replaying
<1>2. UNCHANGED <<calls, exec_order, registrations_added, phase>>
  BY <1>1 DEF sorterVars
<1>3. CASE pb_phase' = pb_phase
  <2>1. PICK idx : LogRight(idx) /\ phase = "recorded" /\ Playing(idx, pb_registrations)'
    BY <1>3, AwaitFlushed
  <2>2. PICK w : w = pb_registrations'
    OBVIOUS
  <2>3. Playing(idx, w)'
    BY <2>1, <2>2 DEF Playing
  <2>4. LogRight(idx)'
    BY <1>1, <2>1, LogRightStays
  <2>5. pb_phase' # "off" /\ phase' = "recorded"
    BY <1>1, <1>2, <1>3, <2>1
  <2> QED
    BY <2>3, <2>4, <2>5 DEF PlaybackInv
<1>4. CASE pb_phase' = "panicked" /\ UNCHANGED <<pb_buffer, pb_items, pb_size>>
  <2>1. PICK idx, w :
          /\ LogRight(idx) /\ Playing(idx, w) /\ phase = "recorded"
          /\ pb_pos' = pb_pos + 1 /\ pb_pos + 1 \in 0..Len(calls)
          /\ Counted(idx, pb_pos + 1, pb_registrations, registrations_added)
          /\ SetUpTo(pb_is_set, calls, pb_pos + 1)
    <3>1. "await" # "set" /\ "await" # "add" /\ pb_phase # "off"
      BY <1>1
    <3> QED
      BY <1>1, <3>1, PlaybackFrom
  <2>2. Playing(idx, w)'
    BY <1>1, <1>2, <1>4, <2>1 DEF Playing
  <2>3. LogRight(idx)'
    BY <1>1, <2>1, LogRightStays
  <2>4. pb_phase' # "off" /\ phase' = "recorded"
    BY <1>2, <1>4, <2>1
  <2> QED
    BY <2>2, <2>3, <2>4 DEF PlaybackInv
<1> QED
  BY <1>3, <1>4 DEF PlaybackGetAwaiter

LEMMA PlaybackWaitInv ==
    ASSUME SorterInv, Kept, Ended, RecordRight, EveryResolverOrdered,
           PlaybackInv, PlaybackWaitTillResolved
    PROVE  PlaybackInv'
<1>1. /\ pb_phase = "calls" /\ pb_phase' = "done" /\ UNCHANGED sorterVars
      /\ pb_pos = Len(calls) /\ WriteBuffer(pb_buffer, registrations_added)
      /\ UNCHANGED <<pb_pos, pb_is_set, pb_registrations>>
  BY DEF PlaybackWaitTillResolved, RegistrationsCount
<1>2. UNCHANGED <<calls, exec_order, registrations_added, phase>>
  BY <1>1 DEF sorterVars
<1>3. PICK idx, w : LogRight(idx) /\ Playing(idx, w) /\ phase = "recorded"
  BY <1>1 DEF PlaybackInv
<1>4. Complete(exec_order, record, registrations_added)
  BY <1>3, RecordedComplete
<1>5. PICK n, regs \in Nat : n = registrations_added /\ regs = pb_registrations /\ regs \in 0..n
  <2>1. registrations_added \in Nat /\ pb_registrations \in 0..registrations_added
    BY <1>3 DEF Playing, Counted
  <2>2. pb_registrations \in Nat
    BY <2>1
  <2> QED
    BY <2>1, <2>2
<1>6. regs = n
  <2>1. \A r \in 0..(n - 1) : r < regs
    <3>1. Len(resolvers) = n
      BY <1>3, <1>5 DEF SorterInv, SorterTypes
    <3>2. calls \in Seq(Logged) /\ \A r \in 0..(n - 1) : idx[r] \in DOMAIN calls
      BY <1>3, <3>1 DEF LogRight, Logs
    <3>3. \A i \in DOMAIN calls : i <= Len(calls)
      BY <3>2
    <3> QED
      BY <1>1, <1>3, <1>5, <3>2, <3>3 DEF Playing, Counted
  <2>2. n > 0 => n - 1 < regs
    BY <2>1
  <2> QED
    BY <1>5, <2>2
<1>7. Published(n, exec_order, n)
  <2>1. /\ Len(exec_order) = n /\ exec_order \in Seq(OrderItem)
        /\ \A k \in DOMAIN exec_order : exec_order[k].value \in 0..(n - 1)
    BY <1>4, <1>5 DEF Complete, OnceEach
  <2>2. n \in 0..n /\ \A k \in 1..n : exec_order[k].value < n
    BY <2>1
  <2> QED
    BY <2>1, <2>2 DEF Published
<1>8. PICK buffer : buffer = pb_buffer
  OBVIOUS
<1>9. /\ WriteBuffer(buffer, n) /\ Buffered(buffer, w, regs) /\ Stored(pb_items, exec_order, w)
      /\ regs \in 0..registrations_added /\ Published(n, exec_order, regs)
  BY <1>1, <1>3, <1>5, <1>6, <1>7, <1>8 DEF Playing
<1>10. /\ Buffered(pb_buffer', regs, regs) /\ Stored(pb_items', exec_order', regs)
       /\ Published(pb_size', exec_order', regs)
  BY <1>2, <1>4, <1>9, BufferWritten
<1>11. Playing(idx, regs)'
  BY <1>1, <1>2, <1>3, <1>5, <1>10 DEF Playing
<1>12. LogRight(idx)'
  BY <1>1, <1>3, LogRightStays
<1>13. pb_phase' # "off" /\ phase' = "recorded"
  BY <1>1, <1>2, <1>3
<1> QED
  BY <1>11, <1>12, <1>13 DEF PlaybackInv

Recorder == SorterInv /\ Kept /\ Ended /\ RecordRight /\ Ledger /\ EveryResolverOrdered

LEMMA PlaybackInvNext ==
    ASSUME Recorder, PlaybackInv, [Next]_vars PROVE PlaybackInv'
<1>0. SorterInv /\ Kept /\ Ended /\ RecordRight /\ Ledger /\ EveryResolverOrdered
  BY DEF Recorder
<1>1. CASE UNCHANGED vars
  <2>1. UNCHANGED sorterVars /\ UNCHANGED playbackVars
    BY <1>1 DEF vars
  <2>2. ASSUME NEW idx, NEW w, LogRight(idx), Playing(idx, w) PROVE LogRight(idx)' /\ Playing(idx, w)'
    BY <2>1, <2>2, LogRightStays DEF Playing, playbackVars, sorterVars
  <2> QED
    BY <2>1, <2>2 DEF PlaybackInv, playbackVars, sorterVars
<1>2. CASE SorterNext /\ UNCHANGED playbackVars
  <2>1. phase # "recorded"
    BY <1>0, <1>2, RecordedStays DEF SorterInv
  <2> QED
    BY <1>2, <2>1 DEF PlaybackInv, playbackVars
<1>3. CASE PlaybackNext
  BY <1>0, <1>3, NewPlaybackInv, PlaybackSetValueInv, PlaybackAddResolutionInv,
     PlaybackGetAwaiterInv, PlaybackWaitInv DEF PlaybackNext
<1> QED
  BY <1>1, <1>2, <1>3 DEF Next

LEMMA RecorderAlways == Spec => []Recorder
BY RecorderKept, RecorderRight, EveryResolverIsOrdered, PTL DEF Recorder

LEMMA PlaybackInvariant == Spec => []PlaybackInv
<1>1. Init => PlaybackInv
  BY DEF Init, PlaybackOff, PlaybackInv
<1>2. Recorder /\ PlaybackInv /\ [Next]_vars => PlaybackInv'
  BY PlaybackInvNext
<1> QED
  BY <1>1, <1>2, RecorderAlways, PTL DEF Spec

LEMMA StoredSlot ==
    ASSUME NEW items, NEW order \in Seq(OrderItem), NEW w, Stored(items, order, w),
           NEW size, Published(size, order, w), NEW k \in 1..size
    PROVE  items[k] = order[k].value /\ k \in DOMAIN order
<1>1. PICK L \in Nat : L = Len(order) /\ DOMAIN order = 1..L
  OBVIOUS
<1>2. k \in 1..L /\ order[k].value < w
  BY <1>1 DEF Published
<1> QED
  BY <1>1, <1>2 DEF Stored

LEMMA SlotsFromInv ==
    ASSUME Recorder, PlaybackInv, BatchesIndependent PROVE PlaybackSlotsReady
<1>0. SorterInv /\ Kept /\ Ended /\ RecordRight /\ Ledger /\ EveryResolverOrdered
  BY DEF Recorder
<1>1. CASE pb_size = 0
  <2>1. 1..0 = {}
    OBVIOUS
  <2> QED
    BY <1>1, <2>1 DEF PlaybackSlotsReady
<1>2. CASE pb_size # 0
  <2>1. PICK idx, w : LogRight(idx) /\ Playing(idx, w) /\ phase = "recorded"
    BY <1>2 DEF PlaybackInv
  <2>2. PICK n \in Nat : n = registrations_added /\ n = Len(resolvers)
    BY <1>0, <2>1 DEF SorterInv, SorterTypes
  <2>3. Known = 0..(n - 1) /\ DOMAIN idx = 0..(n - 1)
    BY <2>1, <2>2 DEF Known, LogRight, Logs
  <2>4. exec_order \in Seq(OrderItem) /\ \A k \in DOMAIN exec_order : exec_order[k].value \in 0..(n - 1)
    BY <1>0, <2>3 DEF Kept, OnceEach
  <2>5. PICK s \in Nat : s = pb_size
    <3>1. pb_size \in 0..Len(exec_order)
      BY <2>1 DEF Playing, Published
    <3> QED
      BY <2>4, <3>1
  <2>6. ASSUME NEW k \in 1..s
        PROVE  pb_items[k] = exec_order[k].value /\ k \in DOMAIN exec_order
    <3>1. PICK items, order : items = pb_items /\ order = exec_order
      OBVIOUS
    <3>2. order \in Seq(OrderItem) /\ Stored(items, order, w) /\ Published(s, order, w)
      BY <2>1, <2>4, <2>5, <3>1 DEF Playing
    <3>3. items[k] = order[k].value /\ k \in DOMAIN order
      BY <3>2, StoredSlot
    <3> QED
      BY <3>1, <3>3
  <2>7. ASSUME NEW k \in 1..s PROVE exec_order[k].value < pb_registrations
    <3>1. PICK x \in 0..(n - 1) : x = exec_order[k].value
      BY <2>4, <2>6
    <3>2. x < w
      BY <2>1, <2>5, <2>7, <3>1 DEF Playing, Published
    <3>3. pb_registrations \in 0..n /\ w \in 0..pb_registrations
      BY <2>1, <2>2 DEF Playing, Counted, Buffered
    <3>4. PICK y, z \in Nat : y = w /\ z = pb_registrations /\ y <= z
      BY <3>3
    <3>5. x < z
      BY <3>2, <3>4
    <3> QED
      BY <3>1, <3>4, <3>5
  <2>8. ASSUME NEW k \in 1..s, SetsBeforeUse, NEW v \in InputsOf(pb_items[k])
        PROVE  v \in pb_is_set \/ \E j \in 1..(k - 1) : v \in OutputsOf(pb_items[j])
    <3>1. PICK r \in 0..(n - 1) : r = exec_order[k].value /\ r = pb_items[k]
      BY <2>4, <2>6
    <3>2. v \in is_set \/ \E j \in 1..(k - 1) : v \in OutputsOf(exec_order[j].value)
      BY <2>6, <2>8, <3>1 DEF BatchesIndependent
    <3>3. CASE \E j \in 1..(k - 1) : v \in OutputsOf(exec_order[j].value)
      <4>1. PICK j \in 1..(k - 1) : v \in OutputsOf(exec_order[j].value)
        BY <3>3
      <4>2. j \in 1..s
        OBVIOUS
      <4>3. pb_items[j] = exec_order[j].value
        BY <2>6, <4>2
      <4> QED
        BY <4>1, <4>3
    <3>4. CASE v \in is_set
      <4>1. PICK i \in DOMAIN calls : calls[i] = SetCall(v)
        BY <2>1, <3>4 DEF LogRight, Logs
      <4>2. idx[r] \in DOMAIN calls
            /\ calls[idx[r]] = AddCall(resolvers[r + 1].inputs, resolvers[r + 1].outputs)
        BY <2>1, <2>3 DEF LogRight, Logs
      <4>3. v \in calls[idx[r]].inputs
        BY <2>8, <3>1, <4>2 DEF AddCall, InputsOf
      <4>4. calls[i].op = "set" /\ calls[i].key = v
        BY <4>1 DEF SetCall
      <4>5. i < idx[r]
        BY <2>8, <4>2, <4>3, <4>4 DEF SetsBeforeUse
      <4>6. idx[r] <= pb_pos
        BY <2>1, <2>2, <2>7, <3>1 DEF Playing, Counted
      <4>7. i <= pb_pos
        <5>1. calls \in Seq(Logged) /\ pb_pos \in Nat
          BY <2>1 DEF LogRight, Logs, Playing, Counted
        <5>2. i \in Nat /\ idx[r] \in Nat
          BY <4>1, <4>2, <5>1
        <5>3. PICK a, b, c \in Nat : a = i /\ b = idx[r] /\ c = pb_pos
          BY <5>1, <5>2
        <5>4. a <= c
          BY <4>5, <4>6, <5>3
        <5> QED
          BY <5>3, <5>4
      <4> QED
        BY <2>1, <4>1, <4>7 DEF Playing, SetUpTo
    <3> QED
      BY <3>2, <3>3, <3>4
  <2>9. ASSUME NEW k \in 1..s PROVE pb_items[k] # None
    BY <2>4, <2>6, NoneAssumption
  <2> QED
    BY <2>5, <2>8, <2>9 DEF PlaybackSlotsReady
<1> QED
  BY <1>1, <1>2

(* The published part of the order that playback (sorter_playback.rs)       *)
(* writes from a record has no empty slot, and for a client that sets its   *)
(* values before they are needed every input of it is set or is given by an *)
(* item before, for every client, buffer size and guide.                    *)
THEOREM PlaybackSlotsAreReady == Spec => []PlaybackSlotsReady
<1>1. Recorder /\ PlaybackInv /\ BatchesIndependent => PlaybackSlotsReady
  BY SlotsFromInv
<1> QED
  BY <1>1, RecorderAlways, PlaybackInvariant, BatchesAreIndependent, PTL

(* get_awaiter of the recording found all of what gives a place written up  *)
(* to the length it recorded; playback publishes as much.                   *)
LEMMA AwaitServed ==
    ASSUME Recorder, PlaybackInv, PlaybackGetAwaiter, pb_phase' = pb_phase,
           NEW v \in 0..calls[pb_pos + 1].key
    PROVE  v \in pb_is_set' \/ \E k \in 1..pb_size' : v \in OutputsOf(pb_items'[k])
<1>0. SorterInv /\ Kept /\ Ended /\ RecordRight /\ EveryResolverOrdered
  BY DEF Recorder
<1>1. PICK idx :
        /\ LogRight(idx) /\ phase = "recorded" /\ Playing(idx, pb_registrations)'
        /\ pb_pos \in Nat /\ pb_pos' = pb_pos + 1 /\ pb_pos + 1 \in DOMAIN calls
        /\ calls[pb_pos + 1].op = "await"
        /\ Counted(idx, pb_pos, pb_registrations, registrations_added)
        /\ pb_registrations > 0 => \A k \in 1..record[pb_registrations - 1].order_len :
                                        k \in 1..pb_size'
        /\ pb_registrations = 0 => registrations_added = 0
  BY <1>0, AwaitFlushed
<1>2. PICK p, n, regs \in Nat :
        /\ p = pb_pos /\ n = registrations_added /\ regs = pb_registrations /\ regs <= n
  <2>1. registrations_added \in Nat /\ pb_registrations \in 0..registrations_added
    BY <1>1 DEF Counted
  <2>2. pb_registrations \in Nat /\ pb_registrations <= registrations_added
    BY <2>1
  <2> QED
    BY <1>1, <2>1, <2>2
<1>3. ServedAt(idx, calls, resolvers, record, exec_order, p + 1, v)
  BY <1>1, <1>2 DEF LogRight, Served
<1>4. UNCHANGED <<calls, resolvers, exec_order>>
  BY DEF PlaybackGetAwaiter, sorterVars
<1>5. DOMAIN idx = 0..(n - 1) /\ \A r \in DOMAIN idx : idx[r] \in Nat
  <2>1. Len(resolvers) = n
    BY <1>0, <1>1, <1>2 DEF SorterInv, SorterTypes
  <2> QED
    BY <1>1, <2>1 DEF LogRight, Logs
<1>6. CASE \E j \in DOMAIN calls : j < p + 1 /\ calls[j] = SetCall(v)
  <2>1. PICK j \in DOMAIN calls : j < p + 1 /\ calls[j] = SetCall(v)
    BY <1>6
  <2>2. calls \in Seq(Logged)
    BY <1>1 DEF LogRight, Logs
  <2>3. j \in Nat
    BY <2>1, <2>2
  <2>4. j <= p + 1
    BY <2>1, <2>3
  <2>5. SetUpTo(pb_is_set', calls', pb_pos')
    BY <1>1 DEF Playing
  <2> QED
    BY <1>1, <1>2, <1>4, <2>1, <2>4, <2>5 DEF SetUpTo
<1>7. ASSUME NEW r \in DOMAIN idx, idx[r] < p + 1,
             \A q \in DOMAIN idx : idx[q] < p + 1 => q <= r,
             NEW k \in 1..record[r].order_len,
             v \in resolvers[exec_order[k].value + 1].outputs
      PROVE  \E l \in 1..pb_size' : v \in OutputsOf(pb_items'[l])
  <2>1. \A q \in DOMAIN idx : idx[q] < p + 1 <=> q < regs
    <3>1. \A q \in DOMAIN idx : idx[q] < p + 1 <=> idx[q] <= p
      BY <1>5
    <3> QED
      BY <1>1, <1>2, <1>5, <3>1 DEF Counted
  <2>2. r \in 0..(n - 1) /\ r < regs
    BY <1>5, <1>7, <2>1
  <2>3. regs > 0 /\ regs - 1 \in 0..(n - 1) /\ regs - 1 < regs
    BY <1>2, <2>2
  <2>4. regs - 1 <= r
    BY <1>5, <1>7, <2>1, <2>3
  <2>5. r = regs - 1
    BY <2>2, <2>3, <2>4
  <2>6. k \in 1..pb_size'
    BY <1>1, <1>2, <1>7, <2>3, <2>5
  <2>7. pb_items'[k] = exec_order[k].value
    <3>1. PICK items, order, size, w : /\ items = pb_items' /\ order = exec_order' /\ size = pb_size'
                                       /\ w = pb_registrations'
      OBVIOUS
    <3>2. Stored(items, order, w) /\ Published(size, order, w) /\ k \in 1..size
      BY <1>1, <2>6, <3>1 DEF Playing
    <3>3. order \in Seq(OrderItem)
      BY <1>0, <1>4, <3>1 DEF Kept, OnceEach
    <3>4. items[k] = order[k].value
      BY <3>2, <3>3, StoredSlot
    <3> QED
      BY <1>4, <3>1, <3>4
  <2> QED
    BY <1>7, <2>6, <2>7 DEF OutputsOf
<1> QED
  BY <1>3, <1>6, <1>7 DEF ServedAt

LEMMA AwaitsServedNext ==
    ASSUME Recorder, PlaybackInv, PlaybackAwaitsServed, [Next]_vars
    PROVE  PlaybackAwaitsServed'
<1>1. CASE UNCHANGED vars
  BY <1>1 DEF PlaybackAwaitsServed, vars, playbackVars, sorterVars, OutputsOf
<1>2. CASE SorterNext /\ UNCHANGED playbackVars
  <2>1. phase # "recorded"
    BY <1>2, RecordedStays DEF Recorder, SorterInv
  <2>2. pb_phase' = "off"
    BY <1>2, <2>1 DEF PlaybackInv, playbackVars
  <2> QED
    BY <2>2 DEF PlaybackAwaitsServed
<1>3. CASE NewPlayback
  <2>1. pb_pos' = 0
    BY <1>3 DEF NewPlayback, PlaybackInv
  <2> QED
    BY <2>1 DEF PlaybackAwaitsServed
<1>4. CASE PlaybackSetValue \/ PlaybackAddResolution
  <2>1. calls'[pb_pos'].op # "await"
    BY <1>4 DEF PlaybackSetValue, PlaybackAddResolution, Replaying, NextCall, sorterVars
  <2> QED
    BY <2>1 DEF PlaybackAwaitsServed
<1>5. CASE PlaybackWaitTillResolved
  BY <1>5 DEF PlaybackWaitTillResolved, PlaybackAwaitsServed
<1>6. CASE PlaybackGetAwaiter
  <2>1. /\ pb_phase = "calls" /\ pb_pos' = pb_pos + 1 /\ calls' = calls
        /\ resolvers' = resolvers
    BY <1>6 DEF PlaybackGetAwaiter, Replaying, sorterVars
  <2>2. ASSUME pb_phase' = "calls", NEW v \in 0..calls[pb_pos + 1].key
        PROVE  v \in pb_is_set' \/ \E k \in 1..pb_size' : v \in OutputsOf(pb_items'[k])
    BY <1>6, <2>1, <2>2, AwaitServed
  <2> QED
    BY <2>1, <2>2 DEF PlaybackAwaitsServed, OutputsOf
<1> QED
  BY <1>1, <1>2, <1>3, <1>4, <1>5, <1>6 DEF Next, PlaybackNext

(* An awaiter handed out in playback (get_awaiter, sorter_playback.rs) does *)
(* not wait for ever: each place it may be for is set, or its resolver is   *)
(* in the published part of the order.                                      *)
THEOREM PlaybackAwaitsAreServed == Spec => []PlaybackAwaitsServed
<1>1. Init => PlaybackAwaitsServed
  BY DEF Init, PlaybackOff, PlaybackAwaitsServed
<1>2. Recorder /\ PlaybackInv /\ PlaybackAwaitsServed /\ [Next]_vars => PlaybackAwaitsServed'
  BY AwaitsServedNext
<1> QED
  BY <1>1, <1>2, RecorderAlways, PlaybackInvariant, PTL DEF Spec
================================================================================
