------------------------------ MODULE BufferGuide ------------------------------
(***************************************************************************)
(* The sorting front of the multithreaded circuit resolver (era-boojum,     *)
(* src/era-boojum/src/dag/guide.rs): a window of GUIDE_SIZE spans into      *)
(* which resolvers are pushed behind the resolvers they depend on, and      *)
(* which are released, in order, into the execution order.  Each released   *)
(* item carries its parallelism: how many items from it on may run at once. *)
(*                                                                         *)
(* A guide is a record:                                                    *)
(*   parallelism  the parallelism aimed at,                                 *)
(*   spans        GUIDE_SIZE spans by their index in the code (0 is the     *)
(*                next to be released), each an id and a buffer of items,   *)
(*   next_target  where in the execution order the next release is written. *)
(* An item is a resolver and its parallelism.  A location is a span id and  *)
(* a position in it.  The operators return values; the modules that hold a  *)
(* guide assign them.                                                      *)
(***************************************************************************)
EXTENDS Integers, Sequences, FiniteSets, SequencesExt

CONSTANTS
    GUIDE_SIZE,     \* number of spans (32 in the code)
    None            \* the absent location

(* A push may need two new spans and the first span is never written to.    *)
ASSUME GuideSizeAssumption == GUIDE_SIZE \in Nat /\ GUIDE_SIZE >= 3

ASSUME NoneAssumption == None \notin [id : Nat, pos : Nat] /\ None \notin Nat

LastSpan == GUIDE_SIZE - 1

SpanIxs == 0..LastSpan

NewSpan(id) == [id |-> id, buffer |-> <<>>]

NewGuide(parallelism) ==
    [parallelism |-> parallelism,
     spans       |-> [i \in SpanIxs |-> NewSpan(i)],
     next_target |-> 0]

(* GuideLoc is ordered by span, then by position.                           *)
LocBefore(l, m) == l.id < m.id \/ (l.id = m.id /\ l.pos < m.pos)

(* The location of the latest of a set of locations, None of none.          *)
LatestLoc(locs) ==
    IF locs = {} THEN None
    ELSE CHOOSE l \in locs : \A m \in locs : ~LocBefore(l, m)

(***************************************************************************)
(* push: where an item that depends on the location `after' goes.  new = 0  *)
(* is an existing span; otherwise so many new spans have to be opened.      *)
(***************************************************************************)
NotFullFrom(g, from) ==
    {i \in from..LastSpan : Len(g.spans[i].buffer) < g.parallelism}

\* Mutant: always the next span, however near the origin.
SpanBehindNext(g, after, d) == d + 1

(* The span after the origin's, or the one after that if the item would     *)
(* stand less than a span's length behind its origin.                       *)
SpanBehind(g, after, d) ==
    IF after.pos > Len(g.spans[d + 1].buffer) THEN d + 2 ELSE d + 1

MatchedSpan(g, after) ==
    IF after = None THEN [new |-> 0, span |-> 1]
    ELSE LET d == after.id - g.spans[0].id IN
         IF d < 0 THEN [new |-> 0, span |-> 1]
         ELSE IF d = LastSpan THEN [new |-> 2, span |-> LastSpan]
         ELSE LET free == NotFullFrom(g, SpanBehind(g, after, d)) IN
              IF free = {} THEN [new |-> 1, span |-> LastSpan]
              ELSE [new |-> 0, span |-> CHOOSE i \in free : \A j \in free : i <= j]

(***************************************************************************)
(* calculate_parallelism: the items of span i may run together with as many *)
(* items as are certain not to depend on them.  A is span i with N items, B *)
(* the next one with M; x counts A's items from 0.                          *)
(***************************************************************************)
ItemParallelism(g, i, x) ==
    LET P == g.parallelism
        A == g.spans[i].buffer
        N == Len(A)
        M == Len(g.spans[i + 1].buffer)
    IN IF i = LastSpan THEN N - x
       ELSE CASE N >= P /\ M >= P -> A[x + 1].parallelism
              [] N >= P /\ M <  P -> IF x < M THEN A[x + 1].parallelism
                                     ELSE IF P - x + M > 1 THEN P - x + M ELSE 1
              [] N <  P /\ M >= P -> N
              [] N <  P /\ M <  P -> IF M + N - x < N THEN M + N - x ELSE N

CalculateParallelism(g, n) ==
    [i \in SpanIxs |->
        IF i < n
        THEN [g.spans[i] EXCEPT !.buffer =
                [k \in DOMAIN g.spans[i].buffer |->
                    [g.spans[i].buffer[k] EXCEPT
                        !.parallelism = ItemParallelism(g, i, k - 1)]]]
        ELSE g.spans[i]]

(* What is written when the first n spans are released.                     *)
Released(spans, n) == FlattenSeq([k \in 1..n |-> spans[k - 1].buffer])

\* Mutant: a repurposed span takes the last span's id, not the one after it.
ExpropriateSameId(spans, n) ==
    [i \in SpanIxs |->
        IF i + n <= LastSpan THEN spans[i + n]
        ELSE NewSpan(spans[LastSpan].id + i + n - LastSpan - 1)]

(* expropriate_span, n times: the first span goes to the end, empty, with   *)
(* the id after the last one's.                                             *)
Expropriate(spans, n) ==
    [i \in SpanIxs |->
        IF i + n <= LastSpan THEN spans[i + n]
        ELSE NewSpan(spans[LastSpan].id + i + n - LastSpan)]

PushInto(spans, i, item) == [spans EXCEPT ![i].buffer = Append(@, item)]

(* How many spans the push of an item at pos into an existing span          *)
(* releases: a span that gets full, whichever it is, releases the first.    *)
ReleasesAt(g, pos) == IF pos + 1 >= g.parallelism THEN 1 ELSE 0

(* push, with the drop of the order it returns: the location of the item,   *)
(* the items to write, and the guide afterwards.                            *)
GuidePush(g, resolver, after) ==
    LET item   == [value |-> resolver, parallelism |-> g.parallelism]
        m      == MatchedSpan(g, after)
        isNew  == m.new > 0
        pos    == IF isNew THEN 0 ELSE Len(g.spans[m.span].buffer)
        pushed == IF isNew THEN g
                  ELSE [g EXCEPT !.spans = PushInto(g.spans, m.span, item)]
        n      == IF isNew THEN m.new ELSE ReleasesAt(g, pos)
        final  == CalculateParallelism(pushed, n)
        moved  == Expropriate(final, n)
    IN [loc      |-> [id |-> g.spans[m.span].id + m.new, pos |-> pos],
        released |-> Released(final, n),
        guide    |-> [g EXCEPT
            !.spans = IF isNew THEN PushInto(moved, LastSpan, item) ELSE moved,
            !.next_target = @ + Len(Released(final, n))]]

(* flush, with the drop of the order it returns: everything is written.     *)
GuideFlush(g) ==
    LET final == CalculateParallelism(g, GUIDE_SIZE) IN
    [released |-> Released(final, GUIDE_SIZE),
     guide    |-> [g EXCEPT
         !.spans = Expropriate(final, GUIDE_SIZE),
         !.next_target = @ + Len(Released(final, GUIDE_SIZE))]]

(* write: the released items, at next_target of an order that has been      *)
(* lengthened by their number.                                              *)
WriteReleased(order, target, released) ==
    [k \in 1..(Len(order) + Len(released)) |->
        IF k - target \in DOMAIN released THEN released[k - target] ELSE order[k]]

(* Everything still in the guide.                                           *)
GuideItems(g) == Released(g.spans, GUIDE_SIZE)
================================================================================
