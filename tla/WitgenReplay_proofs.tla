-------------------------- MODULE WitgenReplay_proofs --------------------------
(***************************************************************************)
(* Proofs about witness generation, for every set of generators, of targets *)
(* and of circuits.  First the sort, for every circuit; then, for every     *)
(* circuit the CPU can run, the layout and the replay: the slots the host   *)
(* gives to targets, the slots the kernels write and read, and the order of *)
(* the layers fit together, so that a prove computes every witness value,   *)
(* writes no value over another, and does what the CPU's                    *)
(* generate_partial_witness may do.                                         *)
(***************************************************************************)
EXTENDS WitgenReplay, DataInduction, FiniteSetTheorems, SequenceTheorems,
        WellFoundedInduction, TLAPS

-----------------------------------------------------------------------------
\* The edges of the dependency graph as the two passes use them.
LEMMA EdgeFacts ==
  /\ \A g \in Generator : Pred(g) \subseteq Generator /\ g \notin Pred(g)
  /\ \A g, s \in Generator : s \in Succ(g) <=> g \in Pred(s)
  /\ \A g \in Generator : Succ(g) \subseteq Generator
BY DEF Pred, Succ

\* The edges depend on the circuit and on the producers alone.
LEMMA EdgesStable ==
  ASSUME circuit' = circuit, producer' = producer
  PROVE  \A g \in Generator : Pred(g)' = Pred(g) /\ Succ(g)' = Succ(g)
BY DEF Pred, Succ, Watched, Elems

\* Initially the sort is in its first phase and nothing is placed.
LEMMA InitInv == Init => TypeOK /\ SortInv
<1> SUFFICES ASSUME Init PROVE TypeOK /\ SortInv
  OBVIOUS
<1>1. TypeOK
  <2>1. circuit \in Circuit
    BY CircuitsAssumption DEF Init
  <2>2. producer \in [Target -> Source]
    BY DEF Init, Source, InputSource, NoSource
  <2> QED
    BY <2>1, <2>2 DEF Init, TypeOK, Unplaced
<1>2. SortInv
  BY DEF Init, SortInv, AsapPassInv, AlapPassInv, WindowInv, AlapOrdered,
         LevelsTight, PlacementSafe, PlacedInTime, Waiting
<1> QED BY <1>1, <1>2

-----------------------------------------------------------------------------
\* Each action preserves the invariant; the first phase only touches producers.
LEMMA ProducePreserves ==
  ASSUME TypeOK, SortInv,
         (\E g \in Generator : VisitGenerator(g)) \/ SwapFrontier
  PROVE  TypeOK' /\ SortInv'
<1>1. phase = "produce" /\ phase' = "produce"
  BY DEF VisitGenerator, SwapFrontier
<1>2. SortInv'
  <2>1. PlacedInTime'
    BY <1>1 DEF SortInv, PlacedInTime, Waiting, VisitGenerator, SwapFrontier
  <2> QED
    BY <1>1, <2>1 DEF SortInv, AsapPassInv, AlapPassInv, WindowInv, AlapOrdered,
                      LevelsTight, PlacementSafe
<1>3. CASE SwapFrontier
  BY <1>2, <1>3 DEF SwapFrontier, TypeOK
<1>4. ASSUME NEW g \in Generator, VisitGenerator(g)
      PROVE  TypeOK'
  <2>1. producer' \in [Target -> Source]
    BY <1>4 DEF VisitGenerator, TypeOK, Source, By
  <2> QED
    BY <1>4, <2>1 DEF VisitGenerator, TypeOK
<1> QED
  BY <1>2, <1>3, <1>4

\* The start of the forward pass (asap all 0, sources queued) meets its invariant.
LEMMA StartAsapPreserves ==
  ASSUME TypeOK, SortInv, StartAsap
  PROVE  TypeOK' /\ SortInv'
<1> USE EdgeFacts
<1>1. \A g \in Generator : Pred(g)' = Pred(g) /\ Succ(g)' = Succ(g)
  BY EdgesStable DEF StartAsap
<1>2. TypeOK'
  BY DEF StartAsap, TypeOK
<1>3. AsapPassInv'
  BY <1>1 DEF StartAsap, AsapPassInv, TypeOK
<1>4. PlacedInTime'
  BY DEF StartAsap, SortInv, PlacedInTime, Waiting
<1> QED
  BY <1>2, <1>3, <1>4 DEF StartAsap, SortInv, AlapPassInv, WindowInv, AlapOrdered,
                    LevelsTight, PlacementSafe

\* Popping a generator in the forward pass raises its successors past it and
\* queues those that have no other predecessor left.
LEMMA AsapPopPreserves ==
  ASSUME TypeOK, SortInv, NEW u \in Generator, AsapPop(u)
  PROVE  TypeOK' /\ SortInv'
<1> USE EdgeFacts
<1>1. \A g \in Generator : Pred(g)' = Pred(g) /\ Succ(g)' = Succ(g)
  BY EdgesStable DEF AsapPop
<1>2. /\ phase = "asap" /\ phase' = "asap"
      /\ u \in queue /\ u \notin popped
      /\ Pred(u) \subseteq popped
  BY DEF AsapPop, SortInv, AsapPassInv
<1>3. \A v \in Generator : /\ asap'[v] \in Nat
                           /\ asap[v] <= asap'[v]
                           /\ u \in Pred(v) => asap[u] < asap'[v]
                           /\ u \notin Pred(v) => asap'[v] = asap[v]
                           /\ asap'[v] = asap[v] \/ (u \in Pred(v) /\ asap'[v] = asap[u] + 1)
  BY DEF AsapPop, TypeOK, Larger
<1>4. TypeOK'
  BY <1>3 DEF AsapPop, TypeOK
\* The level of a popped generator is final: its predecessors are popped.
<1>5. \A p \in popped \cup {u} : asap'[p] = asap[p]
  <2> SUFFICES ASSUME NEW p \in popped \cup {u} PROVE u \notin Pred(p)
    BY <1>3 DEF TypeOK
  <2>1. Pred(p) \subseteq popped
    BY <1>2 DEF SortInv, AsapPassInv, TypeOK
  <2> QED BY <2>1, <1>2
<1>6. queue' \cap popped' = {}
  <2> SUFFICES ASSUME NEW v \in queue', v \in popped' PROVE FALSE
    OBVIOUS
  <2>1. CASE v \in Succ(u)
    BY <2>1, <1>2 DEF AsapPop, SortInv, AsapPassInv, TypeOK
  <2>2. CASE v \in queue \ {u}
    BY <2>2, <1>2 DEF AsapPop, SortInv, AsapPassInv
  <2> QED BY <2>1, <2>2 DEF AsapPop
<1>7. \A v \in Generator : v \in popped' \cup queue' <=> Pred(v) \subseteq popped'
  <2> TAKE v \in Generator
  <2>1. v \in popped \cup queue <=> Pred(v) \subseteq popped
    BY <1>2 DEF SortInv, AsapPassInv
  <2> QED BY <2>1, <1>2 DEF AsapPop
<1>8. \A v \in Generator : \A p \in Pred(v) \cap popped' : asap'[p] < asap'[v]
  <2> TAKE v \in Generator
  <2> TAKE p \in Pred(v) \cap popped'
  <2>1. p \in popped \cup {u} /\ p \in Generator
    BY DEF AsapPop
  <2>2. CASE p = u
    BY <2>2, <1>3, <1>5 DEF TypeOK
  <2>3. CASE p \in popped
    BY <2>3, <2>1, <1>2, <1>3, <1>5 DEF SortInv, AsapPassInv, TypeOK
  <2> QED BY <2>1, <2>2, <2>3
<1>9. \A v \in Generator : asap'[v] = 0 \/ \E p \in Pred(v) \cap popped' : asap'[v] = asap'[p] + 1
  <2> TAKE v \in Generator
  <2>1. CASE asap'[v] = asap[v]
    BY <2>1, <1>2, <1>5 DEF SortInv, AsapPassInv, AsapPop
  <2>2. CASE u \in Pred(v) /\ asap'[v] = asap[u] + 1
    BY <2>2, <1>5 DEF AsapPop
  <2> QED BY <2>1, <2>2, <1>3
<1>10. AsapPassInv'
  BY <1>1, <1>6, <1>7, <1>8, <1>9 DEF AsapPassInv
<1>11. PlacedInTime'
  BY <1>2 DEF AsapPop, SortInv, PlacedInTime, Waiting
<1> QED
  BY <1>2, <1>4, <1>10, <1>11 DEF SortInv, AlapPassInv, WindowInv, AlapOrdered,
                           LevelsTight, PlacementSafe

\* max_level is the largest asap, so it leaves every generator a window.
LEMMA StartAlapPreserves ==
  ASSUME TypeOK, SortInv, StartAlap
  PROVE  TypeOK' /\ SortInv'
<1> USE EdgeFacts
<1>1. \A g \in Generator : Pred(g)' = Pred(g) /\ Succ(g)' = Succ(g)
  BY EdgesStable DEF StartAlap
<1>2. /\ phase = "asap" /\ phase' = "alap" /\ popped = Generator /\ asap' = asap
      /\ \A g \in Generator : asap[g] <= max_level' /\ alap'[g] = max_level'
  BY DEF StartAlap, AllPushed
<1>3. TypeOK'
  BY DEF StartAlap, TypeOK
<1>4. AlapPassInv'
  BY <1>1, <1>2 DEF StartAlap, AlapPassInv, TypeOK
<1>5. \A v \in Generator :
        /\ \A p \in Pred(v) : asap[p] < asap[v]
        /\ asap[v] = 0 \/ \E p \in Pred(v) : asap[v] = asap[p] + 1
  BY <1>2 DEF SortInv, AsapPassInv
<1>6. WindowInv'
  BY <1>1, <1>2, <1>3, <1>5 DEF WindowInv, StartAlap, TypeOK
<1>7. AsapPassInv' /\ AlapOrdered' /\ LevelsTight' /\ PlacementSafe'
  BY <1>2 DEF AsapPassInv, AlapOrdered, LevelsTight, PlacementSafe
<1>8. PlacedInTime'
  BY <1>2 DEF StartAlap, SortInv, PlacedInTime, Waiting
<1> QED
  BY <1>3, <1>4, <1>6, <1>7, <1>8 DEF SortInv

\* Popping a generator in the backward pass lowers its predecessors below it and
\* keeps every window open.
LEMMA AlapPopPreserves ==
  ASSUME TypeOK, SortInv, NEW u \in Generator, AlapPop(u)
  PROVE  TypeOK' /\ SortInv'
<1> USE EdgeFacts
<1>1. \A g \in Generator : Pred(g)' = Pred(g) /\ Succ(g)' = Succ(g)
  BY EdgesStable DEF AlapPop
<1>2. /\ phase = "alap" /\ phase' = "alap"
      /\ u \in queue /\ u \notin popped
      /\ Succ(u) \subseteq popped
      /\ asap' = asap /\ max_level' = max_level
  BY DEF AlapPop, SortInv, AlapPassInv
\* alap[u] - 1 does not wrap: a generator with a predecessor has asap at least 1.
<1>3. \A p \in Pred(u) : alap[u] - 1 \in Nat /\ asap[p] <= alap[u] - 1
  BY <1>2 DEF SortInv, WindowInv, TypeOK
<1>4. \A v \in Generator : /\ alap'[v] \in Nat
                           /\ alap'[v] <= alap[v]
                           /\ asap[v] <= alap'[v]
                           /\ v \in Pred(u) => alap'[v] < alap[u]
                           /\ v \notin Pred(u) => alap'[v] = alap[v]
                           /\ alap'[v] = alap[v] \/ (v \in Pred(u) /\ alap'[v] = alap[u] - 1)
  BY <1>2, <1>3 DEF AlapPop, TypeOK, Smaller, SortInv, WindowInv
<1>5. TypeOK'
  BY <1>4 DEF AlapPop, TypeOK
<1>6. WindowInv'
  BY <1>1, <1>2, <1>4, <1>5 DEF SortInv, WindowInv, TypeOK
\* The level of a popped generator is final: its successors are popped.
<1>7. \A s \in popped \cup {u} : alap'[s] = alap[s]
  <2> SUFFICES ASSUME NEW s \in popped \cup {u} PROVE s \notin Pred(u)
    BY <1>4 DEF TypeOK
  <2>1. Succ(s) \subseteq popped
    BY <1>2 DEF SortInv, AlapPassInv, TypeOK
  <2> QED BY <2>1, <1>2 DEF TypeOK
<1>8. queue' \cap popped' = {}
  <2> SUFFICES ASSUME NEW v \in queue', v \in popped' PROVE FALSE
    OBVIOUS
  <2>1. CASE v \in Pred(u)
    BY <2>1, <1>2 DEF AlapPop, SortInv, AlapPassInv, TypeOK
  <2>2. CASE v \in queue \ {u}
    BY <2>2, <1>2 DEF AlapPop, SortInv, AlapPassInv
  <2> QED BY <2>1, <2>2 DEF AlapPop
<1>9. \A v \in Generator : v \in popped' \cup queue' <=> Succ(v) \subseteq popped'
  <2> TAKE v \in Generator
  <2>1. v \in popped \cup queue <=> Succ(v) \subseteq popped
    BY <1>2 DEF SortInv, AlapPassInv
  <2> QED BY <2>1, <1>2 DEF AlapPop
<1>10. \A v \in Generator : \A s \in Succ(v) \cap popped' : alap'[v] < alap'[s]
  <2> TAKE v \in Generator
  <2> TAKE s \in Succ(v) \cap popped'
  <2>1. s \in popped \cup {u} /\ s \in Generator
    BY DEF AlapPop
  <2>2. CASE s = u
    BY <2>2, <1>4, <1>7 DEF TypeOK
  <2>3. CASE s \in popped
    BY <2>3, <2>1, <1>2, <1>4, <1>7 DEF SortInv, AlapPassInv, TypeOK
  <2> QED BY <2>1, <2>2, <2>3
<1>11. \A v \in Generator : \/ alap'[v] = max_level'
                            \/ \E s \in Succ(v) \cap popped' : alap'[v] = alap'[s] - 1
  <2> TAKE v \in Generator
  <2>1. CASE alap'[v] = alap[v]
    BY <2>1, <1>2, <1>7 DEF SortInv, AlapPassInv, AlapPop
  <2>2. CASE v \in Pred(u) /\ alap'[v] = alap[u] - 1
    BY <2>2, <1>7 DEF AlapPop
  <2> QED BY <2>1, <2>2, <1>4
<1>12. AlapPassInv'
  BY <1>1, <1>8, <1>9, <1>10, <1>11 DEF AlapPassInv
<1>13. AsapPassInv' /\ AlapOrdered' /\ LevelsTight' /\ PlacementSafe'
  BY <1>2 DEF AsapPassInv, AlapOrdered, LevelsTight, PlacementSafe
<1>14. PlacedInTime'
  BY <1>2 DEF AlapPop, SortInv, PlacedInTime, Waiting
<1> QED
  BY <1>5, <1>6, <1>12, <1>13, <1>14 DEF SortInv

-----------------------------------------------------------------------------
\* The types found on a level are generator ids.
LEMMA LayerTypesTyped ==
  ASSUME TypeOK
  PROVE  \A sched, l : LayerTypes(sched, l) \subseteq Type
<1>1. circuit.id \in [Generator -> Type]
  BY DEF TypeOK, Circuit
<1> QED
  BY <1>1 DEF LayerTypes

\* Once both passes are over the windows of neighbours are ordered.
LEMMA PassedFacts ==
  ASSUME TypeOK, SortInv, Passed
  PROVE  \A v \in Generator :
           /\ asap[v] \in Nat /\ alap[v] \in Nat
           /\ asap[v] <= alap[v] /\ alap[v] <= max_level
           /\ \A p \in Pred(v) : asap[p] < asap[v] /\ alap[p] < alap[v]
           /\ asap[v] = 0 \/ \E p \in Pred(v) : asap[v] = asap[p] + 1
           /\ alap[v] = max_level \/ \E s \in Succ(v) : alap[v] = alap[s] - 1
           /\ \A s \in Succ(v) : alap[v] < alap[s]
<1> USE EdgeFacts
<1>1. phase = "alap" /\ popped = Generator
  BY DEF Passed, AllPushed
<1>2. \A v \in Generator :
           /\ \A s \in Succ(v) : alap[v] < alap[s]
           /\ alap[v] = max_level \/ \E s \in Succ(v) : alap[v] = alap[s] - 1
  BY <1>1 DEF SortInv, AlapPassInv
<1> QED
  BY <1>1, <1>2 DEF SortInv, WindowInv, TypeOK

\* Any placement of every generator inside its window that orders neighbours
\* finishes the sort well.
LEMMA WholePlacement ==
  ASSUME TypeOK, SortInv, Passed,
         UNCHANGED <<circuit, producer, cur, next, queue, popped, asap, alap,
                     max_level, level, types>>,
         phase' = "done",
         scheduled' = asap \/ scheduled' = alap
  PROVE  TypeOK' /\ SortInv'
<1>1. \A g \in Generator : Pred(g)' = Pred(g) /\ Succ(g)' = Succ(g)
  BY EdgesStable
<1>2. TypeOK'
  BY DEF TypeOK
<1>3. \A g \in Generator : /\ scheduled'[g] \in Nat
                           /\ asap[g] <= scheduled'[g] /\ scheduled'[g] <= alap[g]
                           /\ \A p \in Pred(g) : scheduled'[p] < scheduled'[g]
  BY PassedFacts DEF TypeOK
<1>4. \A g \in Generator : scheduled'[g] # Unplaced
  BY <1>3 DEF Unplaced
<1>5. PlacementSafe'
  BY <1>1, <1>3, <1>4, EdgeFacts DEF PlacementSafe, PredEnds
<1>6. AlapOrdered' /\ LevelsTight'
  BY <1>1, PassedFacts, EdgeFacts DEF AlapOrdered, LevelsTight
<1>7. WindowInv'
  BY <1>1 DEF SortInv, WindowInv, Passed
<1> QED
  BY <1>2, <1>4, <1>5, <1>6, <1>7
     DEF SortInv, AsapPassInv, AlapPassInv, PlacedInTime, Waiting

\* Generators without slack stand at asap = alap, past the alap of every
\* predecessor, so pinning them respects those that are still to be placed.
LEMMA PlaceCriticalPreserves ==
  ASSUME TypeOK, SortInv, PlaceCritical
  PROVE  TypeOK' /\ SortInv'
<1> USE EdgeFacts
<1>1. \A g \in Generator : Pred(g)' = Pred(g) /\ Succ(g)' = Succ(g)
  BY EdgesStable DEF PlaceCritical
<1>2. Passed /\ phase' = "fill" /\ asap' = asap /\ alap' = alap /\ max_level' = max_level
  BY DEF PlaceCritical
<1>3. TypeOK'
  <2>1. types' \subseteq Type
    BY LayerTypesTyped DEF PlaceCritical
  <2> QED
    BY <2>1 DEF PlaceCritical, TypeOK
<1>4. \A g \in Generator : \/ scheduled'[g] = Unplaced
                           \/ scheduled'[g] = asap[g] /\ asap[g] = alap[g]
  BY DEF PlaceCritical, Critical
<1>5. PlacementSafe'
  BY <1>1, <1>2, <1>4, PassedFacts DEF PlacementSafe, PredEnds, Unplaced
<1>6. AlapOrdered' /\ LevelsTight'
  BY <1>1, <1>2, PassedFacts DEF AlapOrdered, LevelsTight
<1>7. WindowInv'
  BY <1>1, <1>2 DEF SortInv, WindowInv, Passed
<1> QED
  BY <1>2, <1>3, <1>5, <1>6, <1>7 DEF SortInv, AsapPassInv, AlapPassInv, PlacedInTime

\* Placing a group of waiting generators on one level keeps the placement safe,
\* if the level is in the window of each and past the end of its predecessors.
LEMMA GroupPlacement ==
  ASSUME TypeOK, SortInv, phase \in {"fill", "leftover"}, phase' = phase,
         NEW l \in Nat, NEW G \in SUBSET Waiting,
         UNCHANGED <<circuit, producer, cur, next, queue, popped, asap, alap,
                     max_level>>,
         level' \in Nat, types' \subseteq Type,
         scheduled' = [g \in Generator |-> IF g \in G THEN l ELSE scheduled[g]],
         \A g \in G : /\ asap[g] <= l /\ l <= alap[g]
                       /\ \A p \in Pred(g) : PredEnds(p) < l
  PROVE  TypeOK' /\ SortInv'
<1> USE EdgeFacts
<1>1. \A g \in Generator : Pred(g)' = Pred(g) /\ Succ(g)' = Succ(g)
  BY EdgesStable
<1>2. TypeOK'
  BY DEF TypeOK
<1>3. G \subseteq Generator /\ \A g \in G : scheduled[g] = Unplaced
  BY DEF Waiting
\* The end of a generator never moves up: a member of the group was waiting,
\* so its end was its alap, and l is not above it.
<1>4. \A p \in Generator : PredEnds(p)' <= PredEnds(p) /\ PredEnds(p) \in Nat /\ PredEnds(p)' \in Nat
  BY <1>3 DEF PredEnds, TypeOK, Unplaced
<1>5. PlacementSafe'
  <2> SUFFICES ASSUME NEW g \in Generator, scheduled'[g] # Unplaced
               PROVE  /\ asap[g] <= scheduled'[g] /\ scheduled'[g] <= alap[g]
                      /\ \A p \in Pred(g) : PredEnds(p)' < scheduled'[g]
    BY <1>1 DEF PlacementSafe
  <2>1. CASE g \in G
    BY <2>1, <1>4 DEF TypeOK
  <2>2. CASE g \notin G
    <3>1. scheduled'[g] = scheduled[g] /\ scheduled[g] # Unplaced
      BY <2>2
    <3>2. /\ asap[g] <= scheduled[g] /\ scheduled[g] <= alap[g]
          /\ \A p \in Pred(g) : PredEnds(p) < scheduled[g]
      BY <3>1 DEF SortInv, PlacementSafe
    <3> QED BY <3>1, <3>2, <1>4 DEF TypeOK, Unplaced
  <2> QED BY <2>1, <2>2
<1>6. AlapOrdered' /\ LevelsTight'
  BY <1>1 DEF SortInv, AlapOrdered, LevelsTight
<1>7. WindowInv'
  BY <1>1 DEF SortInv, WindowInv
<1> QED
  BY <1>2, <1>5, <1>6, <1>7 DEF SortInv, AsapPassInv, AlapPassInv, PlacedInTime

\* Every step of the sort keeps the types and the invariant.
LEMMA NextInv == TypeOK /\ SortInv /\ [Next]_vars => TypeOK' /\ SortInv'
<1> SUFFICES ASSUME TypeOK, SortInv, [Next]_vars PROVE TypeOK' /\ SortInv'
  OBVIOUS
<1>1. CASE (\E g \in Generator : VisitGenerator(g)) \/ SwapFrontier
  BY <1>1, ProducePreserves
<1>2. CASE StartAsap
  BY <1>2, StartAsapPreserves
<1>3. CASE \E u \in Generator : AsapPop(u)
  BY <1>3, AsapPopPreserves
<1>4. CASE StartAlap
  BY <1>4, StartAlapPreserves
<1>5. CASE \E u \in Generator : AlapPop(u)
  BY <1>5, AlapPopPreserves
<1>6. CASE PlaceAllAsap \/ PlaceAllAlap \/ PlaceChainFast
  BY <1>6, WholePlacement DEF PlaceAllAsap, PlaceAllAlap, PlaceChainFast
<1>7. CASE PlaceCritical
  BY <1>7, PlaceCriticalPreserves
<1>8. ASSUME NEW ty \in Type, FillType(ty)
      PROVE  TypeOK' /\ SortInv'
  <2> DEFINE G == FillCandidates(ty, level)
  <2>1. G \subseteq Waiting
    BY DEF FillCandidates
  <2>2. \A g \in G : /\ asap[g] <= level /\ level <= alap[g]
                     /\ \A p \in Pred(g) : PredEnds(p) < level
    <3> SUFFICES ASSUME NEW g \in G
                 PROVE  /\ asap[g] <= level /\ level <= alap[g]
                        /\ \A p \in Pred(g) : PredEnds(p) < level
      OBVIOUS
    <3>1. /\ g \in Generator /\ asap[g] <= level /\ level <= alap[g]
          /\ \A p \in Pred(g) : PredBefore(p, level)
      BY DEF FillCandidates, Waiting
    <3>2. ASSUME NEW p \in Pred(g) PROVE PredEnds(p) < level
      <4>1. p \in Generator /\ PredBefore(p, level)
        BY <3>1, EdgeFacts
      \* A placed predecessor is not above its alap.
      <4>2. scheduled[p] # Unplaced => scheduled[p] <= alap[p]
        BY <1>8, <4>1 DEF SortInv, PlacementSafe, FillType
      <4> QED
        BY <4>1, <4>2 DEF PredBefore, PredEnds, TypeOK, Unplaced
    <3> QED BY <3>1, <3>2
  <2>3. level \in Nat /\ level' \in Nat /\ types' \subseteq Type
    BY <1>8 DEF FillType, TypeOK
  <2>4. scheduled' = [g \in Generator |-> IF g \in G THEN level ELSE scheduled[g]]
    BY <1>8 DEF FillType
  <2> HIDE DEF G
  <2>5. phase \in {"fill", "leftover"} /\ phase' = phase
        /\ UNCHANGED <<circuit, producer, cur, next, queue, popped, asap, alap, max_level>>
    BY <1>8 DEF FillType
  <2> QED
    BY <2>1, <2>2, <2>3, <2>4, <2>5, GroupPlacement
<1>9. CASE FillNextLevel
  <2> DEFINE G == {}
  <2>1. G \in SUBSET Waiting /\ 0 \in Nat
    OBVIOUS
  <2>2. level' \in Nat /\ types' \subseteq Type
    BY <1>9, LayerTypesTyped DEF FillNextLevel, TypeOK
  <2>3. scheduled' = [g \in Generator |-> IF g \in G THEN 0 ELSE scheduled[g]]
    BY <1>9 DEF FillNextLevel, TypeOK
  <2>4. phase \in {"fill", "leftover"} /\ phase' = phase
        /\ UNCHANGED <<circuit, producer, cur, next, queue, popped, asap, alap, max_level>>
    BY <1>9 DEF FillNextLevel
  <2>5. \A g \in G : /\ asap[g] <= 0 /\ 0 <= alap[g]
                     /\ \A p \in Pred(g) : PredEnds(p) < 0
    OBVIOUS
  <2> HIDE DEF G
  <2> QED
    BY <2>1, <2>2, <2>3, <2>4, <2>5, GroupPlacement
<1>10. CASE FillEnd \/ Finish
  <2>1. \A g \in Generator : Pred(g)' = Pred(g) /\ Succ(g)' = Succ(g)
    BY <1>10, EdgesStable DEF FillEnd, Finish
  <2>2. TypeOK'
    BY <1>10 DEF FillEnd, Finish, TypeOK
  <2>3. PlacementSafe'
    BY <1>10, <2>1 DEF FillEnd, Finish, SortInv, PlacementSafe, PredEnds
  <2>4. AlapOrdered' /\ LevelsTight' /\ WindowInv'
    BY <1>10, <2>1 DEF FillEnd, Finish, SortInv, AlapOrdered, LevelsTight, WindowInv
  <2>5. PlacedInTime'
    BY <1>10 DEF FillEnd, Finish, PlacedInTime, Waiting
  <2> QED
    BY <1>10, <2>2, <2>3, <2>4, <2>5 DEF FillEnd, Finish, SortInv, AsapPassInv, AlapPassInv
<1>11. ASSUME NEW l \in 0 .. max_level, NEW ty \in Type, PlaceLeftover(l, ty)
       PROVE  TypeOK' /\ SortInv'
  <2> DEFINE G == Bucket(l, ty)
  <2>1. G \subseteq Waiting /\ l \in Nat
    BY DEF Bucket, TypeOK
  <2>2. \A g \in G : /\ asap[g] <= l /\ l <= alap[g]
                     /\ \A p \in Pred(g) : PredEnds(p) < l
    <3> SUFFICES ASSUME NEW g \in G, NEW p \in Pred(g) PROVE PredEnds(p) < l
      BY DEF Bucket
    <3>1. p \in Generator /\ PredEnds(p) + 1 <= l
      BY EdgeFacts DEF Bucket, Waiting
    <3>2. PredEnds(p) \in Int
      BY <3>1 DEF PredEnds, TypeOK, Unplaced
    <3> QED BY <3>1, <3>2, <2>1
  <2>3. level' \in Nat /\ types' \subseteq Type
    BY <1>11 DEF PlaceLeftover, TypeOK
  <2>4. scheduled' = [g \in Generator |-> IF g \in G THEN l ELSE scheduled[g]]
    BY <1>11 DEF PlaceLeftover
  <2> HIDE DEF G
  <2>5. phase \in {"fill", "leftover"} /\ phase' = phase
        /\ UNCHANGED <<circuit, producer, cur, next, queue, popped, asap, alap, max_level>>
    BY <1>11 DEF PlaceLeftover
  <2> QED
    BY <2>1, <2>2, <2>3, <2>4, <2>5, GroupPlacement
<1>12. CASE UNCHANGED vars
  <2>1. \A g \in Generator : Pred(g)' = Pred(g) /\ Succ(g)' = Succ(g)
    BY <1>12, EdgesStable DEF vars
  <2>2. TypeOK'
    BY <1>12 DEF vars, TypeOK
  <2>3. AsapPassInv' /\ AlapPassInv' /\ WindowInv'
    BY <1>12, <2>1 DEF vars, SortInv, AsapPassInv, AlapPassInv, WindowInv
  <2>4. AlapOrdered' /\ LevelsTight' /\ PlacementSafe' /\ PlacedInTime'
    BY <1>12, <2>1 DEF vars, SortInv, AlapOrdered, LevelsTight, PlacementSafe,
                       PredEnds, PlacedInTime, Waiting
  <2> QED
    BY <2>2, <2>3, <2>4 DEF SortInv
<1> QED
  BY <1>1, <1>2, <1>3, <1>4, <1>5, <1>6, <1>7, <1>8, <1>9, <1>10, <1>11, <1>12
     DEF Next, Sort, Sorted

\* The types and the inductive invariant hold in every state of the sort.
THEOREM SortInvariant == Spec => [](TypeOK /\ SortInv)
BY InitInv, NextInv, PTL DEF Spec

\* Type correctness; that alap stays a natural number (alap[u] - 1 never wraps)
\* rests on the windows of SortInv.
THEOREM TypeCorrect == Spec => []TypeOK
BY SortInvariant, PTL

\* Once every generator is placed, each stands after its producers.
LEMMA LegalWhenSorted == TypeOK /\ SortInv => ScheduleLegal
<1> SUFFICES ASSUME TypeOK, SortInv, phase = "done", NEW g \in Generator
             PROVE  /\ scheduled[g] \in 0 .. max_level
                    /\ \A p \in Pred(g) : scheduled[p] < scheduled[g]
  BY DEF ScheduleLegal
<1>1. \A h \in Generator : scheduled[h] # Unplaced
  BY DEF SortInv, PlacedInTime, Waiting
<1>2. /\ asap[g] <= scheduled[g] /\ scheduled[g] <= alap[g]
      /\ \A p \in Pred(g) : PredEnds(p) < scheduled[g]
  BY <1>1 DEF SortInv, PlacementSafe
<1>3. alap[g] <= max_level
  BY DEF SortInv, WindowInv
<1> QED
  BY <1>1, <1>2, <1>3, EdgeFacts DEF PredEnds, TypeOK

\* For every circuit and every scheduling policy a finished sort puts each
\* generator strictly after the producers of what it reads.
THEOREM Legality == Spec => []ScheduleLegal
BY LegalWhenSorted, SortInvariant, PTL

\* A level, once given, is never changed: each action places waiting generators.
THEOREM LevelsFinal == Spec => PlacedOnce
<1> DEFINE Kept == \A g \in Generator : scheduled[g] # Unplaced => scheduled'[g] = scheduled[g]
<1>1. TypeOK /\ SortInv /\ [Next]_vars => [Kept]_vars
  <2> SUFFICES ASSUME TypeOK, SortInv, Next PROVE Kept
    OBVIOUS
  <2>1. CASE UNCHANGED scheduled
    BY <2>1
  <2>2. CASE Passed
    BY <2>2 DEF SortInv, PlacedInTime, Passed, Waiting
  <2>3. ASSUME NEW ty \in Type, FillType(ty)
        PROVE  Kept
    BY <2>3 DEF FillType, FillCandidates, Waiting, TypeOK
  <2>4. ASSUME NEW l \in 0 .. max_level, NEW ty \in Type, PlaceLeftover(l, ty)
        PROVE  Kept
    BY <2>4 DEF PlaceLeftover, Bucket, Waiting, TypeOK
  <2> QED
    BY <2>1, <2>2, <2>3, <2>4
       DEF Next, Sort, Sorted, vars, VisitGenerator, SwapFrontier, StartAsap, AsapPop,
           StartAlap, AlapPop, PlaceAllAsap, PlaceAllAlap, PlaceChainFast,
           PlaceCritical, FillNextLevel, FillEnd, Finish
<1> QED
  BY <1>1, SortInvariant, PTL DEF Spec, PlacedOnce

-----------------------------------------------------------------------------
\* A nonempty set of natural numbers has a least element.
LEMMA LeastNat ==
  ASSUME NEW S \in SUBSET Nat, S # {}
  PROVE  \E m \in S : \A n \in S : m <= n
<1>1. PICK m \in S : \A n \in S : ~ (<<n, m>> \in OpToRel(<, Nat))
  BY WFMin, NatLessThanWellFounded
<1>2. \A n \in S : ~ (n < m)
  BY <1>1 DEF OpToRel
<1> QED
  BY <1>2

\* On each level up to max_level there is a generator without slack: the last
\* level has one, and a critical generator above level 0 has a critical one just
\* before it.  It stands on its asap level whatever the policy.
LEMMA PopulatedWhenSorted == TypeOK /\ SortInv => LayersPopulated
<1> SUFFICES ASSUME TypeOK, SortInv, phase = "done"
             PROVE  \A l \in 0 .. max_level : \E g \in Generator : scheduled[g] = l
  BY DEF LayersPopulated
<1> DEFINE CriticalAt(l) == \E g \in Generator : asap[g] = l /\ alap[g] = l
           Gaps == {max_level - l : l \in {k \in 0 .. max_level : ~ CriticalAt(k)}}
<1>1. \A g \in Generator :
        /\ asap[g] \in Nat /\ alap[g] \in Nat
        /\ asap[g] <= alap[g] /\ alap[g] <= max_level
        /\ \A p \in Pred(g) : p \in Generator /\ alap[p] < alap[g]
        /\ asap[g] = 0 \/ \E p \in Pred(g) : asap[g] = asap[p] + 1
  BY EdgeFacts DEF SortInv, WindowInv, AlapOrdered, TypeOK
<1>2. max_level \in Nat /\ CriticalAt(max_level)
  <2>1. PICK v \in Generator : asap[v] = max_level
    BY DEF SortInv, WindowInv
  <2> QED
    BY <2>1, <1>1 DEF TypeOK
<1>3. ASSUME NEW l \in 0 .. max_level, l # 0, CriticalAt(l)
      PROVE  CriticalAt(l - 1)
  <2>1. PICK g \in Generator : asap[g] = l /\ alap[g] = l
    BY <1>3
  <2>2. PICK p \in Pred(g) : asap[g] = asap[p] + 1
    BY <1>1, <1>3, <2>1
  <2>3. p \in Generator /\ alap[p] < l /\ asap[p] = l - 1 /\ asap[p] <= alap[p]
    BY <1>1, <1>2, <2>1, <2>2
  <2> QED
    BY <1>1, <1>2, <2>3
<1>4. Gaps = {}
  <2> SUFFICES ASSUME Gaps # {} PROVE FALSE
    OBVIOUS
  <2>1. Gaps \in SUBSET Nat
    BY <1>2
  <2>2. PICK m \in Gaps : \A n \in Gaps : m <= n
    BY <2>1, LeastNat
  <2>3. PICK l \in 0 .. max_level : m = max_level - l /\ ~ CriticalAt(l)
    BY <2>2
  <2>4. l # max_level
    BY <1>2, <2>3
  <2>5. l + 1 \in 0 .. max_level /\ l + 1 # 0
    BY <1>2, <2>4
  <2>6. ~ CriticalAt(l + 1)
    <3>1. l + 1 - 1 = l
      OBVIOUS
    <3> QED BY <3>1, <1>3, <2>3, <2>5
  <2>7. max_level - (l + 1) \in Gaps
    BY <2>5, <2>6
  <2>8. m <= max_level - (l + 1)
    <3> HIDE DEF Gaps
    <3> QED BY <2>2, <2>7
  <2> QED
    BY <1>2, <2>3, <2>8
<1>5. \A g \in Generator : asap[g] <= scheduled[g] /\ scheduled[g] <= alap[g] /\ scheduled[g] \in Nat
  BY DEF SortInv, PlacementSafe, PlacedInTime, Waiting, TypeOK
<1> SUFFICES ASSUME NEW l \in 0 .. max_level
             PROVE  \E g \in Generator : scheduled[g] = l
  OBVIOUS
<1>6. CriticalAt(l)
  BY <1>4
<1> QED
  BY <1>1, <1>2, <1>5, <1>6

\* No level of a finished schedule is empty, whatever the circuit and the policy:
\* the graph never chains a level to nothing.
THEOREM NoEmptyLayer == Spec => []LayersPopulated
BY PopulatedWhenSorted, SortInvariant, PTL

-----------------------------------------------------------------------------
\* Targets named by the lists of a circuit are targets.
LEMMA ListsTyped ==
  ASSUME TypeOK
  PROVE  /\ \A g \in Generator : Watched(g) \subseteq Target /\ Outputs(g) \subseteq Target
         /\ Inputs \subseteq Target
<1>1. /\ circuit.watch_list \in [Generator -> Seq(Target)]
      /\ circuit.output_targets \in [Generator -> Seq(Target)]
      /\ circuit.input_targets \in Seq(Target)
  BY DEF TypeOK, Circuit
<1>2. \A s \in Seq(Target) : Elems(s) \subseteq Target
  BY DEF Elems
<1> QED
  BY <1>1, <1>2 DEF Watched, Outputs, Inputs

\* The generators that are the producer of some target.
Producers == {g \in Generator : \E t \in Target : producer[t] = By(g)}

\* rank orders the producers along the edges, and N bounds it.
Ranks(rank, N) ==
  \A g \in Producers : rank[g] <= N /\ \A p \in Pred(g) : rank[p] < rank[g]

\* The breadth-first pass builds no cycle: everything a producer or a generator
\* of the frontier watches has a producer already, so the producers can be
\* ranked in the order they were visited.
ProduceInv ==
  /\ \A g \in Producers : Watched(g) \subseteq Produced
  /\ phase = "produce" => \A g \in cur \cup next : Watched(g) \subseteq Produced
  /\ \E rank \in [Generator -> Nat], N \in Nat : Ranks(rank, N)

\* At the start only inputs have a source.
LEMMA ProduceInvInit == Init => TypeOK /\ ProduceInv
<1> SUFFICES ASSUME Init PROVE ProduceInv
  BY InitInv
<1> USE InitInv
<1>1. Producers = {}
  BY DEF Init, Producers, By, InputSource, NoSource
<1>2. Inputs \subseteq Produced
  BY ListsTyped DEF Init, Produced, InputSource, NoSource
<1>3. [g \in Generator |-> 0] \in [Generator -> Nat] /\ 0 \in Nat
  OBVIOUS
<1>4. Ranks([g \in Generator |-> 0], 0)
  BY <1>1 DEF Ranks
<1> QED
  BY <1>1, <1>2, <1>3, <1>4 DEF ProduceInv, Init

\* A visited generator becomes a producer only when all it watches is produced:
\* new edges go from generators produced earlier.
LEMMA VisitPreserves ==
  ASSUME TypeOK, ProduceInv, NEW g \in Generator, VisitGenerator(g)
  PROVE  ProduceInv'
<1> DEFINE new == {t \in Outputs(g) : producer[t] = NoSource}
<1>1. /\ phase = "produce" /\ g \in cur /\ circuit' = circuit
      /\ producer' = [t \in Target |-> IF t \in new THEN By(g) ELSE producer[t]]
      /\ new \subseteq Target /\ new \cap Produced = {}
      /\ \A t \in Target : t \in Produced <=> producer[t] # NoSource
  BY ListsTyped DEF VisitGenerator, Produced
<1>2. \A h \in Generator : Watched(h)' = Watched(h)
  BY <1>1 DEF Watched
<1>3. Produced' = Produced \cup new
  BY <1>1 DEF Produced, By, NoSource
<1>4. Watched(g) \subseteq Produced
  BY <1>1 DEF ProduceInv
\* A generator all of whose targets had a producer keeps its predecessors.
<1>5. \A h \in Generator : Watched(h) \subseteq Produced => Pred(h)' = Pred(h)
  <2> SUFFICES ASSUME NEW h \in Generator, Watched(h) \subseteq Produced
               PROVE  Pred(h)' = Pred(h)
    OBVIOUS
  <2>1. \A t \in Watched(h) : t \in Target /\ t \notin new
    BY <1>1, ListsTyped
  <2>2. \A t \in Watched(h) : producer'[t] = producer[t]
    BY <1>1, <2>1
  <2> QED
    BY <1>2, <2>2 DEF Pred
<1>6. Producers \subseteq Producers' /\ Producers' \subseteq Producers \cup {g}
  <2>1. \A h \in Generator, t \in Target : producer[t] = By(h) => producer'[t] = By(h)
    BY <1>1 DEF By, NoSource
  <2>2. \A h \in Generator, t \in Target : producer'[t] = By(h) => producer[t] = By(h) \/ h = g
    BY <1>1 DEF By
  <2> QED BY <2>1, <2>2 DEF Producers, By
<1>7. \A h \in Generator : Watched(h) \subseteq Produced => Pred(h) \subseteq Producers
  BY ListsTyped DEF Pred, Producers
<1>8. \A h \in Producers' : Watched(h)' \subseteq Produced'
  BY <1>2, <1>3, <1>4, <1>6 DEF ProduceInv, Producers
<1>9. \A h \in cur' \cup next' : Watched(h)' \subseteq Produced'
  <2>1. \A h \in cur \cup next : Watched(h) \subseteq Produced
    BY <1>1 DEF ProduceInv
  <2>2. \A h \in cur' \cup next' : h \in cur \cup next \/ Watched(h) \subseteq Produced \cup new
    BY DEF VisitGenerator
  <2>3. \A h \in cur' \cup next' : h \in Generator
    BY DEF VisitGenerator, TypeOK
  <2> QED BY <2>1, <2>2, <2>3, <1>2, <1>3
<1>10. \E rank \in [Generator -> Nat], N \in Nat : Ranks(rank, N)'
  <2>1. PICK rank \in [Generator -> Nat], N \in Nat : Ranks(rank, N)
    BY DEF ProduceInv
  <2>2. \A h \in Producers : h \in Generator /\ Watched(h) \subseteq Produced
                            /\ Pred(h)' = Pred(h) /\ Pred(h) \subseteq Producers
    BY <1>5, <1>7 DEF ProduceInv, Producers
  <2>3. CASE g \in Producers
    <3>1. Producers' = Producers
      BY <2>3, <1>6
    <3>2. Ranks(rank, N)'
      BY <2>1, <2>2, <3>1 DEF Ranks
    <3> QED BY <3>2
  <2>4. CASE g \notin Producers
    <3> DEFINE rank2 == [rank EXCEPT ![g] = N + 1]
    <3>1. rank2 \in [Generator -> Nat] /\ N + 1 \in Nat
      OBVIOUS
    <3>2. \A h \in Producers : rank2[h] = rank[h]
      BY <2>2, <2>4
    <3>3. rank2[g] = N + 1
      OBVIOUS
    <3>4. Pred(g)' = Pred(g) /\ Pred(g) \subseteq Producers
      BY <1>4, <1>5, <1>7
    <3> HIDE DEF rank2
    <3>5. ASSUME NEW h \in Producers'
          PROVE  rank2[h] <= N + 1 /\ \A p \in Pred(h)' : rank2[p] < rank2[h]
      <4>1. CASE h \in Producers
        <5>1. rank[h] <= N /\ \A p \in Pred(h) : rank[p] < rank[h]
          BY <2>1, <4>1 DEF Ranks
        <5>2. rank2[h] = rank[h] /\ rank[h] \in Nat
          BY <4>1, <3>2, <2>2
        <5>3. \A p \in Pred(h)' : rank2[p] = rank[p] /\ rank[p] < rank[h]
          BY <4>1, <2>2, <3>2, <5>1
        <5> QED BY <5>1, <5>2, <5>3
      <4>2. CASE h = g
        <5>1. \A p \in Pred(g) : p \in Producers /\ rank2[p] = rank[p] /\ rank[p] <= N /\ rank[p] \in Nat
          BY <2>1, <2>2, <3>2, <3>4 DEF Ranks
        <5> QED BY <4>2, <5>1, <3>3, <3>4
      <4> QED BY <4>1, <4>2, <1>6
    <3>6. Ranks(rank2, N + 1)'
      BY <3>5 DEF Ranks
    <3> QED BY <3>1, <3>6
  <2> QED BY <2>3, <2>4
<1> QED
  BY <1>8, <1>9, <1>10 DEF ProduceInv

\* The order of production is kept by every step of the sort.
LEMMA ProduceInvNext == TypeOK /\ ProduceInv /\ [Next]_vars => ProduceInv'
<1> SUFFICES ASSUME TypeOK, ProduceInv, [Next]_vars PROVE ProduceInv'
  OBVIOUS
<1>1. CASE \E g \in Generator : VisitGenerator(g)
  BY <1>1, VisitPreserves
<1>2. CASE /\ circuit' = circuit /\ producer' = producer
           /\ phase' = "produce" => phase = "produce" /\ cur' \cup next' \subseteq cur \cup next
  <2>1. \A g \in Generator : Pred(g)' = Pred(g) /\ Watched(g)' = Watched(g)
    BY <1>2, EdgesStable DEF Watched
  <2>2. Producers' = Producers /\ Produced' = Produced
    BY <1>2 DEF Producers, Produced
  <2>3. Producers \subseteq Generator /\ cur \cup next \subseteq Generator
    BY DEF Producers, TypeOK
  <2>4. \E rank \in [Generator -> Nat], N \in Nat : Ranks(rank, N)'
    BY <2>1, <2>2, <2>3 DEF ProduceInv, Ranks
  <2> QED
    BY <1>2, <2>1, <2>2, <2>3, <2>4 DEF ProduceInv
<1> QED
  BY <1>1, <1>2
     DEF Next, Sort, Sorted, vars, SwapFrontier, StartAsap, AsapPop, StartAlap,
         AlapPop, PlaceAllAsap, PlaceAllAlap, PlaceChainFast, PlaceCritical,
         FillType, FillNextLevel, FillEnd, PlaceLeftover, Finish

\* All generators can be ranked, those that produce nothing above the others.
LEMMA Acyclic ==
  ASSUME TypeOK, ProduceInv
  PROVE  \E rank \in [Generator -> Nat], N \in Nat :
           \A g \in Generator : rank[g] <= N /\ \A p \in Pred(g) : rank[p] < rank[g]
<1>1. PICK rank \in [Generator -> Nat], N \in Nat : Ranks(rank, N)
  BY DEF ProduceInv
<1> DEFINE rank2 == [g \in Generator |-> IF g \in Producers THEN rank[g] ELSE N + 1]
<1>2. rank2 \in [Generator -> Nat] /\ N + 1 \in Nat
  OBVIOUS
<1>3. \A g \in Generator : Pred(g) \subseteq Producers /\ Producers \subseteq Generator
  BY ListsTyped DEF Pred, Producers
<1>4. \A g \in Generator : rank2[g] <= N + 1 /\ \A p \in Pred(g) : rank2[p] < rank2[g]
  <2> TAKE g \in Generator
  <2>1. \A p \in Pred(g) : p \in Producers /\ rank2[p] = rank[p] /\ rank[p] \in Nat /\ rank[p] <= N
    BY <1>1, <1>3 DEF Ranks
  <2>2. CASE g \in Producers
    BY <2>1, <2>2, <1>1 DEF Ranks
  <2>3. CASE g \notin Producers
    BY <2>1, <2>3
  <2> QED BY <2>2, <2>3
<1> QED
  BY <1>2, <1>4

\* No build fails one of its asserts.  In a pass whose queue ran dry, an unpopped
\* generator of least rank (backwards: of largest rank) has no unpopped
\* neighbour to wait for; and a leftover can always go to its alap level.
THEOREM NeverPanics == Spec => []BuildNeverPanics
<1>1. TypeOK /\ SortInv /\ ProduceInv => BuildNeverPanics
  <2> SUFFICES ASSUME TypeOK, SortInv, ProduceInv PROVE BuildNeverPanics
    OBVIOUS
  <2>1. PICK rank \in [Generator -> Nat], N \in Nat :
          \A g \in Generator : rank[g] <= N /\ \A p \in Pred(g) : rank[p] < rank[g]
    BY Acyclic
  <2> DEFINE Left == Generator \ popped
  <2>2. ASSUME phase = "asap", queue = {}, ~ AllPushed
        PROVE  FALSE
    <3> DEFINE S == {rank[g] : g \in Left}
    <3>1. S \in SUBSET Nat /\ S # {}
      BY <2>2 DEF AllPushed, TypeOK
    <3>2. PICK m \in S : \A n \in S : m <= n
      BY <3>1, LeastNat
    <3>3. PICK g \in Left : m = rank[g]
      BY <3>2
    <3>4. \E p \in Pred(g) : p \in Left
      BY <2>2, EdgeFacts DEF SortInv, AsapPassInv
    <3>5. PICK p \in Pred(g) : p \in Left
      BY <3>4
    <3>6. rank[p] \in S /\ rank[p] < rank[g]
      BY <2>1, <3>5
    <3> QED
      <4> HIDE DEF S
      <4>1. m <= rank[p]
        BY <3>2, <3>6
      <4> QED BY <4>1, <3>3, <3>5, <3>6
  <2>3. ASSUME phase = "alap", queue = {}, ~ AllPushed
        PROVE  FALSE
    <3> DEFINE S == {N - rank[g] : g \in Left}
    <3>1. S \in SUBSET Nat /\ S # {}
      BY <2>1, <2>3 DEF AllPushed, TypeOK
    <3>2. PICK m \in S : \A n \in S : m <= n
      BY <3>1, LeastNat
    <3>3. PICK g \in Left : m = N - rank[g]
      BY <3>2
    <3>4. \E s \in Succ(g) : s \in Left
      BY <2>3, EdgeFacts DEF SortInv, AlapPassInv
    <3>5. PICK s \in Succ(g) : s \in Left
      BY <3>4
    <3>6. N - rank[s] \in S /\ rank[g] < rank[s]
      BY <2>1, <3>5, EdgeFacts
    <3> QED
      <4> HIDE DEF S
      <4>1. m <= N - rank[s]
        BY <3>2, <3>6
      <4> QED BY <4>1, <3>3, <3>5, <3>6
  <2>4. ~ NoSchedulableGenerators
    <3> SUFFICES ASSUME phase = "leftover", NEW g \in Waiting
                 PROVE  \E l \in 0 .. max_level, ty \in Type : Bucket(l, ty) # {}
      BY DEF NoSchedulableGenerators
    <3>1. g \in Generator /\ circuit.id[g] \in Type
      BY DEF Waiting, TypeOK, Circuit
    <3>2. alap[g] \in 0 .. max_level /\ asap[g] <= alap[g]
      BY <3>1 DEF SortInv, WindowInv, TypeOK
    <3>3. \A p \in Pred(g) : PredEnds(p) + 1 <= alap[g]
      <4> SUFFICES ASSUME NEW p \in Pred(g) PROVE PredEnds(p) + 1 <= alap[g]
        OBVIOUS
      <4>1. p \in Generator /\ alap[p] < alap[g]
        BY <3>1, EdgeFacts DEF SortInv, AlapOrdered
      <4>2. scheduled[p] # Unplaced => scheduled[p] <= alap[p]
        BY <4>1 DEF SortInv, PlacementSafe
      <4> QED
        BY <4>1, <4>2, <3>1 DEF PredEnds, TypeOK, Unplaced
    <3>4. g \in Bucket(alap[g], circuit.id[g])
      BY <3>1, <3>2, <3>3 DEF Bucket, TypeOK
    <3> QED BY <3>1, <3>2, <3>4
  <2> QED
    BY <2>2, <2>3, <2>4 DEF BuildNeverPanics, GeneratorsWerentRun
<1>2. Spec => []ProduceInv
  BY ProduceInvInit, ProduceInvNext, TypeCorrect, PTL DEF Spec
<1> QED
  BY <1>1, <1>2, SortInvariant, PTL

-----------------------------------------------------------------------------
(***************************************************************************)
(* The inductive invariant.                                                *)
(***************************************************************************)

\* The producer pass: a target's producer writes it and does not watch it, and a
\* generator that could run either has produced its outputs or will be visited.
FrontierInv ==
  /\ circuit \in Circuits
  /\ \A t \in Target : producer[t] = InputSource <=> t \in Inputs
  /\ \A g \in Generator, t \in Target :
       producer[t] = By(g) => t \in Outputs(g) /\ t \notin Watched(g)
  /\ \A g \in Generator : Watched(g) \subseteq Produced =>
       \/ Outputs(g) \subseteq Produced
       \/ phase = "produce" /\ g \in cur \cup next

\* The generators the layout loop has been past.
Laid(g) ==
  /\ phase = "done"
  /\ scheduled[g] < lay \/ (scheduled[g] = lay /\ circuit.id[g] \notin todo)

\* Generator i of batch k, and whether it has a j-th output or watched target.
Gen(k, i) == batches[k].order[i]

InBatch(k, i) == k \in DOMAIN batches /\ i \in DOMAIN batches[k].order

HasOutput(k, i, j) ==
  InBatch(k, i) /\ j \in DOMAIN circuit.output_targets[Gen(k, i)]

HasInput(k, i, j) ==
  InBatch(k, i) /\ j \in DOMAIN circuit.watch_list[Gen(k, i)]

Output(k, i, j) == circuit.output_targets[Gen(k, i)][j]
Input(k, i, j) == circuit.watch_list[Gen(k, i)][j]

NumInputs == Len(circuit.input_targets)

Batch == [layer : Nat, order : Seq(Generator), write_start : Nat, read_start : Nat]

LayoutTypes ==
  /\ lay \in Nat /\ todo \subseteq Type
  /\ batches \in Seq(Batch)
  /\ write_start \in Nat /\ NumInputs <= write_start
  /\ write_map \in [Target -> Nat \cup {NoSlot}]
  /\ read_map \in Seq(Nat \cup {NoSlot}) /\ Len(read_map) = read_start

\* The batches hold each generator the loop has been past once, on its level, and
\* stand in the order of the levels.
BatchesInv ==
  /\ phase # "done" => batches = <<>> /\ lay = 0
  /\ phase = "done" => todo \subseteq LayerTypes(scheduled, lay)
  /\ \A k \in DOMAIN batches : batches[k].layer <= lay
  /\ \A k, i : InBatch(k, i) => scheduled[Gen(k, i)] = batches[k].layer
  /\ \A k, m \in DOMAIN batches : k < m => batches[k].layer <= batches[m].layer
  /\ \A k, i, m, n : InBatch(k, i) /\ InBatch(m, n) /\ Gen(k, i) = Gen(m, n)
                        => k = m /\ i = n
  /\ \A g \in Generator : Laid(g) <=> \E k, i : InBatch(k, i) /\ Gen(k, i) = g

\* The slots the kernels write are past the inputs and pairwise different.
SlotsApart ==
  /\ \A k, i, j : HasOutput(k, i, j) =>
       NumInputs <= WriteSlot(k, i, j) /\ WriteSlot(k, i, j) < write_start
  /\ \A k, i, j, m, n, o :
       /\ HasOutput(k, i, j) /\ HasOutput(m, n, o)
       /\ WriteSlot(k, i, j) = WriteSlot(m, n, o)
       => k = m /\ i = n /\ j = o

\* The slot of a target is where the host uploads it, or where a kernel on the
\* first level of all its writers stores it.
Home(t) ==
  IF t \in Inputs
    THEN \E n \in DOMAIN circuit.input_targets :
           circuit.input_targets[n] = t /\ write_map[t] = n - 1
    ELSE \E k, i, j :
           /\ HasOutput(k, i, j) /\ Output(k, i, j) = t
           /\ write_map[t] = WriteSlot(k, i, j)
           /\ \A g \in Generator : t \in Outputs(g) => batches[k].layer <= scheduled[g]

MapInv ==
  \A t \in Target :
    /\ write_map[t] # NoSlot <=> t \in Inputs \/ \E g \in Generator : Laid(g) /\ t \in Outputs(g)
    /\ write_map[t] # NoSlot => Home(t)

\* A kernel reads each watched target at the target's slot.
ReadsInv ==
  \A k, i, j : HasInput(k, i, j) =>
    /\ batches[k].read_start + Stride(i, j, Len(batches[k].order)) + 1 \in DOMAIN read_map
    /\ ReadSlot(k, i, j) = write_map[Input(k, i, j)]
    /\ write_map[Input(k, i, j)] # NoSlot

\* What the witness holds: the inputs, the outputs of what has run, and garbage
\* where the others will write; and no level has begun before all earlier ones
\* have ended.
RunInv ==
  /\ ran \subseteq Generator
  /\ \A n \in DOMAIN circuit.input_targets : witness[n - 1] = circuit.input_targets[n]
  /\ \A k, i, j : HasOutput(k, i, j) =>
       witness[WriteSlot(k, i, j)] = IF Gen(k, i) \in ran THEN Output(k, i, j) ELSE Garbage
  /\ \A k, i, m, n : /\ InBatch(k, i) /\ InBatch(m, n)
                     /\ Gen(k, i) \in ran /\ batches[m].layer < batches[k].layer
                     => Gen(m, n) \in ran

WitnessInv ==
  /\ stage \in {"build", "built", "replay", "scattered"}
  /\ stage = "build" => witness = <<>>
  /\ stage # "build" =>
       /\ phase = "done" /\ \A g \in Generator : Laid(g)
       /\ witness \in [0 .. write_start - 1 -> Target \cup {Garbage}]
  /\ stage = "built" => \A s \in DOMAIN witness : witness[s] = Garbage
  /\ stage \in {"replay", "scattered"} => RunInv

ReplayInv ==
  /\ TypeOK /\ SortInv /\ ProduceInv /\ FrontierInv
  /\ LayoutTypes /\ BatchesInv /\ SlotsApart /\ MapInv /\ ReadsInv /\ WitnessInv

-----------------------------------------------------------------------------
(***************************************************************************)
(* Numbers: products, strides, greatest elements.                          *)
(***************************************************************************)
LEMMA TimesNat ==
  ASSUME NEW a \in Nat, NEW b \in Nat
  PROVE  a * b \in Nat
OBVIOUS

LEMMA TimesMonotone ==
  ASSUME NEW a \in Nat, NEW b \in Nat, NEW n \in Nat, a <= b
  PROVE  a * n <= b * n
<1>1. (b - a) * n \in Nat
  <2>1. b - a \in Nat
    OBVIOUS
  <2> QED
    BY <2>1, TimesNat
<1>2. (b - a) * n = b * n - a * n
  OBVIOUS
<1>3. a * n \in Nat /\ b * n \in Nat
  BY TimesNat
<1> QED
  BY <1>1, <1>2, <1>3

\* What is at which index of two lists joined.
LEMMA ConcatFacts ==
  ASSUME NEW V, NEW r \in Seq(V), NEW s \in Seq(V)
  PROVE  /\ DOMAIN r = 1 .. Len(r) /\ DOMAIN (r \o s) = 1 .. Len(r) + Len(s)
         /\ \A x \in 1 .. Len(r) : (r \o s)[x] = r[x]
         /\ \A x \in 1 .. Len(s) : (r \o s)[Len(r) + x] = s[x]
<1>1. Len(r) \in Nat /\ Len(s) \in Nat /\ DOMAIN r = 1 .. Len(r)
  BY LenProperties
<1>2. r \o s \in Seq(V) /\ Len(r \o s) = Len(r) + Len(s)
  BY ConcatProperties
<1>3. DOMAIN (r \o s) = 1 .. Len(r) + Len(s)
  BY <1>2, LenProperties
<1>4. \A x \in 1 .. Len(r) + Len(s) :
        (r \o s)[x] = IF x <= Len(r) THEN r[x] ELSE s[x - Len(r)]
  BY ConcatProperties
<1>5. ASSUME NEW x \in 1 .. Len(s) PROVE (r \o s)[Len(r) + x] = s[x]
  <2>1. Len(r) + x \in 1 .. Len(r) + Len(s) /\ ~ (Len(r) + x <= Len(r)) /\ (Len(r) + x) - Len(r) = x
    BY <1>1
  <2> QED
    BY <1>4, <2>1
<1>6. ASSUME NEW x \in 1 .. Len(r) PROVE (r \o s)[x] = r[x]
  BY <1>1, <1>4
<1> QED
  BY <1>1, <1>3, <1>5, <1>6

\* Entries of num generators with up to len each fill num * len places.
LEMMA StrideBound ==
  ASSUME NEW num \in Nat, NEW len \in Nat, NEW i \in 1 .. num, NEW j \in 1 .. len
  PROVE  Stride(i, j, num) \in 0 .. num * len - 1
<1>1. (j - 1) * num <= (len - 1) * num
  BY TimesMonotone
<1>2. (len - 1) * num = num * len - num
  OBVIOUS
<1>3. (j - 1) * num \in Nat /\ num * len \in Nat
  BY TimesNat
<1> QED
  BY <1>1, <1>2, <1>3 DEF Stride

\* Two entries at the same place are the same entry.
LEMMA StrideInjective ==
  ASSUME NEW num \in Nat, NEW i \in 1 .. num, NEW m \in 1 .. num,
         NEW j \in Nat \ {0}, NEW n \in Nat \ {0},
         Stride(i, j, num) = Stride(m, n, num)
  PROVE  i = m /\ j = n
<1>1. ASSUME NEW a \in 1 .. num, NEW b \in 1 .. num,
             NEW p \in Nat \ {0}, NEW q \in Nat \ {0}, p < q
      PROVE  Stride(a, p, num) < Stride(b, q, num)
  <2>1. ((p - 1) + 1) * num <= (q - 1) * num
    BY <1>1, TimesMonotone
  <2>2. ((p - 1) + 1) * num = (p - 1) * num + num
    OBVIOUS
  <2>3. (p - 1) * num \in Nat /\ (q - 1) * num \in Nat
    BY TimesNat
  <2> QED
    BY <2>1, <2>2, <2>3 DEF Stride
<1>2. Stride(i, j, num) \in Int
  <2>1. (j - 1) * num \in Nat
    BY TimesNat
  <2> QED
    BY <2>1 DEF Stride
<1>3. j = n
  BY <1>1, <1>2
<1>4. (j - 1) * num \in Nat
  BY TimesNat
<1> QED
  BY <1>3, <1>4 DEF Stride

\* A place gives its entry back.
LEMMA StrideInverse ==
  ASSUME NEW num \in Nat, NEW i \in 1 .. num, NEW j \in Nat \ {0}
  PROVE  /\ (Stride(i, j, num) % num) + 1 = i
         /\ (Stride(i, j, num) \div num) + 1 = j
<1> DEFINE x == Stride(i, j, num)
           q == x \div num
           r == x % num
<1>1. (j - 1) * num \in Nat
  BY TimesNat
<1>2. x \in Nat /\ num \in Nat \ {0}
  BY <1>1 DEF Stride
<1> HIDE DEF x
<1>3. x = num * q + r /\ q \in Int /\ r \in 0 .. num - 1
  BY <1>2
<1>4. q \in Nat
  <2> SUFFICES ASSUME q <= -1 PROVE FALSE
    BY <1>3
  <2>1. (-1 - q) * num \in Nat
    <3>1. -1 - q \in Nat
      BY <1>3
    <3> QED
      BY <3>1, TimesNat
  <2>2. (-1 - q) * num = -num - num * q
    BY <1>3
  <2>3. num * q \in Int
    BY <1>3
  <2> HIDE DEF q, r
  <2> QED
    BY <1>2, <1>3, <2>1, <2>2, <2>3
<1>5. x = Stride(r + 1, q + 1, num)
  <2>1. (q + 1) - 1 = q /\ (r + 1) - 1 = r /\ q * num = num * q /\ num * q \in Nat
    BY <1>3, <1>4
  <2> HIDE DEF q, r
  <2> QED
    BY <1>3, <2>1 DEF Stride
<1>6. r + 1 \in 1 .. num /\ q + 1 \in Nat \ {0}
  BY <1>2, <1>3, <1>4
<1> HIDE DEF q, r
<1>7. Stride(i, j, num) = Stride(r + 1, q + 1, num)
  BY <1>5 DEF x
<1>8. i = r + 1 /\ j = q + 1
  BY <1>6, <1>7, StrideInjective
<1> QED
  BY <1>8 DEF q, r, x

\* A bounded set of numbers has a greatest one.
LEMMA MaxBounded ==
  ASSUME NEW S \in SUBSET Nat, S # {}, NEW b \in Nat, \A x \in S : x <= b
  PROVE  Max(S) \in S /\ \A x \in S : x <= Max(S)
<1> DEFINE T == {b - x : x \in S}
<1>1. T \in SUBSET Nat /\ T # {}
  OBVIOUS
<1>2. \A x \in S : b - x \in T
  OBVIOUS
<1>3. \A d \in T : \E x \in S : d = b - x
  OBVIOUS
<1> HIDE DEF T
<1>4. PICK d \in T : \A e \in T : d <= e
  BY <1>1, LeastNat
<1>5. PICK x \in S : d = b - x
  BY <1>3
<1>6. \A y \in S : x >= y
  BY <1>2, <1>4, <1>5
<1>7. \E z \in S : \A y \in S : z >= y
  BY <1>6
<1>8. Max(S) \in S /\ \A y \in S : Max(S) >= y
  BY <1>7, Zenon DEF Max
<1> QED
  BY <1>8

\* The lengths of the lists along a sequence are bounded, so that Longest is.
LEMMA LongestBounds ==
  ASSUME NEW X, NEW lists \in [Generator -> Seq(X)], NEW order \in Seq(Generator),
         order # <<>>
  PROVE  /\ Longest(lists, Elems(order)) \in Nat
         /\ \A i \in DOMAIN order : Len(lists[order[i]]) <= Longest(lists, Elems(order))
<1> DEFINE L(i) == Len(lists[order[i]])
           n == Len(order)
           S == {m \in 0 .. n : \E b \in Nat : \A i \in 1 .. m : L(i) <= b}
<1>1. n \in Nat /\ DOMAIN order = 1 .. n /\ n # 0
  BY EmptySeq, LenProperties
<1>2. \A i \in 1 .. n : order[i] \in Generator /\ L(i) \in Nat
  BY <1>1
<1> HIDE DEF L
<1>3. 0 \in S
  <2>1. \A i \in 1 .. 0 : L(i) <= 0
    OBVIOUS
  <2> QED
    BY <1>1, <2>1
<1>4. ASSUME NEW m \in 0 .. n - 1, m \in S PROVE m + 1 \in S
  <2>1. PICK b \in Nat : \A i \in 1 .. m : L(i) <= b
    BY <1>4
  <2>2. m + 1 \in 1 .. n /\ L(m + 1) \in Nat
    BY <1>1, <1>2
  <2>3. b + L(m + 1) \in Nat /\ \A i \in 1 .. m + 1 : L(i) <= b + L(m + 1)
    <3>1. \A i \in 1 .. m + 1 : L(i) \in Nat /\ (i \in 1 .. m \/ i = m + 1)
      BY <1>1, <1>2, <2>2
    <3> QED
      BY <2>1, <2>2, <3>1
  <2> QED
    BY <1>1, <2>2, <2>3
<1> HIDE DEF S, n
<1>5. n \in S
  <2>1. \A m \in 0 .. n - 1 : m \in S => m + 1 \in S
    BY <1>4
  <2>2. 0 .. n \subseteq S
    BY <1>1, <1>3, <2>1, UpTo
  <2> QED
    BY <1>1, <2>2
<1>6. PICK b \in Nat : \A i \in 1 .. n : L(i) <= b
  BY <1>5 DEF S
<1> DEFINE T == {Len(lists[g]) : g \in Elems(order)}
<1>7. T = {L(i) : i \in 1 .. n}
  BY <1>1 DEF L, Elems
<1> HIDE DEF T
<1>8. T \in SUBSET Nat /\ T # {} /\ (\A x \in T : x <= b) /\ \A i \in 1 .. n : L(i) \in T
  <2>1. \A i \in 1 .. n : L(i) \in T
    BY <1>7
  <2>2. \A x \in T : \E i \in 1 .. n : x = L(i)
    BY <1>7
  <2>3. 1 \in 1 .. n
    BY <1>1
  <2> QED
    BY <1>2, <1>6, <2>1, <2>2, <2>3
<1>9. Max(T) \in T /\ \A x \in T : x <= Max(T)
  BY <1>8, MaxBounded
<1>10. Max(T) \in Nat /\ \A i \in 1 .. n : L(i) <= Max(T)
  BY <1>8, <1>9
<1> QED
  BY <1>1, <1>10 DEF Longest, T, L

\* An order of a set of generators runs through the set, each element once.
LEMMA OrderFacts ==
  ASSUME NEW S \in SUBSET Generator, S # {}, NEW order \in SetToSeqs(S)
  PROVE  /\ order \in Seq(Generator) /\ order # <<>>
         /\ \A i, j \in DOMAIN order : order[i] = order[j] => i = j
         /\ Elems(order) = S
<1> DEFINE n == Cardinality(S)
<1>1. IsFiniteSet(S)
  BY FinitelyMany, FS_Subset
<1>2. n \in Nat /\ n # 0
  BY <1>1, FS_CardinalityType, FS_EmptySet
<1>3. order \in [1 .. n -> S] /\ \A i, j \in 1 .. n : i # j => order[i] # order[j]
  BY DEF SetToSeqs
<1> HIDE DEF n
<1>4. order \in Seq(Generator)
  BY <1>2, <1>3, SeqDef
<1>5. DOMAIN order = 1 .. n /\ 1 \in 1 .. n
  BY <1>2, <1>3
<1>6. order # <<>>
  BY <1>2, <1>4, <1>5, EmptySeq, LenProperties
<1>7. Cardinality(1 .. n) = n
  BY <1>2, FS_Interval
<1>8. order \in Injection(1 .. n, S)
  BY <1>3, <1>5 DEF Injection, IsInjective
<1>9. order \in Surjection(1 .. n, S)
  BY <1>1, <1>7, <1>8, FS_Injection DEF n
<1>10. \A g \in S : \E i \in 1 .. n : order[i] = g
  BY <1>9 DEF Surjection
<1>11. Elems(order) = S
  BY <1>3, <1>5, <1>10 DEF Elems
<1> QED
  BY <1>3, <1>4, <1>5, <1>6, <1>11

-----------------------------------------------------------------------------
(***************************************************************************)
(* The producer pass.                                                      *)
(***************************************************************************)
LEMMA FrontierInit == ReplayInit => FrontierInv
<1> SUFFICES ASSUME ReplayInit PROVE FrontierInv
  OBVIOUS
<1>1. TypeOK /\ Init
  BY InitInv DEF ReplayInit
<1>2. \A t \in Target : producer[t] = IF t \in Inputs THEN InputSource ELSE NoSource
  BY <1>1 DEF Init
<1>3. Produced = Inputs
  BY <1>1, <1>2, ListsTyped DEF Produced, InputSource, NoSource
<1>4. circuit \in Circuits /\ phase = "produce" /\ cur = {g \in Generator : Watched(g) \subseteq Inputs}
  BY <1>1 DEF Init
<1>5. \A t \in Target : producer[t] = InputSource <=> t \in Inputs
  BY <1>2 DEF InputSource, NoSource
<1>6. \A g \in Generator, t \in Target : producer[t] # By(g)
  BY <1>2 DEF InputSource, NoSource, By
<1> QED
  BY <1>3, <1>4, <1>5, <1>6 DEF FrontierInv

LEMMA FrontierNext ==
  TypeOK /\ ProduceInv /\ FrontierInv /\ [Next]_vars => FrontierInv'
<1> SUFFICES ASSUME TypeOK, ProduceInv, FrontierInv, [Next]_vars PROVE FrontierInv'
  OBVIOUS
<1>1. CASE \E g \in Generator : VisitGenerator(g)
  <2>1. PICK g \in Generator : VisitGenerator(g)
    BY <1>1
  <2> DEFINE new == {t \in Outputs(g) : producer[t] = NoSource}
             woken == {h \in Generator : /\ Watched(h) \subseteq Produced \cup new
                                         /\ ~ (Watched(h) \subseteq Produced)}
  <2>2. /\ phase = "produce" /\ phase' = "produce" /\ g \in cur /\ circuit' = circuit
        /\ producer' = [t \in Target |-> IF t \in new THEN By(g) ELSE producer[t]]
        /\ cur' = cur \ {g} /\ next' = next \cup woken
    BY <2>1 DEF VisitGenerator
  <2>3. /\ \A h \in Generator : Watched(h)' = Watched(h) /\ Outputs(h)' = Outputs(h)
        /\ Inputs' = Inputs
    BY <2>2 DEF Watched, Outputs, Inputs
  <2>4. /\ new \subseteq Target /\ new \subseteq Outputs(g)
        /\ \A t \in new : producer[t] = NoSource
        /\ \A t \in Outputs(g) : t \in new \/ t \in Produced
    BY ListsTyped DEF Produced
  <2>5. Watched(g) \subseteq Produced
    BY <2>2 DEF ProduceInv
  <2>6. \A t \in new : t \notin Watched(g)
    BY <2>4, <2>5 DEF Produced
  <2>7. \A h \in Generator : Watched(h) \subseteq Produced \cup new /\ ~ (Watched(h) \subseteq Produced)
                                => h \in next'
    BY <2>2
  <2> HIDE DEF new, woken
  <2>8. \A t \in Target : producer'[t] = IF t \in new THEN By(g) ELSE producer[t]
    BY <2>2
  <2>9. Produced' = Produced \cup new
    BY <2>4, <2>8 DEF Produced, NoSource, By
  <2>10. \A t \in Target : producer'[t] = InputSource <=> t \in Inputs'
    BY <2>3, <2>4, <2>8 DEF FrontierInv, InputSource, NoSource, By
  <2>11. ASSUME NEW h \in Generator, NEW t \in Target, producer'[t] = By(h)
         PROVE  t \in Outputs(h) /\ t \notin Watched(h)
    <3>1. CASE t \in new
      <4>1. h = g
        BY <2>8, <2>11, <3>1 DEF By
      <4> QED
        BY <2>4, <2>6, <3>1, <4>1
    <3>2. CASE t \notin new
      BY <2>8, <2>11, <3>2 DEF FrontierInv
    <3> QED
      BY <3>1, <3>2
  <2>12. ASSUME NEW h \in Generator, Watched(h) \subseteq Produced'
         PROVE  Outputs(h) \subseteq Produced' \/ h \in (cur \cup next)'
    <3>1. CASE h = g
      BY <2>4, <2>9, <3>1
    <3>2. CASE h # g /\ Watched(h) \subseteq Produced
      BY <2>2, <2>9, <3>2 DEF FrontierInv
    <3>3. CASE ~ (Watched(h) \subseteq Produced)
      BY <2>7, <2>9, <2>12, <3>3
    <3> QED
      BY <3>1, <3>2, <3>3
  <2>13. circuit' \in Circuits
    BY <2>2 DEF FrontierInv
  <2> QED
    BY <2>2, <2>3, <2>10, <2>11, <2>12, <2>13 DEF FrontierInv
<1>2. CASE /\ circuit' = circuit /\ producer' = producer
           /\ \/ phase # "produce"
              \/ phase' = "produce" /\ (cur \cup next)' = cur \cup next
              \/ cur = {} /\ next = {}
  <2>1. /\ \A h \in Generator : Watched(h)' = Watched(h) /\ Outputs(h)' = Outputs(h)
        /\ Inputs' = Inputs /\ Produced' = Produced
    BY <1>2 DEF Watched, Outputs, Inputs, Produced
  <2>2. \A h \in Generator : Watched(h) \subseteq Produced =>
          Outputs(h) \subseteq Produced \/ (phase' = "produce" /\ h \in (cur \cup next)')
    BY <1>2 DEF FrontierInv
  <2> QED
    BY <1>2, <2>1, <2>2 DEF FrontierInv
<1> QED
  BY <1>1, <1>2 DEF Next, Sort, Sorted, vars, SwapFrontier, StartAsap, AsapPop, StartAlap,
     AlapPop, PlaceAllAsap, PlaceAllAlap, PlaceChainFast, PlaceCritical, FillType,
     FillNextLevel, FillEnd, PlaceLeftover, Finish, Passed

\* After a finished sort every watched target is an input or is written on an
\* earlier level, the targets with a producer are the inputs and all outputs, and
\* no level is empty.
ScheduleSound ==
  /\ max_level \in Nat
  /\ \A g \in Generator :
       /\ scheduled[g] \in 0 .. max_level
       /\ \A t \in Watched(g) :
            t \in Inputs \/ \E p \in Generator : t \in Outputs(p) /\ scheduled[p] < scheduled[g]
  /\ \A t \in Target :
       t \in Produced <=> t \in Inputs \/ \E g \in Generator : t \in Outputs(g)
  /\ \A l \in 0 .. max_level : \E g \in Generator : scheduled[g] = l

LEMMA SchedulesSound ==
  ASSUME TypeOK, ScheduleLegal, LayersPopulated, FrontierInv, phase = "done"
  PROVE  ScheduleSound
<1>1. \A g \in Generator : Watched(g) \subseteq Produced => Outputs(g) \subseteq Produced
  BY DEF FrontierInv
<1>2. Inputs \subseteq Produced
  BY ListsTyped DEF FrontierInv, Produced, InputSource, NoSource
<1>3. \A g \in Generator : Watched(g) \subseteq Produced
  <2>1. circuit \in Circuits /\ Produced \in SUBSET Target
    BY DEF FrontierInv, Produced
  <2> HIDE DEF Produced
  <2> QED
    BY <1>1, <1>2, <2>1, CircuitsRunnable DEF Watched, Outputs, Inputs
<1>4. \A t \in Target : t \in Produced =>
        t \in Inputs \/ \E g \in Generator : producer[t] = By(g)
  <2>1. producer \in [Target -> Source]
    BY DEF TypeOK
  <2>2. \A t \in Target : producer[t] # NoSource =>
          producer[t] = InputSource \/ \E g \in Generator : producer[t] = By(g)
    BY <2>1 DEF Source, NoSource, InputSource, By
  <2> QED
    BY <2>2 DEF Produced, FrontierInv
<1>5. \A g \in Generator, t \in Target :
        producer[t] = By(g) => t \in Outputs(g) /\ t \notin Watched(g)
  BY DEF FrontierInv
<1>6. ASSUME NEW g \in Generator, NEW t \in Watched(g), t \notin Inputs
      PROVE  \E p \in Generator : t \in Outputs(p) /\ scheduled[p] < scheduled[g]
  <2>1. t \in Target /\ t \in Produced
    BY <1>3, ListsTyped
  <2>2. PICK p \in Generator : producer[t] = By(p)
    BY <1>4, <1>6, <2>1
  <2>3. p # g /\ t \in Outputs(p)
    BY <1>5, <2>1, <2>2
  <2>4. p \in Pred(g)
    BY <2>2, <2>3 DEF Pred
  <2> QED
    BY <2>3, <2>4 DEF ScheduleLegal
<1>7. \A t \in Target :
        t \in Produced <=> t \in Inputs \/ \E g \in Generator : t \in Outputs(g)
  BY <1>1, <1>2, <1>3, <1>4, <1>5
<1>8. max_level \in Nat
  BY DEF TypeOK
<1> QED
  BY <1>6, <1>7, <1>8 DEF ScheduleSound, ScheduleLegal, LayersPopulated

-----------------------------------------------------------------------------
(***************************************************************************)
(* The layout of one batch.                                                *)
(***************************************************************************)
LEMMA CircuitTypes ==
  ASSUME TypeOK
  PROVE  /\ circuit.watch_list \in [Generator -> Seq(Target)]
         /\ circuit.output_targets \in [Generator -> Seq(Target)]
         /\ circuit.id \in [Generator -> Type]
         /\ circuit.input_targets \in Seq(Target)
         /\ NumInputs \in Nat /\ DOMAIN circuit.input_targets = 1 .. NumInputs
<1>1. /\ circuit.watch_list \in [Generator -> Seq(Target)]
      /\ circuit.output_targets \in [Generator -> Seq(Target)]
      /\ circuit.id \in [Generator -> Type]
      /\ circuit.input_targets \in Seq(Target)
  BY DEF TypeOK, Circuit
<1> QED
  BY <1>1, LenProperties DEF NumInputs

\* The places where a target is written, and the first of them.
LEMMA WritesFacts ==
  ASSUME NEW order, NEW k, NEW t, NEW w
  PROVE  w \in Writes(order, k, t) <=>
           \E i \in 1 .. k : \E j \in DOMAIN circuit.output_targets[order[i]] :
             w = <<i, j>> /\ circuit.output_targets[order[i]][j] = t
<1> DEFINE D(i) == DOMAIN circuit.output_targets[order[i]]
<1>1. ASSUME NEW i \in 1 .. k, NEW j \in D(i)
      PROVE  <<i, j>> \in UNION {{n} \X D(n) : n \in 1 .. k}
  <2>1. <<i, j>> \in {i} \X D(i)
    OBVIOUS
  <2> QED
    BY <2>1
<1>2. ASSUME w \in UNION {{n} \X D(n) : n \in 1 .. k}
      PROVE  \E i \in 1 .. k : \E j \in D(i) : w = <<i, j>>
  <2>1. PICK i \in 1 .. k : w \in {i} \X D(i)
    BY <1>2
  <2> HIDE DEF D
  <2> QED
    BY <2>1
<1>3. \A i, j : <<i, j>>[1] = i /\ <<i, j>>[2] = j
  OBVIOUS
<1> QED
  BY <1>1, <1>2, <1>3 DEF Writes

LEMMA FirstWriteFacts ==
  ASSUME TypeOK, NEW order \in Seq(Generator), NEW k \in 0 .. Len(order), NEW t,
         Writes(order, k, t) # {}
  PROVE  FirstWrite(order, k, t) \in Writes(order, k, t)
<1> DEFINE W == Writes(order, k, t)
<1>1. ASSUME NEW w \in W
      PROVE  w[1] \in Nat /\ w[2] \in Nat /\ w = <<w[1], w[2]>>
  <2>1. PICK i \in 1 .. k : \E j \in DOMAIN circuit.output_targets[order[i]] :
             w = <<i, j>> /\ circuit.output_targets[order[i]][j] = t
    BY WritesFacts
  <2>2. PICK j \in DOMAIN circuit.output_targets[order[i]] : w = <<i, j>>
    BY <2>1
  <2>3. circuit.output_targets[order[i]] \in Seq(Target)
    <3>1. order[i] \in Generator
      OBVIOUS
    <3> QED
      BY <3>1, CircuitTypes
  <2>4. j \in Nat
    BY <2>3
  <2> QED
    BY <2>2, <2>4
<1> HIDE DEF W
<1> DEFINE I == {w[1] : w \in W}
<1>2. I \in SUBSET Nat /\ I # {}
  BY <1>1 DEF W
<1>3. PICK i \in I : \A m \in I : i <= m
  <2> HIDE DEF I
  <2> QED
    BY <1>2, LeastNat
<1> DEFINE J == {w[2] : w \in {x \in W : x[1] = i}}
<1>4. J \in SUBSET Nat /\ J # {}
  BY <1>1, <1>3
<1>5. PICK j \in J : \A m \in J : j <= m
  <2> HIDE DEF J
  <2> QED
    BY <1>4, LeastNat
<1>6. PICK w \in W : w[1] = i /\ w[2] = j
  BY <1>5
<1>7. ASSUME NEW x \in W PROVE w[1] < x[1] \/ (w[1] = x[1] /\ w[2] <= x[2])
  <2>1. i <= x[1] /\ x[1] \in Nat /\ i \in Nat
    BY <1>1, <1>2, <1>3
  <2>2. x[1] = i => j <= x[2]
    BY <1>5
  <2> QED
    BY <1>6, <2>1, <2>2
<1>8. \E z \in W : \A x \in W : z[1] < x[1] \/ (z[1] = x[1] /\ z[2] <= x[2])
  BY <1>7
<1>9. FirstWrite(order, k, t) \in W
  BY <1>8, Zenon DEF FirstWrite, W
<1> QED
  BY <1>9 DEF W

\* A target keeps the slot it has; one without gets the slot of a generator
\* among the first k that writes it, if there is one.
LEMMA SlotsAfterFacts ==
  ASSUME TypeOK, LayoutTypes, NEW order \in Seq(Generator), NEW k \in 0 .. Len(order)
  PROVE  /\ SlotsAfter(order, k) \in [Target -> Nat \cup {NoSlot}]
         /\ \A t \in Target :
              /\ write_map[t] # NoSlot => SlotsAfter(order, k)[t] = write_map[t]
              /\ (\A i \in 1 .. k : t \notin Outputs(order[i])) =>
                   SlotsAfter(order, k)[t] = write_map[t]
              /\ write_map[t] = NoSlot /\ (\E i \in 1 .. k : t \in Outputs(order[i])) =>
                   \E i \in 1 .. k : \E j \in DOMAIN circuit.output_targets[order[i]] :
                     /\ circuit.output_targets[order[i]][j] = t
                     /\ SlotsAfter(order, k)[t] = write_start + Stride(i, j, Len(order))
                     /\ SlotsAfter(order, k)[t] # NoSlot
<1> DEFINE F(t) == IF write_map[t] = NoSlot /\ Writes(order, k, t) # {}
                     THEN LET w == FirstWrite(order, k, t)
                          IN  write_start + Stride(w[1], w[2], Len(order))
                     ELSE write_map[t]
<1>1. SlotsAfter(order, k) = [t \in Target |-> F(t)]
  BY DEF SlotsAfter
<1>2. \A t \in Target : write_map[t] \in Nat \cup {NoSlot}
  BY DEF LayoutTypes
<1>3. ASSUME NEW t \in Target, write_map[t] = NoSlot, Writes(order, k, t) # {}
      PROVE  \E i \in 1 .. k : \E j \in DOMAIN circuit.output_targets[order[i]] :
                     /\ circuit.output_targets[order[i]][j] = t
                     /\ F(t) = write_start + Stride(i, j, Len(order))
                     /\ F(t) \in Nat
  <2> DEFINE w == FirstWrite(order, k, t)
  <2>1. w \in Writes(order, k, t)
    BY <1>3, FirstWriteFacts
  <2> HIDE DEF w
  <2>2. PICK i \in 1 .. k : \E j \in DOMAIN circuit.output_targets[order[i]] :
          w = <<i, j>> /\ circuit.output_targets[order[i]][j] = t
    BY <2>1, WritesFacts
  <2>3. PICK j \in DOMAIN circuit.output_targets[order[i]] :
          w = <<i, j>> /\ circuit.output_targets[order[i]][j] = t
    BY <2>2
  <2>4. F(t) = write_start + Stride(i, j, Len(order))
    <3>1. w[1] = i /\ w[2] = j
      BY <2>3
    <3>2. F(t) = write_start + Stride(w[1], w[2], Len(order))
      BY <1>3 DEF w
    <3> QED
      BY <3>1, <3>2
  <2>5. i \in Nat \ {0} /\ j \in Nat \ {0} /\ Len(order) \in Nat /\ write_start \in Nat
    <3>1. order[i] \in Generator
      OBVIOUS
    <3>2. circuit.output_targets[order[i]] \in Seq(Target)
      BY <3>1, CircuitTypes
    <3> QED
      BY <3>2 DEF LayoutTypes
  <2>6. Stride(i, j, Len(order)) \in Nat
    <3>1. (j - 1) * Len(order) \in Nat
      <4>1. j - 1 \in Nat
        BY <2>5
      <4> QED
        BY <2>5, <4>1, TimesNat
    <3> QED
      BY <2>5, <3>1 DEF Stride
  <2> QED
    BY <2>3, <2>4, <2>5, <2>6
<1>4. \A t \in Target : F(t) \in Nat \cup {NoSlot}
  <2> SUFFICES ASSUME NEW t \in Target PROVE F(t) \in Nat \cup {NoSlot}
    OBVIOUS
  <2>1. CASE write_map[t] = NoSlot /\ Writes(order, k, t) # {}
    BY <1>3, <2>1
  <2>2. CASE ~ (write_map[t] = NoSlot /\ Writes(order, k, t) # {})
    BY <1>2, <2>2
  <2> QED
    BY <2>1, <2>2
<1>5. ASSUME NEW t \in Target
      PROVE  Writes(order, k, t) # {} <=> \E i \in 1 .. k : t \in Outputs(order[i])
  <2>1. \A i : t \in Outputs(order[i]) <=>
          \E j \in DOMAIN circuit.output_targets[order[i]] : circuit.output_targets[order[i]][j] = t
    BY DEF Outputs, Elems
  <2>2. \A w : w \in Writes(order, k, t) <=>
          \E i \in 1 .. k : \E j \in DOMAIN circuit.output_targets[order[i]] :
            w = <<i, j>> /\ circuit.output_targets[order[i]][j] = t
    BY WritesFacts
  <2>3. ASSUME NEW w \in Writes(order, k, t) PROVE \E i \in 1 .. k : t \in Outputs(order[i])
    BY <2>1, <2>2, Zenon
  <2>4. ASSUME NEW i \in 1 .. k, t \in Outputs(order[i]) PROVE Writes(order, k, t) # {}
    <3>1. PICK j \in DOMAIN circuit.output_targets[order[i]] : circuit.output_targets[order[i]][j] = t
      BY <2>1, <2>4
    <3>2. <<i, j>> \in Writes(order, k, t)
      BY <2>2, <3>1, Zenon
    <3> QED
      BY <3>2
  <2> QED
    BY <2>3, <2>4
<1>6. \A t \in Target : ~ (write_map[t] = NoSlot /\ Writes(order, k, t) # {}) => F(t) = write_map[t]
  OBVIOUS
<1>7. NoSlot \notin Nat
  BY DEF NoSlot
<1> HIDE DEF F
<1>8. \A t \in Target : SlotsAfter(order, k)[t] = F(t)
  BY <1>1
<1>9. SlotsAfter(order, k) \in [Target -> Nat \cup {NoSlot}]
  BY <1>1, <1>4
<1>10. ASSUME NEW t \in Target
       PROVE  /\ write_map[t] # NoSlot => F(t) = write_map[t]
              /\ (\A i \in 1 .. k : t \notin Outputs(order[i])) => F(t) = write_map[t]
  BY <1>5, <1>6
<1>11. ASSUME NEW t \in Target, write_map[t] = NoSlot, \E i \in 1 .. k : t \in Outputs(order[i])
       PROVE  \E i \in 1 .. k : \E j \in DOMAIN circuit.output_targets[order[i]] :
                /\ circuit.output_targets[order[i]][j] = t
                /\ F(t) = write_start + Stride(i, j, Len(order))
                /\ F(t) # NoSlot
  <2>1. Writes(order, k, t) # {}
    BY <1>5, <1>11
  <2> QED
    BY <1>3, <1>7, <1>11, <2>1
<1> QED
  BY <1>8, <1>9, <1>10, <1>11, Zenon

-----------------------------------------------------------------------------
(***************************************************************************)
(* The invariant holds at the start, and through the sort.                 *)
(***************************************************************************)
\* What the layout says is about the circuit, the schedule and the layout.
LayoutInv == LayoutTypes /\ BatchesInv /\ SlotsApart /\ MapInv /\ ReadsInv

LEMMA LayoutStable ==
  ASSUME LayoutInv, UNCHANGED <<vars, layout>>
  PROVE  LayoutInv'
<1>1. UNCHANGED <<circuit, phase, scheduled>>
  BY DEF vars
<1>2. UNCHANGED <<lay, todo, batches, write_start, read_start, write_map, read_map>>
  BY DEF layout
<1>3. (\A g : Laid(g)' <=> Laid(g)) /\ NumInputs' = NumInputs /\ Inputs' = Inputs
      /\ \A g : Outputs(g)' = Outputs(g)
  BY <1>1, <1>2 DEF Laid, NumInputs, Inputs, Outputs
<1>4. /\ \A k, i : (InBatch(k, i)' <=> InBatch(k, i)) /\ Gen(k, i)' = Gen(k, i)
      /\ \A k, i, j : /\ HasOutput(k, i, j)' <=> HasOutput(k, i, j)
                      /\ HasInput(k, i, j)' <=> HasInput(k, i, j)
                      /\ Output(k, i, j)' = Output(k, i, j)
                      /\ Input(k, i, j)' = Input(k, i, j)
                      /\ WriteSlot(k, i, j)' = WriteSlot(k, i, j)
                      /\ ReadSlot(k, i, j)' = ReadSlot(k, i, j)
  BY <1>1, <1>2 DEF InBatch, Gen, HasOutput, HasInput, Output, Input, WriteSlot, ReadSlot
<1>5. LayoutTypes'
  BY <1>2, <1>3 DEF LayoutInv, LayoutTypes, Batch
<1>6. LayerTypes(scheduled, lay)' = LayerTypes(scheduled, lay)
  BY <1>1, <1>2 DEF LayerTypes
<1>7. BatchesInv'
  BY <1>1, <1>2, <1>3, <1>4, <1>6 DEF LayoutInv, BatchesInv
<1>8. SlotsApart'
  BY <1>2, <1>3, <1>4 DEF LayoutInv, SlotsApart
<1>9. \A t : Home(t)' <=> Home(t)
  BY <1>1, <1>2, <1>3, <1>4 DEF Home
<1>10. MapInv'
  BY <1>2, <1>3, <1>9 DEF LayoutInv, MapInv
<1>11. ReadsInv'
  BY <1>2, <1>4 DEF LayoutInv, ReadsInv
<1> QED
  BY <1>5, <1>7, <1>8, <1>10, <1>11 DEF LayoutInv

\* Before the first batch there is nothing to say of batches.
LEMMA NothingLaid ==
  ASSUME batches = <<>>
  PROVE  SlotsApart /\ ReadsInv /\ \A k, i : ~ InBatch(k, i)
<1>1. \A k, i : ~ InBatch(k, i)
  BY DEF InBatch
<1> QED
  BY <1>1 DEF SlotsApart, ReadsInv, HasOutput, HasInput

LEMMA ReplayInitInv == ReplayInit => ReplayInv
<1> SUFFICES ASSUME ReplayInit PROVE ReplayInv
  OBVIOUS
<1>1. TypeOK /\ SortInv /\ ProduceInv /\ FrontierInv
  BY InitInv, ProduceInvInit, FrontierInit DEF ReplayInit
<1>2. phase = "produce" /\ batches = <<>> /\ lay = 0
  BY DEF ReplayInit, Init
<1>3. circuit.input_targets \in Seq(Target) /\ NumInputs \in Nat
      /\ DOMAIN circuit.input_targets = 1 .. NumInputs
  BY <1>1, CircuitTypes
<1> DEFINE P(t) == {i \in DOMAIN circuit.input_targets : circuit.input_targets[i] = t}
<1>4. ASSUME NEW t \in Inputs
      PROVE  Max(P(t)) \in 1 .. NumInputs /\ circuit.input_targets[Max(P(t))] = t
  <2>1. P(t) \in SUBSET Nat /\ P(t) # {} /\ \A i \in P(t) : i <= NumInputs
    BY <1>3 DEF Inputs, Elems
  <2>2. Max(P(t)) \in P(t)
    <3> HIDE DEF P
    <3> QED
      BY <1>3, <2>1, MaxBounded
  <2> QED
    BY <1>3, <2>2
<1> HIDE DEF P
<1>5. write_map = [t \in Target |-> IF t \in Inputs THEN Max(P(t)) - 1 ELSE NoSlot]
  BY DEF ReplayInit, P
<1>6. \A t \in Target : IF t \in Inputs THEN write_map[t] = Max(P(t)) - 1 /\ write_map[t] \in Nat
                                        ELSE write_map[t] = NoSlot
  BY <1>3, <1>4, <1>5
<1>7. write_map \in [Target -> Nat \cup {NoSlot}]
  BY <1>5, <1>6
<1>8. LayoutTypes
  <2>1. write_start = NumInputs /\ read_start = 0 /\ read_map = <<>> /\ todo = {}
    BY DEF ReplayInit, NumInputs
  <2>2. batches \in Seq(Batch) /\ read_map \in Seq(Nat \cup {NoSlot}) /\ Len(read_map) = 0
    BY <1>2, <2>1
  <2> QED
    BY <1>2, <1>3, <1>7, <2>1, <2>2 DEF LayoutTypes
<1>9. \A g : ~ Laid(g)
  BY <1>2 DEF Laid
<1>10. SlotsApart /\ ReadsInv /\ \A k, i : ~ InBatch(k, i)
  BY <1>2, NothingLaid
<1>11. BatchesInv
  <2>1. \A k \in DOMAIN batches : FALSE
    BY <1>2
  <2> QED
    BY <1>2, <1>9, <1>10, <2>1 DEF BatchesInv
<1>12. MapInv
  <2> SUFFICES ASSUME NEW t \in Target
               PROVE  (write_map[t] # NoSlot <=> t \in Inputs) /\ (t \in Inputs => Home(t))
    BY <1>9 DEF MapInv
  <2>1. write_map[t] # NoSlot <=> t \in Inputs
    BY <1>6 DEF NoSlot
  <2>2. ASSUME t \in Inputs PROVE Home(t)
    BY <1>3, <1>4, <1>6, <2>2 DEF Home
  <2> QED
    BY <2>1, <2>2
<1>13. WitnessInv
  BY DEF ReplayInit, WitnessInv
<1> QED
  BY <1>1, <1>8, <1>10, <1>11, <1>12, <1>13 DEF ReplayInv

LEMMA SortFacts == Sort => phase # "done" /\ circuit' = circuit
BY DEF Sort, VisitGenerator, SwapFrontier, StartAsap, AsapPop, StartAlap, AlapPop, PlaceAllAsap,
   PlaceAllAlap, PlaceChainFast, PlaceCritical, FillType, FillNextLevel, FillEnd,
   PlaceLeftover, Finish, Passed

\* What the sort has established is kept by every step of build and prove.
LEMMA SortedKept ==
  ASSUME ReplayInv, [ReplayNext]_all
  PROVE  (TypeOK /\ SortInv /\ ProduceInv /\ FrontierInv)'
<1>1. [Next]_vars
  BY DEF ReplayNext, Prove, Scattered, SortStep, Next, LayOutBatch, NextLayer, BuildEnd,
         UploadInputs, RunThread, Scatter, all
<1> QED
  BY <1>1, NextInv, ProduceInvNext, FrontierNext DEF ReplayInv

LEMMA SortStepInv ==
  ASSUME ReplayInv, SortStep, (TypeOK /\ SortInv)'
  PROVE  LayoutInv' /\ WitnessInv'
<1>1. phase # "done" /\ circuit' = circuit
  BY SortFacts DEF SortStep
<1>2. /\ UNCHANGED <<stage, witness, ran, full_witness>>
      /\ UNCHANGED <<lay, batches, write_start, read_start, write_map, read_map>>
      /\ todo' = IF phase' = "done" THEN LayerTypes(scheduled', 0) ELSE {}
      /\ stage = "build"
  BY DEF SortStep, device
<1>3. batches = <<>> /\ lay = 0 /\ \A g : ~ Laid(g)
  BY <1>1 DEF ReplayInv, BatchesInv, Laid
<1>4. NumInputs' = NumInputs /\ Inputs' = Inputs
  BY <1>1 DEF NumInputs, Inputs
<1>5. LayerTypes(scheduled', 0) \subseteq Type /\ LayerTypes(scheduled', 0) = LayerTypes(scheduled, 0)'
  BY <1>1, LayerTypesTyped DEF ReplayInv, LayerTypes
<1>6. LayoutTypes'
  BY <1>2, <1>4, <1>5 DEF ReplayInv, LayoutTypes, Batch
<1>7. (SlotsApart /\ ReadsInv)' /\ \A k, i : ~ InBatch(k, i)'
  <2>1. \A k, i : ~ InBatch(k, i)'
    BY <1>2, <1>3 DEF InBatch
  <2> QED
    BY <2>1 DEF SlotsApart, ReadsInv, HasOutput, HasInput
<1>8. \A g \in Generator : ~ Laid(g)'
  <2> SUFFICES ASSUME NEW g \in Generator, phase' = "done"
               PROVE  ~ (scheduled'[g] < 0) /\ (scheduled'[g] = 0 => circuit'.id[g] \in todo')
    BY <1>2, <1>3 DEF Laid
  <2>1. scheduled'[g] \in Nat
    BY DEF SortInv, PlacedInTime, Waiting, TypeOK
  <2>2. scheduled'[g] = 0 => circuit.id[g] \in todo'
    BY <1>2 DEF LayerTypes
  <2> QED
    BY <1>1, <2>1, <2>2
<1>9. BatchesInv'
  <2>1. (batches = <<>> /\ lay = 0)' /\ \A k \in DOMAIN batches' : FALSE
    BY <1>2, <1>3
  <2>2. phase' = "done" => todo' \subseteq LayerTypes(scheduled, lay)'
    BY <1>1, <1>2, <1>3 DEF LayerTypes
  <2> QED
    BY <1>7, <1>8, <2>1, <2>2 DEF BatchesInv
<1>10. MapInv'
  <2> SUFFICES ASSUME NEW t \in Target
               PROVE  (write_map[t] # NoSlot <=> t \in Inputs) /\ (t \in Inputs => Home(t)')
    BY <1>2, <1>4, <1>8 DEF MapInv
  <2>1. write_map[t] # NoSlot <=> t \in Inputs
    BY <1>3 DEF ReplayInv, MapInv
  <2>2. t \in Inputs => Home(t)
    BY <2>1 DEF ReplayInv, MapInv
  <2> QED
    BY <1>1, <1>2, <1>4, <2>1, <2>2 DEF Home
<1>11. WitnessInv'
  BY <1>2 DEF ReplayInv, WitnessInv
<1> QED
  BY <1>6, <1>7, <1>9, <1>10, <1>11 DEF LayoutInv

-----------------------------------------------------------------------------
(***************************************************************************)
(* One batch more.                                                         *)
(***************************************************************************)
\* A batch is appended: what was in the batches stays, and the new one is last.
LEMMA BatchAppended ==
  ASSUME TypeOK, LayoutTypes, circuit' = circuit,
         NEW b \in Batch, batches' = Append(batches, b), NEW n, n = Len(batches) + 1
  PROVE  /\ n \in Nat /\ n \notin DOMAIN batches /\ DOMAIN batches' = DOMAIN batches \cup {n}
         /\ \A k \in DOMAIN batches : k \in Nat /\ k < n /\ batches'[k] = batches[k]
         /\ batches'[n] = b
         /\ \A k, i : InBatch(k, i) => InBatch(k, i)' /\ Gen(k, i)' = Gen(k, i)
         /\ \A i \in DOMAIN b.order : InBatch(n, i)' /\ Gen(n, i)' = b.order[i]
         /\ \A k, i : InBatch(k, i)' => InBatch(k, i) \/ (k = n /\ i \in DOMAIN b.order)
<1>1. batches \in Seq(Batch) /\ Len(batches) \in Nat /\ DOMAIN batches = 1 .. Len(batches)
  BY LenProperties DEF LayoutTypes
<1>2. /\ n \in Nat /\ DOMAIN batches' = 1 .. n /\ batches'[n] = b
      /\ \A k \in 1 .. Len(batches) : batches'[k] = batches[k]
  BY <1>1, AppendProperties
<1>3. DOMAIN batches' = DOMAIN batches \cup {n} /\ n \notin DOMAIN batches
  BY <1>1, <1>2
<1>4. \A k \in DOMAIN batches : k \in Nat /\ k < n /\ batches'[k] = batches[k] /\ k \in DOMAIN batches'
  BY <1>1, <1>2, <1>3
<1>5. \A k, i : InBatch(k, i) => InBatch(k, i)' /\ Gen(k, i)' = Gen(k, i)
  BY <1>4 DEF InBatch, Gen
<1>6. \A i \in DOMAIN b.order : InBatch(n, i)' /\ Gen(n, i)' = b.order[i]
  BY <1>2, <1>3 DEF InBatch, Gen
<1>7. \A k, i : InBatch(k, i)' => InBatch(k, i) \/ (k = n /\ i \in DOMAIN b.order)
  BY <1>2, <1>3, <1>4 DEF InBatch
<1> QED
  BY <1>2, <1>3, <1>4, <1>5, <1>6, <1>7

\* What a new batch holds, in the state it is laid out in.
LEMMA BatchOfFacts ==
  ASSUME ReplayInv, NEW ty \in Type, NEW order \in SetToSeqs(BatchOf(lay, ty)),
         LayOutBatch(ty, order)
  PROVE  /\ order \in Seq(Generator) /\ order # <<>>
         /\ Len(order) \in Nat /\ DOMAIN order = 1 .. Len(order)
         /\ \A i, j \in DOMAIN order : order[i] = order[j] => i = j
         /\ \A i \in DOMAIN order : /\ order[i] \in Generator /\ scheduled[order[i]] = lay
                                    /\ circuit.id[order[i]] = ty
         /\ \A g \in Generator : scheduled[g] = lay /\ circuit.id[g] = ty =>
                \E i \in DOMAIN order : order[i] = g
<1>1. BatchOf(lay, ty) \in SUBSET Generator
  BY DEF BatchOf
<1>2. BatchOf(lay, ty) # {}
  <2>1. ty \in LayerTypes(scheduled, lay)
    BY DEF ReplayInv, BatchesInv, LayOutBatch
  <2> QED
    BY <2>1 DEF LayerTypes, BatchOf
<1>3. /\ order \in Seq(Generator) /\ order # <<>>
      /\ \A i, j \in DOMAIN order : order[i] = order[j] => i = j
      /\ Elems(order) = BatchOf(lay, ty)
  BY <1>1, <1>2, OrderFacts
<1>4. Len(order) \in Nat /\ DOMAIN order = 1 .. Len(order)
  BY <1>3, LenProperties
<1>5. \A i \in DOMAIN order : order[i] \in BatchOf(lay, ty)
  BY <1>3 DEF Elems
<1>6. \A g \in BatchOf(lay, ty) : \E i \in DOMAIN order : order[i] = g
  BY <1>3 DEF Elems
<1> QED
  BY <1>3, <1>4, <1>5, <1>6 DEF BatchOf

LEMMA BatchTyped ==
  ASSUME LayoutTypes, NEW k \in DOMAIN batches
  PROVE  k \in Nat /\ k >= 1 /\ batches[k].layer \in Nat
<1>1. batches[k] \in Batch /\ k \in Nat /\ k >= 1
  BY DEF LayoutTypes
<1> QED
  BY <1>1 DEF Batch

\* What the batches hold are generators.
LEMMA GenTyped ==
  ASSUME LayoutTypes, NEW k, NEW i, InBatch(k, i)
  PROVE  Gen(k, i) \in Generator /\ k \in Nat /\ i \in Nat /\ batches[k] \in Batch
<1>1. k \in DOMAIN batches /\ batches[k] \in Batch /\ k \in Nat
  BY DEF InBatch, LayoutTypes
<1>2. batches[k].order \in Seq(Generator)
  BY <1>1 DEF Batch
<1> QED
  BY <1>1, <1>2 DEF InBatch, Gen

\* The slots and indices of batches are numbers.
LEMMA WriteSlotTyped ==
  ASSUME TypeOK, LayoutTypes, NEW k, NEW i, NEW j, HasOutput(k, i, j)
  PROVE  WriteSlot(k, i, j) \in Int
<1>1. k \in DOMAIN batches /\ batches[k] \in Batch
  BY DEF HasOutput, InBatch, LayoutTypes
<1>2. batches[k].order \in Seq(Generator) /\ batches[k].write_start \in Nat
  BY <1>1 DEF Batch
<1>3. i \in Nat /\ Len(batches[k].order) \in Nat /\ Gen(k, i) \in Generator
  BY <1>2 DEF HasOutput, InBatch, Gen
<1>4. circuit.output_targets[Gen(k, i)] \in Seq(Target)
  BY <1>3, CircuitTypes
<1>5. j \in Nat \ {0}
  BY <1>4 DEF HasOutput
<1>6. (j - 1) * Len(batches[k].order) \in Nat
  <2>1. j - 1 \in Nat
    BY <1>5
  <2> QED
    BY <1>3, <2>1, TimesNat
<1> QED
  BY <1>2, <1>3, <1>6 DEF WriteSlot, Stride

\* The read index of a watched target holds the target's slot.
LEMMA ReadsOfFacts ==
  ASSUME TypeOK, LayoutTypes, NEW order \in Seq(Generator), order # <<>>
  PROVE  /\ ReadsOf(order) \in [1 .. ReadLen(order) -> Nat \cup {NoSlot}]
         /\ \A i \in DOMAIN order : \A j \in DOMAIN circuit.watch_list[order[i]] :
              Stride(i, j, Len(order)) + 1 \in 1 .. ReadLen(order) =>
                ReadsOf(order)[Stride(i, j, Len(order)) + 1]
                  = SlotsAfter(order, i)[circuit.watch_list[order[i]][j]]
<1> DEFINE num == Len(order)
           V(i, j) == LET list == circuit.watch_list[order[i]]
                      IN  IF j <= Len(list) THEN SlotsAfter(order, i)[list[j]] ELSE 0
           R(x) == V(((x - 1) % num) + 1, ((x - 1) \div num) + 1)
<1>1. num \in Nat \ {0} /\ DOMAIN order = 1 .. num
  BY EmptySeq, LenProperties
<1>2. ReadsOf(order) = [x \in 1 .. ReadLen(order) |-> R(x)]
  BY DEF ReadsOf, ReadLen
<1>3. \A g \in Generator :
         /\ Len(circuit.watch_list[g]) \in Nat
         /\ DOMAIN circuit.watch_list[g] = 1 .. Len(circuit.watch_list[g])
         /\ \A j \in DOMAIN circuit.watch_list[g] : circuit.watch_list[g][j] \in Target
  BY CircuitTypes, LenProperties
<1>4. ASSUME NEW i \in 1 .. num, NEW j \in Nat \ {0} PROVE V(i, j) \in Nat \cup {NoSlot}
  <2>1. i \in 0 .. Len(order) /\ order[i] \in Generator
    BY <1>1
  <2>2. CASE j <= Len(circuit.watch_list[order[i]])
    <3>1. circuit.watch_list[order[i]][j] \in Target
      BY <1>3, <2>1, <2>2
    <3>2. SlotsAfter(order, i) \in [Target -> Nat \cup {NoSlot}]
      BY <2>1, SlotsAfterFacts
    <3>3. SlotsAfter(order, i)[circuit.watch_list[order[i]][j]] \in Nat \cup {NoSlot}
      BY <3>1, <3>2
    <3> QED
      BY <2>2, <3>3
  <2>3. CASE ~ (j <= Len(circuit.watch_list[order[i]]))
    BY <2>3
  <2> QED
    BY <2>2, <2>3
<1>5. ASSUME NEW i \in DOMAIN order, NEW j \in DOMAIN circuit.watch_list[order[i]]
      PROVE  /\ V(i, j) = SlotsAfter(order, i)[circuit.watch_list[order[i]][j]]
             /\ i \in 1 .. num /\ j \in Nat \ {0}
  <2>1. order[i] \in Generator /\ i \in 1 .. num
    BY <1>1
  <2>2. j \in Nat \ {0} /\ j <= Len(circuit.watch_list[order[i]])
    BY <1>3, <2>1
  <2> QED
    BY <2>1, <2>2
<1> HIDE DEF V, num
<1>6. ASSUME NEW x \in 1 .. ReadLen(order) PROVE R(x) \in Nat \cup {NoSlot}
  <2> DEFINE y == x - 1
  <2>1. y \in Nat
    <3> QED
      BY <1>6
  <2> HIDE DEF y
  <2>2. y % num \in 0 .. num - 1 /\ y \div num \in Nat
    BY <1>1, <2>1
  <2>3. (y % num) + 1 \in 1 .. num /\ (y \div num) + 1 \in Nat \ {0}
    BY <1>1, <2>2
  <2>4. V((y % num) + 1, (y \div num) + 1) \in Nat \cup {NoSlot}
    BY <1>4, <2>3
  <2> QED
    BY <2>4 DEF y
<1>7. ASSUME NEW i \in DOMAIN order, NEW j \in DOMAIN circuit.watch_list[order[i]],
             Stride(i, j, num) + 1 \in 1 .. ReadLen(order)
      PROVE  R(Stride(i, j, num) + 1) = V(i, j)
  <2>1. (Stride(i, j, num) % num) + 1 = i /\ (Stride(i, j, num) \div num) + 1 = j
    BY <1>1, <1>5, StrideInverse
  <2>2. (Stride(i, j, num) + 1) - 1 = Stride(i, j, num)
    <3>2. Stride(i, j, num) \in Int
      <4>1. (j - 1) * num \in Int
        BY <1>1, <1>5
      <4> QED
        BY <1>5, <4>1 DEF Stride
    <3> QED
      BY <3>2
  <2> QED
    BY <2>1, <2>2
<1> HIDE DEF R
<1>8. ReadsOf(order) \in [1 .. ReadLen(order) -> Nat \cup {NoSlot}]
  BY <1>2, <1>6
<1>9. \A i \in DOMAIN order : \A j \in DOMAIN circuit.watch_list[order[i]] :
        Stride(i, j, num) + 1 \in 1 .. ReadLen(order) =>
          ReadsOf(order)[Stride(i, j, num) + 1]
            = SlotsAfter(order, i)[circuit.watch_list[order[i]][j]]
  BY <1>2, <1>5, <1>7
<1> QED
  BY <1>8, <1>9 DEF num

LEMMA LayOutBatchInv ==
  ASSUME ReplayInv, ScheduleSound,
         NEW ty \in Type, NEW order \in SetToSeqs(BatchOf(lay, ty)), LayOutBatch(ty, order)
  PROVE  LayoutInv'
<1>1. /\ order \in Seq(Generator) /\ order # <<>>
      /\ Len(order) \in Nat /\ DOMAIN order = 1 .. Len(order)
      /\ \A i, j \in DOMAIN order : order[i] = order[j] => i = j
      /\ \A i \in DOMAIN order : /\ order[i] \in Generator /\ scheduled[order[i]] = lay
                                 /\ circuit.id[order[i]] = ty
      /\ \A g \in Generator : scheduled[g] = lay /\ circuit.id[g] = ty =>
             \E i \in DOMAIN order : order[i] = g
  BY BatchOfFacts
<1>2. /\ circuit' = circuit /\ scheduled' = scheduled /\ phase' = "done" /\ phase = "done"
      /\ lay' = lay /\ ty \in todo /\ todo' = todo \ {ty}
      /\ write_map' = SlotsAfter(order, Len(order))
      /\ read_map' = read_map \o ReadsOf(order)
      /\ write_start' = write_start + WriteLen(order)
      /\ read_start' = read_start + ReadLen(order)
  BY DEF LayOutBatch, vars
<1>3. TypeOK /\ LayoutTypes
  BY DEF ReplayInv
<1>4. /\ lay \in Nat /\ write_start \in Nat /\ read_start \in Nat /\ NumInputs \in Nat
      /\ read_map \in Seq(Nat \cup {NoSlot}) /\ Len(read_map) = read_start
      /\ NumInputs <= write_start
  BY <1>3, CircuitTypes, LenProperties DEF LayoutTypes
<1>5. PICK b, n : /\ b = [layer |-> lay, order |-> order, write_start |-> write_start,
                          read_start |-> read_start]
                  /\ n = Len(batches) + 1
  OBVIOUS
<1>6. b \in Batch /\ b.layer = lay /\ b.order = order /\ b.write_start = write_start
      /\ b.read_start = read_start
  BY <1>1, <1>4, <1>5 DEF Batch
<1>7. batches' = Append(batches, b)
  BY <1>5 DEF LayOutBatch
<1>8. /\ n \in Nat /\ n \notin DOMAIN batches /\ DOMAIN batches' = DOMAIN batches \cup {n}
      /\ \A k \in DOMAIN batches : k \in Nat /\ k < n /\ batches'[k] = batches[k]
      /\ batches'[n] = b
      /\ \A k, i : InBatch(k, i) => InBatch(k, i)' /\ Gen(k, i)' = Gen(k, i)
      /\ \A i \in DOMAIN order : InBatch(n, i)' /\ Gen(n, i)' = order[i]
      /\ \A k, i : InBatch(k, i)' => InBatch(k, i) \/ (k = n /\ i \in DOMAIN order)
  <2>1. /\ n \in Nat /\ n \notin DOMAIN batches /\ DOMAIN batches' = DOMAIN batches \cup {n}
        /\ \A k \in DOMAIN batches : k \in Nat /\ k < n /\ batches'[k] = batches[k]
        /\ batches'[n] = b
        /\ \A k, i : InBatch(k, i) => InBatch(k, i)' /\ Gen(k, i)' = Gen(k, i)
        /\ \A i \in DOMAIN b.order : InBatch(n, i)' /\ Gen(n, i)' = b.order[i]
        /\ \A k, i : InBatch(k, i)' => InBatch(k, i) \/ (k = n /\ i \in DOMAIN b.order)
    <3>1. circuit' = circuit /\ b \in Batch /\ n = Len(batches) + 1
      BY <1>2, <1>5, <1>6
    <3> QED
      BY <1>3, <1>7, <3>1, BatchAppended
  <2>2. b.order = order
    BY <1>6
  <2> QED
    BY <2>1, <2>2
<1>9. /\ \A g : Outputs(g)' = Outputs(g) /\ Watched(g)' = Watched(g)
      /\ Inputs' = Inputs /\ NumInputs' = NumInputs
  BY <1>2 DEF Outputs, Watched, Inputs, NumInputs
<1>10. \A k, i : InBatch(k, i) => k \in DOMAIN batches /\ k # n
  BY <1>8 DEF InBatch
<1>11. /\ \A i \in DOMAIN order : ~ Laid(order[i])
       /\ \A g \in Generator : Laid(g)' <=> Laid(g) \/ \E i \in DOMAIN order : order[i] = g
  <2>1. \A i \in DOMAIN order : ~ Laid(order[i])
    BY <1>1, <1>2, <1>4 DEF Laid
  <2>2. \A g \in Generator : Laid(g)' => Laid(g) \/ \E i \in DOMAIN order : order[i] = g
    BY <1>1, <1>2 DEF Laid
  <2>3. \A g \in Generator : Laid(g) => Laid(g)'
    BY <1>2 DEF Laid
  <2>4. \A i \in DOMAIN order : Laid(order[i])'
    BY <1>1, <1>2 DEF Laid
  <2> QED
    BY <2>1, <2>2, <2>3, <2>4
\* Lengths of lists
<1>12. /\ Longest(circuit.output_targets, Elems(order)) \in Nat
       /\ \A i \in DOMAIN order :
            Len(circuit.output_targets[order[i]]) <= Longest(circuit.output_targets, Elems(order))
       /\ Longest(circuit.watch_list, Elems(order)) \in Nat
       /\ \A i \in DOMAIN order :
            Len(circuit.watch_list[order[i]]) <= Longest(circuit.watch_list, Elems(order))
  BY <1>1, <1>3, CircuitTypes, LongestBounds
<1>13. \A g \in Generator :
         /\ Len(circuit.output_targets[g]) \in Nat /\ Len(circuit.watch_list[g]) \in Nat
         /\ DOMAIN circuit.output_targets[g] = 1 .. Len(circuit.output_targets[g])
         /\ DOMAIN circuit.watch_list[g] = 1 .. Len(circuit.watch_list[g])
         /\ \A j \in DOMAIN circuit.output_targets[g] : circuit.output_targets[g][j] \in Target
         /\ \A j \in DOMAIN circuit.watch_list[g] : circuit.watch_list[g][j] \in Target
  BY <1>3, CircuitTypes, LenProperties
<1>14. \A i \in DOMAIN order : \A j \in DOMAIN circuit.output_targets[order[i]] :
         /\ j \in Nat \ {0}
         /\ Stride(i, j, Len(order)) \in 0 .. WriteLen(order) - 1
  <2> SUFFICES ASSUME NEW i \in DOMAIN order, NEW j \in DOMAIN circuit.output_targets[order[i]]
               PROVE  j \in Nat \ {0} /\ Stride(i, j, Len(order)) \in 0 .. WriteLen(order) - 1
    OBVIOUS
  <2>1. i \in 1 .. Len(order) /\ j \in Nat \ {0}
        /\ j \in 1 .. Longest(circuit.output_targets, Elems(order))
    BY <1>1, <1>12, <1>13
  <2> QED
    BY <1>1, <1>12, <2>1, StrideBound DEF WriteLen
<1>15. \A i \in DOMAIN order : \A j \in DOMAIN circuit.watch_list[order[i]] :
         /\ j \in Nat \ {0}
         /\ Stride(i, j, Len(order)) \in 0 .. ReadLen(order) - 1
  <2> SUFFICES ASSUME NEW i \in DOMAIN order, NEW j \in DOMAIN circuit.watch_list[order[i]]
               PROVE  j \in Nat \ {0} /\ Stride(i, j, Len(order)) \in 0 .. ReadLen(order) - 1
    OBVIOUS
  <2>1. i \in 1 .. Len(order) /\ j \in Nat \ {0}
        /\ j \in 1 .. Longest(circuit.watch_list, Elems(order))
    BY <1>1, <1>12, <1>13
  <2> QED
    BY <1>1, <1>12, <2>1, StrideBound DEF ReadLen
<1>16. WriteLen(order) \in Nat /\ ReadLen(order) \in Nat
  BY <1>1, <1>12, TimesNat DEF WriteLen, ReadLen
\* The new write_map
<1>17. /\ write_map' \in [Target -> Nat \cup {NoSlot}]
       /\ \A t \in Target :
            /\ write_map[t] # NoSlot => write_map'[t] = write_map[t]
            /\ (\A i \in DOMAIN order : t \notin Outputs(order[i])) => write_map'[t] = write_map[t]
            /\ write_map[t] = NoSlot /\ (\E i \in DOMAIN order : t \in Outputs(order[i])) =>
                 \E i \in DOMAIN order : \E j \in DOMAIN circuit.output_targets[order[i]] :
                   /\ circuit.output_targets[order[i]][j] = t
                   /\ write_map'[t] = write_start + Stride(i, j, Len(order))
                   /\ write_map'[t] # NoSlot
  <2>1. Len(order) \in 0 .. Len(order) /\ 1 .. Len(order) = DOMAIN order
    BY <1>1
  <2> DEFINE W == SlotsAfter(order, Len(order))
  <2>2. /\ W \in [Target -> Nat \cup {NoSlot}]
        /\ \A t \in Target :
              /\ write_map[t] # NoSlot => W[t] = write_map[t]
              /\ (\A i \in 1 .. Len(order) : t \notin Outputs(order[i])) => W[t] = write_map[t]
              /\ write_map[t] = NoSlot /\ (\E i \in 1 .. Len(order) : t \in Outputs(order[i])) =>
                   \E i \in 1 .. Len(order) : \E j \in DOMAIN circuit.output_targets[order[i]] :
                     /\ circuit.output_targets[order[i]][j] = t
                     /\ W[t] = write_start + Stride(i, j, Len(order))
                     /\ W[t] # NoSlot
    BY <1>1, <1>3, <2>1, SlotsAfterFacts
  <2> HIDE DEF W
  <2>3. write_map' = W
    BY <1>2 DEF W
  <2> QED
    BY <2>1, <2>2, <2>3, Zenon
\* The slots of the kernels
<1>18. /\ \A k, i, j : HasOutput(k, i, j) =>
            /\ HasOutput(k, i, j)' /\ Output(k, i, j)' = Output(k, i, j)
            /\ WriteSlot(k, i, j)' = WriteSlot(k, i, j) /\ k # n
       /\ \A i \in DOMAIN order : \A j \in DOMAIN circuit.output_targets[order[i]] :
            /\ HasOutput(n, i, j)' /\ Output(n, i, j)' = circuit.output_targets[order[i]][j]
            /\ WriteSlot(n, i, j)' = write_start + Stride(i, j, Len(order))
       /\ \A k, i, j : HasOutput(k, i, j)' =>
            \/ HasOutput(k, i, j)
            \/ k = n /\ i \in DOMAIN order /\ j \in DOMAIN circuit.output_targets[order[i]]
  <2>1. \A k, i, j : HasOutput(k, i, j) =>
            /\ HasOutput(k, i, j)' /\ Output(k, i, j)' = Output(k, i, j)
            /\ WriteSlot(k, i, j)' = WriteSlot(k, i, j) /\ k # n
    BY <1>2, <1>8, <1>10 DEF HasOutput, Output, WriteSlot
  <2>2. \A i \in DOMAIN order : \A j \in DOMAIN circuit.output_targets[order[i]] :
            /\ HasOutput(n, i, j)' /\ Output(n, i, j)' = circuit.output_targets[order[i]][j]
            /\ WriteSlot(n, i, j)' = write_start + Stride(i, j, Len(order))
    BY <1>2, <1>6, <1>8 DEF HasOutput, Output, WriteSlot
  <2>3. ASSUME NEW k, NEW i, NEW j, HasOutput(k, i, j)', ~ HasOutput(k, i, j)
        PROVE  k = n /\ i \in DOMAIN order /\ j \in DOMAIN circuit.output_targets[order[i]]
    <3>1. InBatch(k, i)' /\ j \in DOMAIN circuit.output_targets[Gen(k, i)']
      BY <1>2, <2>3 DEF HasOutput
    <3>2. CASE InBatch(k, i)
      BY <1>8, <2>3, <3>1, <3>2 DEF HasOutput
    <3>3. CASE k = n /\ i \in DOMAIN order
      BY <1>8, <3>1, <3>3
    <3> QED
      BY <1>8, <3>1, <3>2, <3>3
  <2> QED
    BY <2>1, <2>2, <2>3
<1>19. LayoutTypes'
  <2>1. batches' \in Seq(Batch)
    BY <1>3, <1>6, <1>7, AppendProperties DEF LayoutTypes
  <2>2. lay' \in Nat /\ todo' \subseteq Type
    BY <1>2, <1>3 DEF LayoutTypes
  <2>3. write_start' \in Nat /\ NumInputs' <= write_start'
    BY <1>2, <1>4, <1>9, <1>16
  <2>4. read_map' \in Seq(Nat \cup {NoSlot}) /\ Len(read_map') = read_start'
    <3>1. ReadsOf(order) \in Seq(Nat \cup {NoSlot}) /\ Len(ReadsOf(order)) = ReadLen(order)
      BY <1>1, <1>3, <1>16, ReadsOfFacts, SeqDef, LenProperties
    <3> QED
      BY <1>2, <1>4, <3>1, ConcatProperties
  <2> QED
    BY <1>17, <2>1, <2>2, <2>3, <2>4 DEF LayoutTypes
<1>20. BatchesInv'
  <2>1. /\ \A k, i : InBatch(k, i) => scheduled[Gen(k, i)] = batches[k].layer
        /\ \A k \in DOMAIN batches : batches[k].layer <= lay
    BY DEF ReplayInv, BatchesInv
  <2>2. /\ \A k, i : InBatch(k, i)' => scheduled'[Gen(k, i)'] = batches'[k].layer
        /\ \A k \in DOMAIN batches' : batches'[k].layer <= lay'
    BY <1>1, <1>2, <1>4, <1>6, <1>8, <1>10, <2>1
  <2>3. LayerTypes(scheduled, lay)' = LayerTypes(scheduled, lay)
    BY <1>2 DEF LayerTypes
  <2>4. todo' \subseteq LayerTypes(scheduled, lay)'
    BY <1>2, <2>3 DEF ReplayInv, BatchesInv
  <2>5. \A k, m \in DOMAIN batches' : k < m => batches'[k].layer <= batches'[m].layer
    <3>1. \A k, m \in DOMAIN batches : k < m => batches[k].layer <= batches[m].layer
      BY DEF ReplayInv, BatchesInv
    <3> QED
      BY <1>6, <1>8, <2>1, <3>1
  <2>6. ASSUME NEW k, NEW i, NEW m, NEW p, InBatch(k, i)', InBatch(m, p)', Gen(k, i)' = Gen(m, p)'
        PROVE  k = m /\ i = p
    <3>1. CASE InBatch(k, i) /\ InBatch(m, p)
      BY <1>8, <2>6, <3>1 DEF ReplayInv, BatchesInv
    <3>2. ASSUME NEW x, NEW y, NEW z \in DOMAIN order, InBatch(x, y), Gen(x, y) = order[z]
          PROVE  FALSE
      BY <1>1, <1>11, <3>2 DEF ReplayInv, BatchesInv
    <3>3. CASE k = n /\ i \in DOMAIN order /\ m = n /\ p \in DOMAIN order
      BY <1>1, <1>8, <2>6, <3>3
    <3>4. CASE InBatch(k, i) /\ m = n /\ p \in DOMAIN order
      BY <1>8, <2>6, <3>2, <3>4
    <3>5. CASE InBatch(m, p) /\ k = n /\ i \in DOMAIN order
      BY <1>8, <2>6, <3>2, <3>5
    <3> QED
      BY <1>8, <2>6, <3>1, <3>3, <3>4, <3>5
  <2>7. ASSUME NEW g \in Generator
        PROVE  Laid(g)' <=> \E k, i : InBatch(k, i)' /\ Gen(k, i)' = g
    <3>1. Laid(g) <=> \E k, i : InBatch(k, i) /\ Gen(k, i) = g
      BY DEF ReplayInv, BatchesInv
    <3>2. Laid(g)' => \E k, i : InBatch(k, i)' /\ Gen(k, i)' = g
      BY <1>8, <1>11, <3>1
    <3>3. ASSUME NEW k, NEW i, InBatch(k, i)', Gen(k, i)' = g PROVE Laid(g)'
      BY <1>8, <1>11, <3>1, <3>3
    <3> QED
      BY <3>2, <3>3
  <2> QED
    BY <1>2, <2>2, <2>4, <2>5, <2>6, <2>7 DEF BatchesInv
<1>21. SlotsApart'
  <2>1. \A k, i, j : HasOutput(k, i, j) =>
          /\ WriteSlot(k, i, j) \in Int
          /\ NumInputs <= WriteSlot(k, i, j) /\ WriteSlot(k, i, j) < write_start
    <3>1. \A k, i, j : HasOutput(k, i, j) => WriteSlot(k, i, j) \in Int
      BY <1>3, WriteSlotTyped
    <3> QED
      BY <3>1 DEF ReplayInv, SlotsApart
  <2>2. \A i \in DOMAIN order : \A j \in DOMAIN circuit.output_targets[order[i]] :
          /\ WriteSlot(n, i, j)' \in Int /\ write_start <= WriteSlot(n, i, j)'
          /\ WriteSlot(n, i, j)' < write_start'
    BY <1>2, <1>4, <1>14, <1>16, <1>18
  <2>3. \A k, i, j : HasOutput(k, i, j)' =>
          NumInputs' <= WriteSlot(k, i, j)' /\ WriteSlot(k, i, j)' < write_start'
    <3> SUFFICES ASSUME NEW k, NEW i, NEW j, HasOutput(k, i, j)'
                 PROVE  NumInputs <= WriteSlot(k, i, j)' /\ WriteSlot(k, i, j)' < write_start'
      BY <1>9
    <3>1. CASE HasOutput(k, i, j)
      <4>1. WriteSlot(k, i, j)' = WriteSlot(k, i, j)
        BY <1>18, <3>1
      <4> QED
        BY <1>2, <1>4, <1>16, <2>1, <3>1, <4>1
    <3>2. CASE k = n /\ i \in DOMAIN order /\ j \in DOMAIN circuit.output_targets[order[i]]
      BY <1>4, <2>2, <3>2
    <3> QED
      BY <1>18, <3>1, <3>2
  <2>4. ASSUME NEW k, NEW i, NEW j, NEW m, NEW p, NEW o, HasOutput(k, i, j)', HasOutput(m, p, o)',
               WriteSlot(k, i, j)' = WriteSlot(m, p, o)'
        PROVE  k = m /\ i = p /\ j = o
    <3>1. CASE HasOutput(k, i, j) /\ HasOutput(m, p, o)
      BY <1>18, <2>4, <3>1 DEF ReplayInv, SlotsApart
    <3>2. CASE HasOutput(k, i, j) /\ ~ HasOutput(m, p, o)
      BY <1>4, <1>18, <2>1, <2>2, <2>4, <3>2
    <3>3. CASE ~ HasOutput(k, i, j) /\ HasOutput(m, p, o)
      BY <1>4, <1>18, <2>1, <2>2, <2>4, <3>3
    <3>4. CASE ~ HasOutput(k, i, j) /\ ~ HasOutput(m, p, o)
      <4>1. /\ k = n /\ i \in DOMAIN order /\ j \in DOMAIN circuit.output_targets[order[i]]
            /\ m = n /\ p \in DOMAIN order /\ o \in DOMAIN circuit.output_targets[order[p]]
        BY <1>18, <2>4, <3>4
      <4>2. /\ j \in Nat \ {0} /\ o \in Nat \ {0} /\ i \in 1 .. Len(order) /\ p \in 1 .. Len(order)
            /\ Stride(i, j, Len(order)) \in Int /\ Stride(p, o, Len(order)) \in Int
        BY <1>1, <1>14, <4>1
      <4>3. write_start + Stride(i, j, Len(order)) = write_start + Stride(p, o, Len(order))
        BY <1>18, <2>4, <4>1
      <4>4. Stride(i, j, Len(order)) = Stride(p, o, Len(order))
        BY <1>4, <4>2, <4>3
      <4> QED
        BY <1>1, <4>1, <4>2, <4>4, StrideInjective
    <3> QED
      BY <3>1, <3>2, <3>3, <3>4
  <2> QED
    BY <2>3, <2>4 DEF SlotsApart
<1>22. \A t \in Target :
         write_map[t] # NoSlot <=> t \in Inputs \/ \E g \in Generator : Laid(g) /\ t \in Outputs(g)
  BY DEF ReplayInv, MapInv
<1>23. MapInv'
  <2> SUFFICES ASSUME NEW t \in Target
               PROVE  /\ write_map'[t] # NoSlot <=>
                           t \in Inputs \/ \E g \in Generator : Laid(g)' /\ t \in Outputs(g)
                      /\ write_map'[t] # NoSlot => Home(t)'
    BY <1>9 DEF MapInv
  <2>1. CASE write_map[t] # NoSlot
    <3>1. write_map'[t] = write_map[t]
      BY <1>17, <2>1
    <3>2. t \in Inputs \/ \E g \in Generator : Laid(g)' /\ t \in Outputs(g)
      BY <1>11, <1>22, <2>1
    <3>3. Home(t)
      BY <2>1 DEF ReplayInv, MapInv
    <3>4. CASE t \in Inputs
      BY <1>2, <1>9, <2>1, <3>1, <3>2, <3>3, <3>4 DEF Home
    <3>5. CASE t \notin Inputs
      <4>1. PICK k, i, j : /\ HasOutput(k, i, j) /\ Output(k, i, j) = t
                           /\ write_map[t] = WriteSlot(k, i, j)
                           /\ \A g \in Generator : t \in Outputs(g) => batches[k].layer <= scheduled[g]
        BY <3>3, <3>5 DEF Home
      <4>2. batches'[k] = batches[k]
        BY <1>8, <1>10, <4>1 DEF HasOutput
      <4>3. Home(t)'
        BY <1>2, <1>9, <1>18, <3>1, <3>5, <4>1, <4>2 DEF Home
      <4> QED
        BY <2>1, <3>1, <3>2, <4>3
    <3> QED
      BY <3>4, <3>5
  <2>2. CASE write_map[t] = NoSlot /\ \E i \in DOMAIN order : t \in Outputs(order[i])
    <3>1. PICK i \in DOMAIN order : \E j \in DOMAIN circuit.output_targets[order[i]] :
            /\ circuit.output_targets[order[i]][j] = t
            /\ write_map'[t] = write_start + Stride(i, j, Len(order))
            /\ write_map'[t] # NoSlot
      BY <1>17, <2>2
    <3>2. PICK j \in DOMAIN circuit.output_targets[order[i]] :
            /\ circuit.output_targets[order[i]][j] = t
            /\ write_map'[t] = write_start + Stride(i, j, Len(order))
            /\ write_map'[t] # NoSlot
      BY <3>1
    <3>3. t \notin Inputs /\ \A g \in Generator : t \in Outputs(g) => ~ Laid(g)
      BY <1>22, <2>2
    <3>4. \A g \in Generator : scheduled[g] \in Nat
      BY DEF ScheduleSound
    <3>5. \A g \in Generator : t \in Outputs(g) => lay <= scheduled[g]
      BY <1>2, <1>4, <3>3, <3>4 DEF Laid
    <3>6. \E g \in Generator : Laid(g)' /\ t \in Outputs(g)
      BY <1>1, <1>11, <2>2
    <3>7. Home(t)'
      <4>1. HasOutput(n, i, j)' /\ Output(n, i, j)' = t /\ write_map'[t] = WriteSlot(n, i, j)'
        BY <1>18, <3>2
      <4>2. \A g \in Generator : t \in Outputs(g)' => batches'[n].layer <= scheduled'[g]
        BY <1>2, <1>6, <1>8, <1>9, <3>5
      <4> QED
        BY <1>9, <3>3, <4>1, <4>2 DEF Home
    <3> QED
      BY <3>2, <3>6, <3>7
  <2>3. CASE write_map[t] = NoSlot /\ \A i \in DOMAIN order : t \notin Outputs(order[i])
    <3>1. write_map'[t] = NoSlot
      BY <1>17, <2>3
    <3>2. t \notin Inputs /\ \A g \in Generator : t \in Outputs(g) => ~ Laid(g)'
      BY <1>11, <1>22, <2>3
    <3> QED
      BY <3>1, <3>2
  <2> QED
    BY <2>1, <2>2, <2>3
<1>24. ReadsInv'
  <2> SUFFICES ASSUME NEW k, NEW i, NEW j, HasInput(k, i, j)'
               PROVE  /\ batches'[k].read_start + Stride(i, j, Len(batches'[k].order)) + 1
                            \in DOMAIN read_map'
                      /\ ReadSlot(k, i, j)' = write_map'[Input(k, i, j)']
                      /\ write_map'[Input(k, i, j)'] # NoSlot
    BY DEF ReadsInv
  <2>1. InBatch(k, i)' /\ j \in DOMAIN circuit.watch_list[Gen(k, i)']
        /\ Input(k, i, j)' = circuit.watch_list[Gen(k, i)'][j]
    BY <1>2 DEF HasInput, Input
  <2>2. ReadsOf(order) \in [1 .. ReadLen(order) -> Nat \cup {NoSlot}]
    BY <1>1, <1>3, ReadsOfFacts
  <2>3. /\ DOMAIN read_map = 1 .. read_start /\ DOMAIN read_map' = 1 .. read_start + ReadLen(order)
        /\ \A x \in 1 .. read_start : read_map'[x] = read_map[x]
        /\ \A x \in 1 .. ReadLen(order) : read_map'[read_start + x] = ReadsOf(order)[x]
    <3>1. ReadsOf(order) \in Seq(Nat \cup {NoSlot}) /\ Len(ReadsOf(order)) = ReadLen(order)
      BY <1>16, <2>2, SeqDef, LenProperties
    <3>2. read_map' = read_map \o ReadsOf(order)
      BY <1>2
    <3> QED
      BY <1>4, <3>1, <3>2, ConcatFacts
  <2>4. CASE InBatch(k, i)
    <3>1. HasInput(k, i, j) /\ Input(k, i, j)' = Input(k, i, j)
          /\ Input(k, i, j) \in Target
      <4>1. Gen(k, i)' = Gen(k, i)
        BY <1>8, <2>4
      <4>2. HasInput(k, i, j) /\ Input(k, i, j)' = Input(k, i, j)
        BY <2>1, <2>4, <4>1 DEF HasInput, Input
      <4>3. Gen(k, i) \in Generator
        BY <1>3, <2>4, GenTyped
      <4> QED
        BY <1>13, <2>1, <4>1, <4>2, <4>3 DEF Input
    <3>2. batches'[k] = batches[k]
      BY <1>8, <1>10, <2>4
    <3> DEFINE x == batches[k].read_start + Stride(i, j, Len(batches[k].order)) + 1
    <3>3. x \in DOMAIN read_map /\ read_map[x] = write_map[Input(k, i, j)]
          /\ write_map[Input(k, i, j)] # NoSlot
      BY <3>1 DEF ReplayInv, ReadsInv, ReadSlot
    <3>4. write_map'[Input(k, i, j)] = write_map[Input(k, i, j)]
      BY <1>17, <3>1, <3>3
    <3>5. ReadSlot(k, i, j)' = read_map'[x]
      BY <3>2 DEF ReadSlot
    <3> HIDE DEF x
    <3>6. read_map'[x] = read_map[x] /\ x \in DOMAIN read_map'
      BY <1>4, <1>16, <2>3, <3>3
    <3>7. batches'[k].read_start + Stride(i, j, Len(batches'[k].order)) + 1 = x
      BY <3>2 DEF x
    <3> QED
      BY <3>1, <3>3, <3>4, <3>5, <3>6, <3>7
  <2>5. CASE k = n /\ i \in DOMAIN order
    <3> DEFINE t == circuit.watch_list[order[i]][j]
               y == Stride(i, j, Len(order)) + 1
    <3>1. Gen(k, i)' = order[i] /\ j \in DOMAIN circuit.watch_list[order[i]] /\ Input(k, i, j)' = t
      BY <1>8, <2>1, <2>5
    <3>2. t \in Target /\ t \in Watched(order[i]) /\ order[i] \in Generator
      BY <1>1, <1>13, <2>5, <3>1 DEF Watched, Elems
    <3>3. write_map[t] # NoSlot
      <4>1. \/ t \in Inputs
            \/ \E p \in Generator : t \in Outputs(p) /\ scheduled[p] < scheduled[order[i]]
        BY <3>2 DEF ScheduleSound
      <4>2. scheduled[order[i]] = lay
        BY <1>1, <2>5
      <4>3. \A p \in Generator : scheduled[p] < lay => Laid(p)
        BY <1>2 DEF Laid
      <4> QED
        BY <1>22, <3>2, <4>1, <4>2, <4>3
    <3>4. SlotsAfter(order, i)[t] = write_map[t]
      <4>1. i \in 0 .. Len(order)
        BY <1>1, <2>5
      <4> QED
        BY <1>1, <1>3, <3>2, <3>3, <4>1, SlotsAfterFacts
    <3>5. y \in 1 .. ReadLen(order)
      <4>1. Stride(i, j, Len(order)) \in 0 .. ReadLen(order) - 1
        BY <1>15, <2>5, <3>1
      <4> QED
        BY <1>16, <4>1
    <3>6. ReadsOf(order)[y] = SlotsAfter(order, i)[t]
      BY <1>1, <1>3, <2>5, <3>1, <3>5, ReadsOfFacts
    <3>7. write_map'[t] = write_map[t]
      BY <1>17, <3>2, <3>3
    <3>8. batches'[k] = b /\ b.read_start = read_start /\ b.order = order
      BY <1>6, <1>8, <2>5
    <3>9. batches'[k].read_start + Stride(i, j, Len(batches'[k].order)) + 1 = read_start + y
      <4>1. Stride(i, j, Len(order)) \in Int
        BY <1>15, <2>5, <3>1
      <4> QED
        BY <1>4, <3>8, <4>1
    <3>10. ReadSlot(k, i, j)' = read_map'[read_start + y]
      <4>1. ReadSlot(k, i, j)'
              = read_map'[batches'[k].read_start + Stride(i, j, Len(batches'[k].order)) + 1]
        BY DEF ReadSlot
      <4> QED
        BY <3>9, <4>1
    <3> HIDE DEF y, t
    <3>11. read_map'[read_start + y] = ReadsOf(order)[y] /\ read_start + y \in DOMAIN read_map'
      BY <1>4, <1>16, <2>3, <3>5
    <3> QED
      BY <3>1, <3>3, <3>4, <3>6, <3>7, <3>9, <3>10, <3>11
  <2> QED
    BY <1>8, <2>1, <2>4, <2>5
<1> QED
  BY <1>19, <1>20, <1>21, <1>23, <1>24 DEF LayoutInv

\* The loop goes on to the next level when all of this one is laid out.
LEMMA NextLayerInv ==
  ASSUME ReplayInv, ScheduleSound, NextLayer
  PROVE  LayoutInv'
<1>1. /\ UNCHANGED <<circuit, phase, scheduled, batches, write_start, read_start, write_map, read_map>>
      /\ lay' = lay + 1 /\ todo = {} /\ todo' = LayerTypes(scheduled, lay + 1) /\ phase = "done"
  BY DEF NextLayer, vars
<1>2. TypeOK /\ LayoutTypes /\ lay \in Nat
  BY DEF ReplayInv, LayoutTypes
<1>3. /\ NumInputs' = NumInputs /\ Inputs' = Inputs
      /\ \A g : Outputs(g)' = Outputs(g)
  BY <1>1 DEF NumInputs, Inputs, Outputs
<1>4. /\ \A k, i : (InBatch(k, i)' <=> InBatch(k, i)) /\ Gen(k, i)' = Gen(k, i)
      /\ \A k, i, j : /\ HasOutput(k, i, j)' <=> HasOutput(k, i, j)
                      /\ HasInput(k, i, j)' <=> HasInput(k, i, j)
                      /\ Output(k, i, j)' = Output(k, i, j)
                      /\ Input(k, i, j)' = Input(k, i, j)
                      /\ WriteSlot(k, i, j)' = WriteSlot(k, i, j)
                      /\ ReadSlot(k, i, j)' = ReadSlot(k, i, j)
  BY <1>1 DEF InBatch, Gen, HasOutput, HasInput, Output, Input, WriteSlot, ReadSlot
<1>5. \A g \in Generator : scheduled[g] \in Nat
  BY DEF ScheduleSound
<1>6. \A g \in Generator : Laid(g)' <=> Laid(g)
  <2> SUFFICES ASSUME NEW g \in Generator PROVE Laid(g)' <=> Laid(g)
    OBVIOUS
  <2>1. Laid(g) <=> scheduled[g] < lay \/ scheduled[g] = lay
    BY <1>1 DEF Laid
  <2>2. scheduled[g] = lay + 1 => circuit.id[g] \in todo'
    BY <1>1 DEF LayerTypes
  <2>3. Laid(g)' <=> scheduled[g] < lay + 1
    BY <1>1, <2>2 DEF Laid
  <2> QED
    BY <1>2, <1>5, <2>1, <2>3
<1>7. LayoutTypes'
  <2>1. todo' \subseteq Type /\ lay' \in Nat
    BY <1>1, <1>2, LayerTypesTyped
  <2> QED
    BY <1>1, <1>2, <1>3, <2>1 DEF LayoutTypes, Batch
<1>8. LayerTypes(scheduled, lay)' = LayerTypes(scheduled, lay + 1)
  BY <1>1 DEF LayerTypes
<1>9. BatchesInv'
  <2>1. \A k \in DOMAIN batches' : batches'[k].layer <= lay'
    <3> SUFFICES ASSUME NEW k \in DOMAIN batches PROVE batches[k].layer <= lay + 1
      BY <1>1
    <3>1. batches[k].layer <= lay
      BY DEF ReplayInv, BatchesInv
    <3>2. batches[k].layer \in Nat
      BY <1>2, BatchTyped
    <3> QED
      BY <1>2, <3>1, <3>2
  <2> QED
    BY <1>1, <1>4, <1>6, <1>8, <2>1 DEF ReplayInv, BatchesInv
<1>10. SlotsApart'
  BY <1>1, <1>3, <1>4 DEF ReplayInv, SlotsApart
<1>11. \A t : Home(t)' <=> Home(t)
  BY <1>1, <1>3, <1>4 DEF Home
<1>12. MapInv'
  BY <1>1, <1>3, <1>6, <1>11 DEF ReplayInv, MapInv
<1>13. ReadsInv'
  BY <1>1, <1>4 DEF ReplayInv, ReadsInv
<1> QED
  BY <1>7, <1>9, <1>10, <1>12, <1>13 DEF LayoutInv

-----------------------------------------------------------------------------
(***************************************************************************)
(* A prove: upload, threads, scatter.                                      *)
(***************************************************************************)
\* WitnessInv speaks of the layout only through what the kernels write.
LEMMA WritesStable ==
  ASSUME UNCHANGED <<vars, layout>>
  PROVE  /\ circuit' = circuit /\ phase' = phase /\ write_start' = write_start /\ batches' = batches
         /\ \A g : Laid(g)' <=> Laid(g)
         /\ \A k, i : (InBatch(k, i)' <=> InBatch(k, i)) /\ Gen(k, i)' = Gen(k, i)
         /\ \A k, i, j : /\ HasOutput(k, i, j)' <=> HasOutput(k, i, j)
                         /\ Output(k, i, j)' = Output(k, i, j)
                         /\ WriteSlot(k, i, j)' = WriteSlot(k, i, j)
<1>1. UNCHANGED <<circuit, phase, scheduled>> /\ UNCHANGED <<lay, todo, batches, write_start>>
  BY DEF vars, layout
<1> QED
  BY <1>1 DEF Laid, InBatch, Gen, HasOutput, Output, WriteSlot

LEMMA BuildEndInv ==
  ASSUME ReplayInv, ScheduleSound, BuildEnd
  PROVE  WitnessInv'
<1>1. /\ UNCHANGED <<vars, layout>> /\ stage' = "built"
      /\ witness' = [s \in 0 .. write_start - 1 |-> Garbage]
      /\ phase = "done" /\ todo = {} /\ lay = max_level
  BY DEF BuildEnd
<1>2. \A g \in Generator : Laid(g)
  BY <1>1 DEF Laid, ScheduleSound
<1>3. phase' = "done" /\ \A g \in Generator : Laid(g)'
  BY <1>1, <1>2, WritesStable
<1>4. write_start' = write_start
  BY <1>1, WritesStable
<1> QED
  BY <1>1, <1>3, <1>4 DEF WitnessInv

LEMMA UploadInputsInv ==
  ASSUME ReplayInv, UploadInputs
  PROVE  /\ WitnessInv'
         /\ \A t \in Target : (\E s \in DOMAIN witness' : witness'[s] = t) <=> t \in Inputs
<1>1. /\ UNCHANGED <<vars, layout>> /\ stage = "built" /\ stage' = "replay" /\ ran' = {}
      /\ witness' = [s \in DOMAIN witness |->
                       IF s < NumInputs THEN circuit.input_targets[s + 1] ELSE witness[s]]
  BY DEF UploadInputs, NumInputs
<1>2. /\ witness \in [0 .. write_start - 1 -> Target \cup {Garbage}]
      /\ \A s \in DOMAIN witness : witness[s] = Garbage
      /\ phase = "done" /\ \A g \in Generator : Laid(g)
  BY <1>1 DEF ReplayInv, WitnessInv
<1>3. /\ NumInputs \in Nat /\ DOMAIN circuit.input_targets = 1 .. NumInputs
      /\ \A n \in 1 .. NumInputs : circuit.input_targets[n] \in Target
      /\ write_start \in Nat /\ NumInputs <= write_start
  BY CircuitTypes DEF ReplayInv, LayoutTypes
<1>4. \A s \in 0 .. write_start - 1 :
        witness'[s] = IF s < NumInputs THEN circuit.input_targets[s + 1] ELSE Garbage
  BY <1>1, <1>2
<1>5. \A n \in 1 .. NumInputs : n - 1 \in 0 .. write_start - 1 /\ witness'[n - 1] = circuit.input_targets[n]
  <2> SUFFICES ASSUME NEW n \in 1 .. NumInputs
               PROVE  n - 1 \in 0 .. write_start - 1 /\ witness'[n - 1] = circuit.input_targets[n]
    OBVIOUS
  <2>1. n - 1 \in 0 .. write_start - 1 /\ n - 1 < NumInputs /\ (n - 1) + 1 = n
    BY <1>3
  <2> QED
    BY <1>4, <2>1
<1>6. witness' \in [0 .. write_start - 1 -> Target \cup {Garbage}]
  <2>1. DOMAIN witness = 0 .. write_start - 1
    BY <1>2
  <2>2. \A s \in 0 .. write_start - 1 : s < NumInputs => s + 1 \in 1 .. NumInputs
    BY <1>3
  <2> QED
    BY <1>1, <1>2, <1>3, <2>1, <2>2
<1>7. \A k, i, j : HasOutput(k, i, j) => witness'[WriteSlot(k, i, j)] = Garbage
  <2> SUFFICES ASSUME NEW k, NEW i, NEW j, HasOutput(k, i, j)
               PROVE  witness'[WriteSlot(k, i, j)] = Garbage
    OBVIOUS
  <2>1. /\ WriteSlot(k, i, j) \in Int
        /\ NumInputs <= WriteSlot(k, i, j) /\ WriteSlot(k, i, j) < write_start
    BY WriteSlotTyped DEF ReplayInv, SlotsApart
  <2> QED
    BY <1>3, <1>4, <2>1
<1>8. RunInv'
  BY <1>1, <1>3, <1>5, <1>7, WritesStable DEF RunInv
<1>9. WitnessInv'
  BY <1>1, <1>2, <1>6, <1>8, WritesStable DEF WitnessInv
<1>10. Garbage \notin Target
  BY GarbageAssumption
<1>11. ASSUME NEW t \in Target
       PROVE  (\E s \in DOMAIN witness' : witness'[s] = t) <=> t \in Inputs
  <2>1. DOMAIN witness' = 0 .. write_start - 1
    BY <1>6
  <2>2. ASSUME NEW s \in 0 .. write_start - 1, witness'[s] = t PROVE t \in Inputs
    <3>1. s < NumInputs /\ circuit.input_targets[s + 1] = t
      BY <1>4, <1>10, <2>2
    <3>2. s + 1 \in DOMAIN circuit.input_targets
      BY <1>3, <3>1
    <3> QED
      BY <3>1, <3>2 DEF Inputs, Elems
  <2>3. ASSUME t \in Inputs PROVE \E s \in 0 .. write_start - 1 : witness'[s] = t
    <3>1. PICK n \in 1 .. NumInputs : circuit.input_targets[n] = t
      BY <1>3, <2>3 DEF Inputs, Elems
    <3> QED
      BY <1>5, <3>1
  <2> QED
    BY <2>1, <2>2, <2>3
<1> QED
  BY <1>9, <1>11

\* Whatever stands on an earlier level has run when a thread may run: a streamed
\* kernel waits for all before it, a graph node for the level just before its own,
\* which is not empty and did not begin before all earlier ones had ended.
LEMMA EarlierRan ==
  ASSUME ReplayInv, ScheduleSound, NEW k, NEW i, InBatch(k, i), RunThread(k, i),
         NEW m, NEW n, InBatch(m, n), batches[m].layer < batches[k].layer
  PROVE  Gen(m, n) \in ran
<1>1. stage = "replay" /\ \A x \in WaitsFor(k) : Elems(batches[x].order) \subseteq ran
  BY DEF RunThread
<1>2. RunInv /\ phase = "done" /\ \A g \in Generator : Laid(g)
  BY <1>1 DEF ReplayInv, WitnessInv
<1>3. LayoutTypes /\ BatchesInv
  BY DEF ReplayInv
<1>4. \A x, y : InBatch(x, y) => Gen(x, y) \in Elems(batches[x].order) /\ x \in DOMAIN batches
  BY DEF InBatch, Gen, Elems
<1>5. \A x \in DOMAIN batches : x \in Nat /\ x >= 1 /\ batches[x].layer \in Nat
  BY <1>3, BatchTyped
<1>6. CASE Streamed
  <2>1. m < k
    <3>1. ~ (k < m) /\ k # m
      BY <1>3, <1>4, <1>5 DEF BatchesInv
    <3> QED
      BY <1>4, <1>5, <3>1
  <2>2. m \in WaitsFor(k)
    <3>1. m \in 1 .. k - 1
      BY <1>4, <1>5, <2>1
    <3> QED
      BY <1>6, <3>1 DEF WaitsFor
  <2> QED
    BY <1>1, <1>4, <2>2
<1>7. CASE ~ Streamed
  <2>1. WaitsFor(k) = {x \in DOMAIN batches : batches[x].layer = batches[k].layer - 1}
    BY <1>7 DEF WaitsFor
  <2>2. CASE batches[m].layer = batches[k].layer - 1
    BY <1>1, <1>4, <2>1, <2>2
  <2>3. CASE batches[m].layer # batches[k].layer - 1
    <3>1. scheduled[Gen(k, i)] = batches[k].layer /\ Gen(k, i) \in Generator
      BY <1>3, GenTyped DEF BatchesInv
    <3>2. batches[k].layer - 1 \in 0 .. max_level
      BY <1>4, <1>5, <3>1 DEF ScheduleSound
    <3>3. PICK g \in Generator : scheduled[g] = batches[k].layer - 1
      BY <3>2 DEF ScheduleSound
    <3>4. PICK x, y : InBatch(x, y) /\ Gen(x, y) = g
      BY <1>2, <1>3 DEF BatchesInv
    <3>5. batches[x].layer = batches[k].layer - 1
      BY <1>3, <3>3, <3>4 DEF BatchesInv
    <3>6. Gen(x, y) \in ran
      BY <1>1, <1>4, <2>1, <3>4, <3>5
    <3>7. batches[m].layer < batches[x].layer
      BY <1>4, <1>5, <2>3, <3>5
    <3> QED
      BY <1>2, <3>4, <3>6, <3>7 DEF RunInv
  <2> QED
    BY <2>2, <2>3
<1> QED
  BY <1>6, <1>7

\* A thread finds the value of each target it watches at the slot it reads.
LEMMA ThreadReadsWell ==
  ASSUME ReplayInv, ScheduleSound, NEW k, NEW i, InBatch(k, i), RunThread(k, i)
  PROVE  ReadsWell(k, i)
<1>1. /\ RunInv /\ LayoutTypes /\ TypeOK
      /\ witness \in [0 .. write_start - 1 -> Target \cup {Garbage}]
  BY DEF ReplayInv, WitnessInv, RunThread
<1>2. Gen(k, i) \in Generator /\ scheduled[Gen(k, i)] = batches[k].layer
  BY <1>1, GenTyped DEF ReplayInv, BatchesInv
<1>3. /\ NumInputs \in Nat /\ DOMAIN circuit.input_targets = 1 .. NumInputs
      /\ write_start \in Nat /\ NumInputs <= write_start
      /\ circuit.watch_list[Gen(k, i)] \in Seq(Target)
  BY <1>1, <1>2, CircuitTypes DEF LayoutTypes
<1> SUFFICES ASSUME NEW j \in DOMAIN circuit.watch_list[Gen(k, i)]
             PROVE  /\ ReadSlot(k, i, j) \in DOMAIN witness
                    /\ witness[ReadSlot(k, i, j)] = Input(k, i, j)
  BY DEF ReadsWell, Gen, Input
<1> DEFINE t == Input(k, i, j)
<1>4. t \in Target /\ t \in Watched(Gen(k, i))
  BY <1>3 DEF Input, Watched, Elems
<1>5. ReadSlot(k, i, j) = write_map[t] /\ write_map[t] # NoSlot
  BY DEF ReplayInv, ReadsInv, HasInput
<1>6. Home(t)
  BY <1>4, <1>5 DEF ReplayInv, MapInv
<1> HIDE DEF t
<1>7. CASE t \in Inputs
  <2>1. PICK n \in DOMAIN circuit.input_targets :
          circuit.input_targets[n] = t /\ write_map[t] = n - 1
    BY <1>6, <1>7 DEF Home
  <2>2. n - 1 \in 0 .. write_start - 1 /\ witness[n - 1] = t
    BY <1>1, <1>3, <2>1 DEF RunInv
  <2> QED
    BY <1>1, <1>5, <2>1, <2>2 DEF t
<1>8. CASE t \notin Inputs
  <2>1. PICK m, n, o : /\ HasOutput(m, n, o) /\ Output(m, n, o) = t
                       /\ write_map[t] = WriteSlot(m, n, o)
                       /\ \A g \in Generator : t \in Outputs(g) => batches[m].layer <= scheduled[g]
    BY <1>6, <1>8 DEF Home
  <2>2. PICK p \in Generator : t \in Outputs(p) /\ scheduled[p] < scheduled[Gen(k, i)]
    BY <1>2, <1>4, <1>8 DEF ScheduleSound
  <2>3. InBatch(m, n) /\ batches[m].layer \in Nat /\ batches[k].layer \in Nat /\ scheduled[p] \in Nat
    BY <1>1, <2>1, BatchTyped DEF HasOutput, InBatch, ScheduleSound
  <2>4. batches[m].layer < batches[k].layer
    BY <1>2, <2>1, <2>2, <2>3
  <2>5. Gen(m, n) \in ran
    BY <2>3, <2>4, EarlierRan
  <2>6. witness[WriteSlot(m, n, o)] = t
    BY <1>1, <2>1, <2>5 DEF RunInv
  <2>7. WriteSlot(m, n, o) \in 0 .. write_start - 1
    <3>1. WriteSlot(m, n, o) \in Int
      BY <1>1, <2>1, WriteSlotTyped
    <3>2. NumInputs <= WriteSlot(m, n, o) /\ WriteSlot(m, n, o) < write_start
      BY <2>1 DEF ReplayInv, SlotsApart
    <3> QED
      BY <1>3, <3>1, <3>2
  <2> QED
    BY <1>1, <1>5, <2>1, <2>6, <2>7 DEF t
<1> QED
  BY <1>7, <1>8

\* What a thread does to the witness: its outputs appear in its own slots, which
\* held no value before, and the other slots stay as they are.
LEMMA ThreadWrites ==
  ASSUME ReplayInv, ScheduleSound, NEW k, NEW i, InBatch(k, i), RunThread(k, i)
  PROVE  /\ \A j \in DOMAIN circuit.output_targets[Gen(k, i)] :
              /\ WriteSlot(k, i, j) \in DOMAIN witness
              /\ witness[WriteSlot(k, i, j)] = Garbage
              /\ witness'[WriteSlot(k, i, j)] = Output(k, i, j)
         /\ \A s \in DOMAIN witness :
              (\A j \in DOMAIN circuit.output_targets[Gen(k, i)] : WriteSlot(k, i, j) # s)
                => witness'[s] = witness[s]
         /\ witness' \in [0 .. write_start - 1 -> Target \cup {Garbage}]
         /\ witness \in [0 .. write_start - 1 -> Target \cup {Garbage}]
<1>1. /\ RunInv /\ LayoutTypes /\ TypeOK /\ Gen(k, i) \notin ran
      /\ witness \in [0 .. write_start - 1 -> Target \cup {Garbage}]
  BY DEF ReplayInv, WitnessInv, RunThread, Gen
<1> DEFINE outs == circuit.output_targets[Gen(k, i)]
           stored(s) == {j \in DOMAIN outs : WriteSlot(k, i, j) = s}
           W(s) == IF stored(s) = {} THEN witness[s] ELSE outs[Max(stored(s))]
<1>2. witness' = [s \in DOMAIN witness |-> W(s)]
  BY ThreadReadsWell DEF RunThread, Gen
<1>3. Gen(k, i) \in Generator
  BY <1>1, GenTyped
<1>4. outs \in Seq(Target)
  BY <1>1, <1>3, CircuitTypes
<1>5. \A j \in DOMAIN outs : j \in Nat /\ outs[j] \in Target /\ HasOutput(k, i, j) /\ Output(k, i, j) = outs[j]
  BY <1>4 DEF HasOutput, Output
<1>6. \A j \in DOMAIN outs : WriteSlot(k, i, j) \in DOMAIN witness
  <2> SUFFICES ASSUME NEW j \in DOMAIN outs PROVE WriteSlot(k, i, j) \in 0 .. write_start - 1
    BY <1>1
  <2>1. WriteSlot(k, i, j) \in Int
    BY <1>1, <1>5, WriteSlotTyped
  <2>2. NumInputs <= WriteSlot(k, i, j) /\ WriteSlot(k, i, j) < write_start
    BY <1>5 DEF ReplayInv, SlotsApart
  <2>3. NumInputs \in Nat /\ write_start \in Nat
    BY <1>1, CircuitTypes DEF LayoutTypes
  <2> QED
    BY <2>1, <2>2, <2>3
<1>7. \A j \in DOMAIN outs : witness[WriteSlot(k, i, j)] = Garbage
  BY <1>1, <1>5 DEF RunInv
<1>8. \A j, o \in DOMAIN outs : WriteSlot(k, i, j) = WriteSlot(k, i, o) => j = o
  BY <1>5 DEF ReplayInv, SlotsApart
<1>9. ASSUME NEW j \in DOMAIN outs PROVE W(WriteSlot(k, i, j)) = outs[j]
  <2> DEFINE S == stored(WriteSlot(k, i, j))
  <2>1. S = {j}
    BY <1>8
  <2>2. Max({j}) = j
    <3>1. {j} \in SUBSET Nat /\ {j} # {} /\ j \in Nat /\ \A x \in {j} : x <= j
      BY <1>5
    <3>2. Max({j}) \in {j}
      BY <3>1, MaxBounded
    <3> QED
      BY <3>2
  <2> QED
    BY <2>1, <2>2
<1>10. ASSUME NEW s \in DOMAIN witness, \A j \in DOMAIN outs : WriteSlot(k, i, j) # s
       PROVE  W(s) = witness[s]
  BY <1>10
<1>11. ASSUME NEW s \in DOMAIN witness PROVE W(s) \in Target \cup {Garbage}
  <2>1. CASE \E j \in DOMAIN outs : WriteSlot(k, i, j) = s
    <3>1. PICK j \in DOMAIN outs : WriteSlot(k, i, j) = s
      BY <2>1
    <3>2. W(s) = outs[j]
      BY <1>9, <3>1
    <3> QED
      BY <1>5, <3>2
  <2>2. CASE \A j \in DOMAIN outs : WriteSlot(k, i, j) # s
    <3>1. W(s) = witness[s]
      BY <1>10, <2>2
    <3> QED
      BY <1>1, <3>1
  <2> QED
    BY <2>1, <2>2
<1> HIDE DEF W, outs
<1>12. /\ \A s \in DOMAIN witness : witness'[s] = W(s)
       /\ witness' \in [0 .. write_start - 1 -> Target \cup {Garbage}]
  BY <1>1, <1>2, <1>11
<1>13. \A j \in DOMAIN outs : /\ WriteSlot(k, i, j) \in DOMAIN witness
                              /\ witness[WriteSlot(k, i, j)] = Garbage
                              /\ witness'[WriteSlot(k, i, j)] = Output(k, i, j)
  BY <1>5, <1>6, <1>7, <1>9, <1>12
<1>14. \A s \in DOMAIN witness :
         (\A j \in DOMAIN outs : WriteSlot(k, i, j) # s) => witness'[s] = witness[s]
  BY <1>10, <1>12
<1> QED
  BY <1>1, <1>12, <1>13, <1>14 DEF outs

LEMMA RunThreadInv ==
  ASSUME ReplayInv, ScheduleSound, NEW k, NEW i, InBatch(k, i), RunThread(k, i)
  PROVE  WitnessInv'
<1>1. /\ UNCHANGED <<vars, layout>> /\ stage = "replay" /\ stage' = "replay"
      /\ ran' = ran \cup {Gen(k, i)} /\ Gen(k, i) \notin ran
  BY DEF RunThread, Gen
<1>2. /\ RunInv /\ LayoutTypes /\ TypeOK /\ phase = "done" /\ \A g \in Generator : Laid(g)
  BY <1>1 DEF ReplayInv, WitnessInv
<1>3. Gen(k, i) \in Generator
  BY <1>2, GenTyped
<1>4. /\ \A j \in DOMAIN circuit.output_targets[Gen(k, i)] :
              /\ WriteSlot(k, i, j) \in DOMAIN witness
              /\ witness[WriteSlot(k, i, j)] = Garbage
              /\ witness'[WriteSlot(k, i, j)] = Output(k, i, j)
      /\ \A s \in DOMAIN witness :
              (\A j \in DOMAIN circuit.output_targets[Gen(k, i)] : WriteSlot(k, i, j) # s)
                => witness'[s] = witness[s]
      /\ witness' \in [0 .. write_start - 1 -> Target \cup {Garbage}]
      /\ witness \in [0 .. write_start - 1 -> Target \cup {Garbage}]
  BY ThreadWrites
<1>5. /\ NumInputs \in Nat /\ DOMAIN circuit.input_targets = 1 .. NumInputs
      /\ write_start \in Nat /\ NumInputs <= write_start
  BY <1>2, CircuitTypes DEF LayoutTypes
<1>6. \A m, n, o : HasOutput(m, n, o) =>
        /\ WriteSlot(m, n, o) \in DOMAIN witness /\ WriteSlot(m, n, o) \in Int
        /\ NumInputs <= WriteSlot(m, n, o)
  <2> SUFFICES ASSUME NEW m, NEW n, NEW o, HasOutput(m, n, o)
               PROVE  /\ WriteSlot(m, n, o) \in DOMAIN witness /\ WriteSlot(m, n, o) \in Int
                      /\ NumInputs <= WriteSlot(m, n, o)
    OBVIOUS
  <2>1. WriteSlot(m, n, o) \in Int
    BY <1>2, WriteSlotTyped
  <2>2. NumInputs <= WriteSlot(m, n, o) /\ WriteSlot(m, n, o) < write_start
    BY DEF ReplayInv, SlotsApart
  <2>3. DOMAIN witness = 0 .. write_start - 1
    BY <1>4
  <2> QED
    BY <1>5, <2>1, <2>2, <2>3
<1>7. \A j \in DOMAIN circuit.output_targets[Gen(k, i)] : HasOutput(k, i, j)
  BY DEF HasOutput
<1>8. ASSUME NEW n \in DOMAIN circuit.input_targets
      PROVE  witness'[n - 1] = circuit.input_targets[n]
  <2>1. n - 1 \in DOMAIN witness /\ n - 1 < NumInputs /\ n - 1 \in Int
    BY <1>4, <1>5
  <2>2. \A j \in DOMAIN circuit.output_targets[Gen(k, i)] : WriteSlot(k, i, j) # n - 1
    BY <1>5, <1>6, <1>7, <2>1
  <2> QED
    BY <1>2, <1>4, <2>1, <2>2 DEF RunInv
<1>9. ASSUME NEW m, NEW n, NEW o, HasOutput(m, n, o)
      PROVE  witness'[WriteSlot(m, n, o)] = IF Gen(m, n) \in ran' THEN Output(m, n, o) ELSE Garbage
  <2>1. CASE m = k /\ n = i
    <3>1. o \in DOMAIN circuit.output_targets[Gen(k, i)]
      BY <1>9, <2>1 DEF HasOutput
    <3> QED
      BY <1>1, <1>4, <2>1, <3>1
  <2>2. CASE ~ (m = k /\ n = i)
    <3>1. Gen(m, n) # Gen(k, i)
      BY <1>9, <2>2 DEF ReplayInv, BatchesInv, HasOutput
    <3>2. \A j \in DOMAIN circuit.output_targets[Gen(k, i)] : WriteSlot(k, i, j) # WriteSlot(m, n, o)
      BY <1>7, <1>9, <2>2 DEF ReplayInv, SlotsApart
    <3>3. witness'[WriteSlot(m, n, o)] = witness[WriteSlot(m, n, o)]
      BY <1>4, <1>6, <1>9, <3>2
    <3>4. witness[WriteSlot(m, n, o)] = IF Gen(m, n) \in ran THEN Output(m, n, o) ELSE Garbage
      BY <1>2, <1>9 DEF RunInv
    <3> QED
      BY <1>1, <3>1, <3>3, <3>4
  <2> QED
    BY <2>1, <2>2
<1>10. ASSUME NEW x, NEW y, NEW m, NEW n, InBatch(x, y), InBatch(m, n),
              Gen(x, y) \in ran', batches[m].layer < batches[x].layer
       PROVE  Gen(m, n) \in ran'
  <2>1. CASE Gen(x, y) \in ran
    BY <1>1, <1>2, <1>10, <2>1 DEF RunInv
  <2>2. CASE Gen(x, y) = Gen(k, i)
    <3>1. x = k
      BY <1>10, <2>2 DEF ReplayInv, BatchesInv
    <3>2. Gen(m, n) \in ran
      BY <1>10, <3>1, EarlierRan
    <3> QED
      BY <1>1, <3>2
  <2> QED
    BY <1>1, <1>10, <2>1, <2>2
<1>11. ran' \subseteq Generator
  BY <1>1, <1>2, <1>3 DEF RunInv
<1>12. /\ circuit' = circuit /\ phase' = phase /\ write_start' = write_start /\ batches' = batches
       /\ \A g : Laid(g)' <=> Laid(g)
       /\ \A x, y : (InBatch(x, y)' <=> InBatch(x, y)) /\ Gen(x, y)' = Gen(x, y)
       /\ \A x, y, j : /\ HasOutput(x, y, j)' <=> HasOutput(x, y, j)
                       /\ Output(x, y, j)' = Output(x, y, j)
                       /\ WriteSlot(x, y, j)' = WriteSlot(x, y, j)
  BY <1>1, WritesStable
<1>13. RunInv'
  BY <1>8, <1>9, <1>10, <1>11, <1>12 DEF RunInv
<1> QED
  BY <1>1, <1>2, <1>4, <1>12, <1>13 DEF WitnessInv

LEMMA ScatterInv ==
  ASSUME ReplayInv, Scatter
  PROVE  WitnessInv'
<1>1. /\ UNCHANGED <<vars, layout>> /\ witness' = witness /\ ran' = ran
      /\ stage = "replay" /\ stage' = "scattered"
  BY DEF Scatter
<1>2. /\ RunInv /\ phase = "done" /\ \A g \in Generator : Laid(g)
      /\ witness \in [0 .. write_start - 1 -> Target \cup {Garbage}]
  BY <1>1 DEF ReplayInv, WitnessInv
<1>3. RunInv'
  BY <1>1, <1>2, WritesStable DEF RunInv
<1> QED
  BY <1>1, <1>2, <1>3, WritesStable DEF WitnessInv

\* What the scatter takes from a target's slot is the target's value.
LEMMA ScatterRight ==
  ASSUME ReplayInv, ScheduleSound, Scatter
  PROVE  WitnessCorrect'
<1>1. /\ UNCHANGED <<vars, layout>> /\ stage = "replay" /\ ran = Generator
      /\ full_witness' = [t \in Target |->
           IF write_map[t] = NoSlot THEN Zero ELSE witness[write_map[t]]]
  BY DEF Scatter
<1>2. /\ RunInv /\ phase = "done" /\ \A g \in Generator : Laid(g)
  BY <1>1 DEF ReplayInv, WitnessInv
<1>3. Produced' = Produced
  BY <1>1 DEF Produced, vars
<1> SUFFICES ASSUME NEW t \in Target
             PROVE  full_witness'[t] = IF t \in Produced THEN t ELSE Zero
  BY <1>3 DEF WitnessCorrect
<1>4. write_map[t] # NoSlot <=> t \in Produced
  BY <1>2 DEF ReplayInv, MapInv, ScheduleSound
<1>5. ASSUME t \in Produced PROVE witness[write_map[t]] = t
  <2>1. Home(t)
    BY <1>4, <1>5 DEF ReplayInv, MapInv
  <2>2. CASE t \in Inputs
    BY <1>2, <2>1, <2>2 DEF Home, RunInv
  <2>3. CASE t \notin Inputs
    <3>1. PICK k, i, j : /\ HasOutput(k, i, j) /\ Output(k, i, j) = t
                         /\ write_map[t] = WriteSlot(k, i, j)
      BY <2>1, <2>3 DEF Home
    <3>2. Gen(k, i) \in ran
      BY <1>1, <3>1, GenTyped DEF HasOutput, ReplayInv
    <3> QED
      BY <1>2, <3>1, <3>2 DEF RunInv
  <2> QED
    BY <2>2, <2>3
<1> QED
  BY <1>1, <1>4, <1>5

-----------------------------------------------------------------------------
(***************************************************************************)
(* The theorems.                                                           *)
(***************************************************************************)
LEMMA SoundWhenSorted ==
  ASSUME ReplayInv, phase = "done"
  PROVE  ScheduleSound
BY LegalWhenSorted, PopulatedWhenSorted, SchedulesSound DEF ReplayInv

\* Each step of build and prove, and what it needs of the schedule.
LEMMA StepCases ==
  ASSUME ReplayInv, [ReplayNext]_all
  PROVE  \/ SortStep
         \/ \E ty \in Type : \E order \in SetToSeqs(BatchOf(lay, ty)) :
              LayOutBatch(ty, order) /\ ScheduleSound
         \/ NextLayer /\ ScheduleSound
         \/ BuildEnd /\ ScheduleSound
         \/ UploadInputs
         \/ \E k, i : InBatch(k, i) /\ RunThread(k, i) /\ ScheduleSound
         \/ Scatter /\ ScheduleSound
         \/ UNCHANGED all
<1>1. stage # "build" => phase = "done"
  BY DEF ReplayInv, WitnessInv
<1>2. ASSUME NEW ty \in Type, NEW order \in SetToSeqs(BatchOf(lay, ty)), LayOutBatch(ty, order)
      PROVE  ScheduleSound
  BY <1>2, SoundWhenSorted DEF LayOutBatch
<1>3. (NextLayer \/ BuildEnd) => ScheduleSound
  BY SoundWhenSorted DEF NextLayer, BuildEnd
<1>4. Scatter => ScheduleSound
  BY <1>1, SoundWhenSorted DEF Scatter
<1>5. ASSUME NEW k, NEW i, RunThread(k, i) PROVE ScheduleSound
  BY <1>1, <1>5, SoundWhenSorted DEF RunThread
<1> QED
  BY <1>2, <1>3, <1>4, <1>5 DEF ReplayNext, Prove, Scattered, InBatch

LEMMA ReplayStep ==
  ASSUME ReplayInv, [ReplayNext]_all
  PROVE  ReplayInv'
<1>1. (TypeOK /\ SortInv /\ ProduceInv /\ FrontierInv)'
  BY SortedKept
<1> SUFFICES LayoutInv' /\ WitnessInv'
  BY <1>1 DEF LayoutInv, ReplayInv
<1>2. LayoutInv /\ WitnessInv
  BY DEF ReplayInv, LayoutInv
<1>3. CASE SortStep
  BY <1>1, <1>3, SortStepInv
<1>4. ASSUME NEW ty \in Type, NEW order \in SetToSeqs(BatchOf(lay, ty)),
             LayOutBatch(ty, order), ScheduleSound
      PROVE  LayoutInv' /\ WitnessInv'
  <2>1. LayoutInv'
    BY <1>4, LayOutBatchInv
  <2>2. stage = "build" /\ stage' = stage /\ witness' = witness
    BY <1>4 DEF LayOutBatch, device
  <2> QED
    BY <1>2, <2>1, <2>2 DEF WitnessInv
<1>5. CASE NextLayer /\ ScheduleSound
  <2>1. LayoutInv'
    BY <1>5, NextLayerInv
  <2>2. stage = "build" /\ stage' = stage /\ witness' = witness
    BY <1>5 DEF NextLayer, device
  <2> QED
    BY <1>2, <2>1, <2>2 DEF WitnessInv
<1>6. CASE BuildEnd /\ ScheduleSound
  <2>1. UNCHANGED <<vars, layout>>
    BY <1>6 DEF BuildEnd
  <2> QED
    BY <1>2, <1>6, <2>1, LayoutStable, BuildEndInv
<1>7. CASE UploadInputs
  <2>1. UNCHANGED <<vars, layout>>
    BY <1>7 DEF UploadInputs
  <2> QED
    BY <1>2, <1>7, <2>1, LayoutStable, UploadInputsInv
<1>8. ASSUME NEW k, NEW i, InBatch(k, i), RunThread(k, i), ScheduleSound
      PROVE  LayoutInv' /\ WitnessInv'
  <2>1. UNCHANGED <<vars, layout>>
    BY <1>8 DEF RunThread
  <2> QED
    BY <1>2, <1>8, <2>1, LayoutStable, RunThreadInv
<1>9. CASE Scatter
  <2>1. UNCHANGED <<vars, layout>>
    BY <1>9 DEF Scatter
  <2> QED
    BY <1>2, <1>9, <2>1, LayoutStable, ScatterInv
<1>10. CASE UNCHANGED all
  <2>1. UNCHANGED <<vars, layout>> /\ UNCHANGED <<stage, witness, ran>>
    BY <1>10 DEF all, device
  <2>2. RunInv => RunInv'
    BY <2>1, WritesStable DEF RunInv
  <2>3. WitnessInv'
    BY <1>2, <2>1, <2>2, WritesStable DEF WitnessInv
  <2> QED
    BY <1>2, <2>1, <2>3, LayoutStable
<1> QED
  BY <1>3, <1>4, <1>5, <1>6, <1>7, <1>8, <1>9, <1>10, StepCases

\* The inductive invariant of build and prove holds in every state, for every
\* circuit, policy and interleaving of the kernels' threads.
THEOREM ReplayInvariant == ReplaySpec => []ReplayInv
<1>1. ReplayInv /\ [ReplayNext]_all => ReplayInv'
  BY ReplayStep
<1> QED
  BY <1>1, ReplayInitInv, PTL DEF ReplaySpec

\* The scatter of a prove (witgen.rs, scatter_witness) puts on every wire the
\* value of its own target, and zero on the wires nothing reaches.
THEOREM WitnessRight == ReplaySpec => []WitnessCorrect
<1>1. ReplayInit => WitnessCorrect
  BY DEF ReplayInit, WitnessCorrect
<1>2. ReplayInv /\ WitnessCorrect /\ [ReplayNext]_all => WitnessCorrect'
  <2> SUFFICES ASSUME ReplayInv, WitnessCorrect, [ReplayNext]_all
               PROVE  WitnessCorrect'
    OBVIOUS
  <2>1. CASE Scatter /\ ScheduleSound
    BY <2>1, ScatterRight
  <2>2. CASE UNCHANGED all
    <3>1. UNCHANGED <<stage, full_witness, producer>>
      BY <2>2 DEF all, vars, device
    <3> QED
      BY <3>1 DEF WitnessCorrect, Produced
  <2>3. CASE stage' # "scattered"
    BY <2>3 DEF WitnessCorrect
  <2> QED
    BY <2>1, <2>2, <2>3, StepCases
       DEF SortStep, LayOutBatch, NextLayer, BuildEnd, UploadInputs, RunThread
<1> QED
  BY <1>1, <1>2, ReplayInvariant, PTL DEF ReplaySpec

\* Within a replay no thread writes over a value this replay has put in a slot.
THEOREM WrittenOnce == ReplaySpec => SlotsWrittenOnce
<1> DEFINE Kept == stage = "replay" =>
             \A s \in DOMAIN witness : witness[s] \in Target => witness'[s] = witness[s]
<1>1. ReplayInv /\ [ReplayNext]_all => [Kept]_all
  <2> SUFFICES ASSUME ReplayInv, [ReplayNext]_all, stage = "replay"
               PROVE  \A s \in DOMAIN witness : witness[s] \in Target => witness'[s] = witness[s]
    OBVIOUS
  <2>1. ASSUME NEW k, NEW i, InBatch(k, i), RunThread(k, i), ScheduleSound
        PROVE  \A s \in DOMAIN witness : witness[s] \in Target => witness'[s] = witness[s]
    <3>1. Garbage \notin Target
      BY GarbageAssumption
    <3> QED
      BY <2>1, <3>1, ThreadWrites
  <2>2. CASE UNCHANGED witness
    BY <2>2
  <2> QED
    BY <2>1, <2>2, StepCases
       DEF SortStep, LayOutBatch, NextLayer, BuildEnd, UploadInputs, Scatter, all, device
<1> QED
  BY <1>1, ReplayInvariant, PTL DEF ReplaySpec, SlotsWrittenOnce

-----------------------------------------------------------------------------
(***************************************************************************)
(* The replay does what the CPU may do.                                    *)
(***************************************************************************)
Known == {t \in Target : \E s \in DOMAIN witness : witness[s] = t}

\* A thread runs its generator: what it watches is known, and what becomes known
\* are its outputs.
LEMMA ThreadRuns ==
  ASSUME ReplayInv, ScheduleSound, NEW k, NEW i, InBatch(k, i), RunThread(k, i)
  PROVE  /\ Gen(k, i) \in Generator /\ circuit' = circuit
         /\ Watched(Gen(k, i)) \subseteq Known
         /\ Known' = Known \cup Outputs(Gen(k, i))
<1>1. Gen(k, i) \in Generator /\ circuit' = circuit
  BY GenTyped DEF ReplayInv, RunThread, vars
<1>2. /\ circuit.watch_list[Gen(k, i)] \in Seq(Target)
      /\ circuit.output_targets[Gen(k, i)] \in Seq(Target)
  BY <1>1, CircuitTypes DEF ReplayInv
<1>3. Watched(Gen(k, i)) \subseteq Known
  <2>1. ReadsWell(k, i)
    BY ThreadReadsWell
  <2>2. ASSUME NEW j \in DOMAIN circuit.watch_list[Gen(k, i)]
        PROVE  circuit.watch_list[Gen(k, i)][j] \in Known
    <3>1. /\ ReadSlot(k, i, j) \in DOMAIN witness
          /\ witness[ReadSlot(k, i, j)] = circuit.watch_list[Gen(k, i)][j]
      BY <2>1 DEF ReadsWell, Gen
    <3>2. circuit.watch_list[Gen(k, i)][j] \in Target
      BY <1>2
    <3> QED
      BY <3>1, <3>2 DEF Known
  <2> QED
    BY <2>2 DEF Watched, Elems
<1>4. /\ \A j \in DOMAIN circuit.output_targets[Gen(k, i)] :
              /\ WriteSlot(k, i, j) \in DOMAIN witness
              /\ witness[WriteSlot(k, i, j)] = Garbage
              /\ witness'[WriteSlot(k, i, j)] = Output(k, i, j)
      /\ \A s \in DOMAIN witness :
              (\A j \in DOMAIN circuit.output_targets[Gen(k, i)] : WriteSlot(k, i, j) # s)
                => witness'[s] = witness[s]
      /\ DOMAIN witness' = DOMAIN witness
  <2>1. /\ witness \in [0 .. write_start - 1 -> Target \cup {Garbage}]
        /\ witness' \in [0 .. write_start - 1 -> Target \cup {Garbage}]
    BY ThreadWrites
  <2>2. DOMAIN witness' = DOMAIN witness
    BY <2>1
  <2> QED
    BY <2>2, ThreadWrites
<1>5. \A j \in DOMAIN circuit.output_targets[Gen(k, i)] :
        Output(k, i, j) \in Target /\ Output(k, i, j) \in Outputs(Gen(k, i))
  BY <1>2 DEF Output, Outputs, Elems
<1>6. Garbage \notin Target
  BY GarbageAssumption
<1>7. ASSUME NEW t \in Known' PROVE t \in Known \cup Outputs(Gen(k, i))
  <2>1. PICK s \in DOMAIN witness : t \in Target /\ witness'[s] = t
    BY <1>4 DEF Known
  <2>2. CASE \E j \in DOMAIN circuit.output_targets[Gen(k, i)] : WriteSlot(k, i, j) = s
    BY <1>4, <1>5, <2>1, <2>2
  <2>3. CASE \A j \in DOMAIN circuit.output_targets[Gen(k, i)] : WriteSlot(k, i, j) # s
    BY <1>4, <2>1, <2>3 DEF Known
  <2> QED
    BY <2>2, <2>3
<1>8. ASSUME NEW t \in Known PROVE t \in Known'
  <2>1. PICK s \in DOMAIN witness : t \in Target /\ witness[s] = t
    BY DEF Known
  <2>2. witness'[s] = t
    BY <1>4, <1>6, <2>1
  <2> QED
    BY <1>4, <2>1, <2>2 DEF Known
<1>9. ASSUME NEW t \in Outputs(Gen(k, i)) PROVE t \in Known'
  <2>1. PICK j \in DOMAIN circuit.output_targets[Gen(k, i)] : Output(k, i, j) = t
    BY DEF Outputs, Output, Elems
  <2>2. witness'[WriteSlot(k, i, j)] = t /\ WriteSlot(k, i, j) \in DOMAIN witness' /\ t \in Target
    BY <1>4, <1>5, <2>1
  <2> QED
    BY <2>2 DEF Known
<1>10. Known' = Known \cup Outputs(Gen(k, i))
  BY <1>7, <1>8, <1>9
<1> QED
  BY <1>1, <1>3, <1>10

\* The GPU witness is one the CPU's generate_partial_witness could have made:
\* the upload sets the inputs, each thread runs one generator, and the sort, the
\* layout, the warm-up and the scatter are invisible.
THEOREM RefinesPartialWitness == ReplaySpec => ImplementsPartialWitness
<1>1. ReplayInit => CPU!Start
  <2> SUFFICES ASSUME ReplayInit PROVE Known = {}
    BY DEF CPU!Start, Known
  <2>1. DOMAIN witness = {}
    BY DEF ReplayInit
  <2> QED
    BY <2>1 DEF Known
<1>2. ReplayInv /\ [ReplayNext]_all => [CPU!Populate]_<<circuit, Known>>
  <2> SUFFICES ASSUME ReplayInv, [ReplayNext]_all
               PROVE  CPU!Populate \/ (circuit' = circuit /\ Known' = Known)
    OBVIOUS
  <2>1. ASSUME NEW k, NEW i, InBatch(k, i), RunThread(k, i), ScheduleSound
        PROVE  CPU!Populate
    <3>1. PICK g \in Generator : /\ circuit' = circuit
                                 /\ Watched(g) \subseteq Known
                                 /\ Known' = Known \cup Outputs(g)
      BY <2>1, ThreadRuns
    <3>2. CPU!RunGenerator(g)
      BY <3>1 DEF CPU!RunGenerator, CPU!ElemsOf, Known, Watched, Outputs, Elems
    <3> QED
      BY <3>2 DEF CPU!Populate
  <2>2. CASE UploadInputs
    <3>1. circuit' = circuit /\ stage = "built"
      BY <2>2 DEF UploadInputs, vars
    <3>2. Known = {}
      <4>1. \A s \in DOMAIN witness : witness[s] = Garbage
        BY <3>1 DEF ReplayInv, WitnessInv
      <4> QED
        BY <4>1, GarbageAssumption DEF Known
    <3>3. Known' = Inputs
      <4>1. \A t \in Target : (\E s \in DOMAIN witness' : witness'[s] = t) <=> t \in Inputs
        BY <2>2, UploadInputsInv
      <4>2. Inputs \subseteq Target
        BY ListsTyped DEF ReplayInv
      <4> QED
        BY <4>1, <4>2 DEF Known
    <3>4. CPU!SetInputs
      BY <3>1, <3>2, <3>3 DEF CPU!SetInputs, CPU!ElemsOf, Known, Inputs, Elems
    <3> QED
      BY <3>4 DEF CPU!Populate
  <2>3. CASE UNCHANGED <<circuit, witness>>
    BY <2>3 DEF Known
  <2>4. CASE BuildEnd
    <3>1. circuit' = circuit /\ witness' = [s \in 0 .. write_start - 1 |-> Garbage]
          /\ witness = <<>>
      BY <2>4 DEF BuildEnd, vars, ReplayInv, WitnessInv
    <3>2. Known = {}
      <4>1. DOMAIN witness = {}
        BY <3>1
      <4> QED
        BY <4>1 DEF Known
    <3>3. Known' = {}
      <4>1. \A s \in DOMAIN witness' : witness'[s] = Garbage
        BY <3>1
      <4> QED
        BY <4>1, GarbageAssumption DEF Known
    <3> QED
      BY <3>1, <3>2, <3>3
  <2>5. SortStep => UNCHANGED <<circuit, witness>>
    BY SortFacts DEF SortStep, device
  <2>6. ASSUME NEW ty, NEW order, LayOutBatch(ty, order) PROVE UNCHANGED <<circuit, witness>>
    BY <2>6 DEF LayOutBatch, vars, device
  <2>7. NextLayer \/ Scatter \/ UNCHANGED all => UNCHANGED <<circuit, witness>>
    BY DEF NextLayer, Scatter, all, vars, device
  <2> QED
    BY <2>1, <2>2, <2>3, <2>4, <2>5, <2>6, <2>7, StepCases
<1>3. <<circuit, Known>> = <<circuit, {t \in Target : \E s \in DOMAIN witness : witness[s] = t}>>
  BY DEF Known
<1> QED
  BY <1>1, <1>2, <1>3, ReplayInvariant, PTL DEF ReplaySpec, ImplementsPartialWitness, CPU!Spec, Known
================================================================================
