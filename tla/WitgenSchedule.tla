--------------------------- MODULE WitgenSchedule ---------------------------
(***************************************************************************)
(* WitnessService::build (integration/witgen.rs), first half: the witness  *)
(* generators of a circuit are sorted into layers, and the GPU later runs  *)
(* a whole layer at once.                                                  *)
(*                                                                         *)
(* The sort has five parts, and each is a phase here:                      *)
(*   "produce"  a breadth-first pass names the producer of every target;   *)
(*   "asap"     Kahn's algorithm forwards, earliest level of a generator;  *)
(*   "alap"     Kahn's algorithm backwards, latest level of a generator;   *)
(*   "fill"     the custom policy joins generators with slack to a layer   *)
(*              that already holds a critical generator of their type;     *)
(*   "leftover" what is left is placed group by group, largest first.      *)
(* "done" is a finished sort.  A failed assert or expect is a state with   *)
(* no step, described by GeneratorsWerentRun and NoSchedulableGenerators.  *)
(*                                                                         *)
(* A Target is a copy-constraint class: representative_map has been        *)
(* applied.  The counters of the code (indeg_target, indeg, outdeg) count  *)
(* the elements not yet seen of a fixed set, so they are derived from the  *)
(* set.  A work list is a set: the code fills it from HashSet iterations,  *)
(* whose order is arbitrary, and the model lets any element be next.       *)
(***************************************************************************)
EXTENDS Integers, FiniteSets, Sequences

CONSTANTS
  Generator,            \* the generators, 0 .. n-1 in the code
  Target,               \* representatives of the circuit's targets
  Type,                 \* generator ids; numbers, for the order of BTreeMap keys
  Circuits,             \* the circuits the builder may hand over
  ChainFastMinLevels    \* CHAIN_FAST_MIN_LEVELS

Circuit ==
  [ watch_list     : [Generator -> Seq(Target)],
    output_targets : [Generator -> Seq(Target)],
    id             : [Generator -> Type],
    input_targets  : Seq(Target) ]

ASSUME CircuitsAssumption  == Circuits \subseteq Circuit
ASSUME GeneratorAssumption == Generator # {}
ASSUME TypeAssumption      == Type \subseteq Nat
ASSUME LevelsAssumption    == ChainFastMinLevels \in Nat

Unplaced == -1                     \* usize::MAX in `scheduled`

\* What target_producer holds for a target.
Source == [kind : {"none", "input"}] \cup [kind : {"gen"}, gen : Generator]
NoSource    == [kind |-> "none"]
InputSource == [kind |-> "input"]   \* producer == usize::MAX
By(g)       == [kind |-> "gen", gen |-> g]

VARIABLES
  circuit,      \* the circuit being compiled
  phase,
  producer,     \* target_producer
  cur, next,    \* cur_generators, next_generators
  queue,        \* generators in the Kahn queue
  popped,       \* generators already taken out of it
  asap, alap,
  max_level,
  scheduled,    \* level of a generator, the layer it was pushed to
  level, types  \* cursor of the fill: level, and its types still to scan

vars == <<circuit, phase, producer, cur, next, queue, popped,
          asap, alap, max_level, scheduled, level, types>>

-----------------------------------------------------------------------------
Elems(s) == {s[i] : i \in DOMAIN s}

Watched(g) == Elems(circuit.watch_list[g])
Outputs(g) == Elems(circuit.output_targets[g])
Inputs     == Elems(circuit.input_targets)

Produced == {t \in Target : producer[t] # NoSource}

Pred(g) == {p \in Generator \ {g} : \E t \in Watched(g) : producer[t] = By(p)}
Succ(g) == {s \in Generator : g \in Pred(s)}

Larger(a, b)  == IF a >= b THEN a ELSE b
Smaller(a, b) == IF a <= b THEN a ELSE b

Init ==
  /\ circuit \in Circuits
  /\ phase = "produce"
  /\ producer = [t \in Target |-> IF t \in Inputs THEN InputSource ELSE NoSource]
  /\ cur = {g \in Generator : Watched(g) \subseteq Inputs}
  /\ next = {}
  /\ queue = {} /\ popped = {}
  /\ asap = [g \in Generator |-> 0]
  /\ alap = [g \in Generator |-> 0]
  /\ max_level = 0
  /\ scheduled = [g \in Generator |-> Unplaced]
  /\ level = 0 /\ types = {}

-----------------------------------------------------------------------------
\* One generator of the current frontier: it becomes the producer of those of
\* its outputs that have none, and generators whose last watched target this
\* was join the next frontier.
VisitGenerator(g) ==
  LET new == {t \in Outputs(g) : producer[t] = NoSource}
      woken == {h \in Generator :
                  /\ Watched(h) \subseteq Produced \cup new
                  /\ ~ (Watched(h) \subseteq Produced)}
  IN  /\ phase = "produce"
      /\ g \in cur
      /\ producer' = [t \in Target |-> IF t \in new THEN By(g) ELSE producer[t]]
      /\ cur' = cur \ {g}
      /\ next' = next \cup woken
      /\ UNCHANGED <<circuit, phase, queue, popped, asap, alap,
                     max_level, scheduled, level, types>>

SwapFrontier ==
  /\ phase = "produce"
  /\ cur = {} /\ next # {}
  /\ cur' = next
  /\ next' = {}
  /\ UNCHANGED <<circuit, phase, producer, queue, popped, asap,
                 alap, max_level, scheduled, level, types>>

\* The frontier is empty: pred and succ are built and the forward pass starts.
StartAsap ==
  /\ phase = "produce"
  /\ cur = {} /\ next = {}
  /\ phase' = "asap"
  /\ asap' = [g \in Generator |-> 0]
  /\ queue' = {g \in Generator : Pred(g) = {}}
  /\ popped' = {}
  /\ UNCHANGED <<circuit, producer, cur, next, alap, max_level, scheduled,
                 level, types>>

AsapPop(u) ==
  /\ phase = "asap"
  /\ u \in queue
  /\ asap' = [v \in Generator |-> IF v \in Succ(u)
                                    THEN Larger(asap[v], asap[u] + 1)
                                    ELSE asap[v]]
  /\ popped' = popped \cup {u}
  /\ queue' = (queue \ {u}) \cup {v \in Succ(u) : Pred(v) \subseteq popped'}
  /\ UNCHANGED <<circuit, phase, producer, cur, next, alap,
                 max_level, scheduled, level, types>>

\* remaining_generators counts down once per push onto the queue.
AllPushed == popped \cup queue = Generator

\* Mutant: max_level is the number of levels instead of the last level.
StartAlapOneMore ==
  /\ phase = "asap"
  /\ queue = {}
  /\ AllPushed
  /\ \E m \in {asap[g] : g \in Generator} :
       /\ \A g \in Generator : asap[g] <= m
       /\ max_level' = m + 1
       /\ alap' = [g \in Generator |-> m + 1]
  /\ phase' = "alap"
  /\ queue' = {g \in Generator : Succ(g) = {}}
  /\ popped' = {}
  /\ UNCHANGED <<circuit, producer, cur, next, asap, scheduled, level, types>>

StartAlap ==
  /\ phase = "asap"
  /\ queue = {}
  /\ AllPushed
  /\ \E m \in {asap[g] : g \in Generator} :
       /\ \A g \in Generator : asap[g] <= m
       /\ max_level' = m
       /\ alap' = [g \in Generator |-> m]
  /\ phase' = "alap"
  /\ queue' = {g \in Generator : Succ(g) = {}}
  /\ popped' = {}
  /\ UNCHANGED <<circuit, producer, cur, next, asap, scheduled,
                 level, types>>

\* Mutant: a predecessor may share its successor's level.
AlapPopSameLevel(u) ==
  /\ phase = "alap"
  /\ u \in queue
  /\ alap' = [p \in Generator |-> IF p \in Pred(u)
                                    THEN Smaller(alap[p], alap[u]) ELSE alap[p]]
  /\ popped' = popped \cup {u}
  /\ queue' = (queue \ {u}) \cup {p \in Pred(u) : Succ(p) \subseteq popped'}
  /\ UNCHANGED <<circuit, phase, producer, cur, next, asap,
                 max_level, scheduled, level, types>>

AlapPop(u) ==
  /\ phase = "alap"
  /\ u \in queue
  /\ alap' = [p \in Generator |-> IF p \in Pred(u)
                                    THEN Smaller(alap[p], alap[u] - 1)
                                    ELSE alap[p]]
  /\ popped' = popped \cup {u}
  /\ queue' = (queue \ {u}) \cup {p \in Pred(u) : Succ(p) \subseteq popped'}
  /\ UNCHANGED <<circuit, phase, producer, cur, next, asap,
                 max_level, scheduled, level, types>>

\* assert_eq!(remaining_generators, 0, "{} generators weren't run"), after each
\* of the two passes; a failed assert ends the build.
GeneratorsWerentRun ==
  phase \in {"asap", "alap"} /\ queue = {} /\ ~ AllPushed

Passed == phase = "alap" /\ queue = {} /\ AllPushed

-----------------------------------------------------------------------------
Critical == {g \in Generator : alap[g] = asap[g]}       \* slack 0
Waiting  == {g \in Generator : scheduled[g] = Unplaced}

\* layer[l].keys(): the types of the generators on level l.
LayerTypes(sched, l) == {circuit.id[g] : g \in {h \in Generator : sched[h] = l}}

ChainFast == Critical = Generator \/ max_level > ChainFastMinLevels

\* The policy is the value of PLONKY2_WITGEN_SCHEDULING, read here: "asap" and
\* "alap" put everything at that level, any other value is the custom policy.
PlaceAllAsap ==
  /\ Passed
  /\ scheduled' = asap
  /\ phase' = "done"
  /\ UNCHANGED <<circuit, producer, cur, next, queue, popped, asap, alap,
                 max_level, level, types>>

PlaceAllAlap ==
  /\ Passed
  /\ scheduled' = alap
  /\ phase' = "done"
  /\ UNCHANGED <<circuit, producer, cur, next, queue, popped, asap, alap,
                 max_level, level, types>>

\* custom-chain-fast: the generators without slack and the leftovers alike are
\* pushed at their asap level.
PlaceChainFast ==
  /\ Passed
  /\ ChainFast
  /\ scheduled' = asap
  /\ phase' = "done"
  /\ UNCHANGED <<circuit, producer, cur, next, queue, popped, asap, alap,
                 max_level, level, types>>

\* Otherwise the custom policy first pins the generators without slack.
PlaceCritical ==
  /\ Passed
  /\ ~ ChainFast
  /\ scheduled' = [g \in Generator |-> IF g \in Critical THEN asap[g] ELSE Unplaced]
  /\ phase' = "fill"
  /\ level' = 0
  /\ types' = LayerTypes(scheduled', 0)
  /\ UNCHANGED <<circuit, producer, cur, next, queue, popped, asap,
                 alap, max_level>>

\* `scheduled[p] < level || alap[p] < level`, usize::MAX being below nothing.
PredBefore(p, l) ==
  \/ scheduled[p] # Unplaced /\ scheduled[p] < l
  \/ alap[p] < l

\* Mutant: the predecessors are not looked at.
FillCandidatesInWindow(ty, l) ==
  {g \in Waiting : circuit.id[g] = ty /\ asap[g] <= l /\ l <= alap[g]}

\* Mutant: generators that are placed already are candidates again.
FillCandidatesAgain(ty, l) ==
  {g \in Generator : /\ circuit.id[g] = ty
                     /\ asap[g] <= l /\ l <= alap[g]
                     /\ \A p \in Pred(g) : PredBefore(p, l)}

FillCandidates(ty, l) ==
  {g \in Waiting : /\ circuit.id[g] = ty
                   /\ asap[g] <= l /\ l <= alap[g]
                   /\ \A p \in Pred(g) : PredBefore(p, l)}

\* One (level, type) of the fill: all candidates are collected against the
\* placement as it stands, then all of them are placed on the level.
FillType(ty) ==
  /\ phase = "fill"
  /\ ty \in types
  /\ \A other \in types : ty <= other
  /\ scheduled' = [g \in Generator |-> IF g \in FillCandidates(ty, level)
                                         THEN level ELSE scheduled[g]]
  /\ types' = types \ {ty}
  /\ UNCHANGED <<circuit, phase, producer, cur, next, queue,
                 popped, asap, alap, max_level, level>>

\* Mutant: the level is not advanced.
FillSameLevel ==
  /\ phase = "fill"
  /\ types = {}
  /\ level < max_level
  /\ types' = LayerTypes(scheduled, level)
  /\ UNCHANGED <<circuit, phase, producer, cur, next, queue,
                 popped, asap, alap, max_level, scheduled, level>>

FillNextLevel ==
  /\ phase = "fill"
  /\ types = {}
  /\ level < max_level
  /\ level' = level + 1
  /\ types' = LayerTypes(scheduled, level + 1)
  /\ UNCHANGED <<circuit, phase, producer, cur, next, queue,
                 popped, asap, alap, max_level, scheduled>>

FillEnd ==
  /\ phase = "fill"
  /\ types = {}
  /\ level = max_level
  /\ phase' = "leftover"
  /\ UNCHANGED <<circuit, producer, cur, next, queue, popped, asap,
                 alap, max_level, scheduled, level, types>>

\* Where a leftover may still go: r ..= alap[g], r past every predecessor's
\* level, or past the last level it may yet get.
PredEnds(p) == IF scheduled[p] # Unplaced THEN scheduled[p] ELSE alap[p]

\* Mutant: the range of levels excludes alap.
BucketExclusive(l, ty) ==
  {g \in Waiting : /\ circuit.id[g] = ty
                   /\ asap[g] <= l /\ l < alap[g]
                   /\ \A p \in Pred(g) : PredEnds(p) + 1 <= l}

Bucket(l, ty) ==
  {g \in Waiting : /\ circuit.id[g] = ty
                   /\ asap[g] <= l /\ l <= alap[g]
                   /\ \A p \in Pred(g) : PredEnds(p) + 1 <= l}

\* The first of the largest buckets, by level and then by type.
IsBest(l, ty) ==
  \A m \in 0 .. max_level, other \in Type :
    \/ Cardinality(Bucket(m, other)) < Cardinality(Bucket(l, ty))
    \/ /\ Cardinality(Bucket(m, other)) = Cardinality(Bucket(l, ty))
       /\ l < m \/ (l = m /\ ty <= other)

PlaceLeftover(l, ty) ==
  /\ phase = "leftover"
  /\ Waiting # {}
  /\ Bucket(l, ty) # {}
  /\ IsBest(l, ty)
  /\ scheduled' = [g \in Generator |-> IF g \in Bucket(l, ty)
                                         THEN l ELSE scheduled[g]]
  /\ UNCHANGED <<circuit, phase, producer, cur, next, queue,
                 popped, asap, alap, max_level, level, types>>

\* best_level.expect("no schedulable generators"); a failed expect ends the build.
NoSchedulableGenerators ==
  /\ phase = "leftover"
  /\ Waiting # {}
  /\ \A l \in 0 .. max_level, ty \in Type : Bucket(l, ty) = {}

Finish ==
  /\ phase = "leftover"
  /\ Waiting = {}
  /\ phase' = "done"
  /\ UNCHANGED <<circuit, producer, cur, next, queue, popped, asap,
                 alap, max_level, scheduled, level, types>>

-----------------------------------------------------------------------------
Sort ==
  \/ \E g \in Generator : VisitGenerator(g) \/ AsapPop(g) \/ AlapPop(g)
  \/ SwapFrontier
  \/ StartAsap
  \/ StartAlap
  \/ PlaceAllAsap
  \/ PlaceAllAlap
  \/ PlaceChainFast
  \/ PlaceCritical
  \/ \E ty \in Type : FillType(ty)
  \/ FillNextLevel
  \/ FillEnd
  \/ \E l \in 0 .. max_level, ty \in Type : PlaceLeftover(l, ty)
  \/ Finish

\* The sort has returned; nothing is left to do.
Sorted == phase = "done" /\ UNCHANGED vars

Next == Sort \/ Sorted

\* build runs on one thread to its end.
Spec == Init /\ [][Next]_vars /\ WF_vars(Sort)

-----------------------------------------------------------------------------
\* Type correctness of the sort: what WitnessService::build keeps of the circuit
\* (producers, asap and alap levels, layers) stays within its declared range at
\* every step; alap[u] - 1, a usize in the code, never goes below zero.
TypeOK ==
  /\ circuit \in Circuit
  /\ phase \in {"produce", "asap", "alap", "fill", "leftover", "done"}
  /\ producer \in [Target -> Source]
  /\ cur \subseteq Generator /\ next \subseteq Generator
  /\ queue \subseteq Generator /\ popped \subseteq Generator
  /\ asap \in [Generator -> Nat]
  /\ alap \in [Generator -> Nat]
  /\ max_level \in Nat
  /\ scheduled \in [Generator -> Nat \cup {Unplaced}]
  /\ level \in Nat
  /\ types \subseteq Type

\* Neither assert ("{} generators weren't run") nor the expect ("no schedulable
\* generators") of build can fail: the producer edges have no cycle, and a
\* leftover always keeps a level between its predecessors and its alap.
BuildNeverPanics == ~ GeneratorsWerentRun /\ ~ NoSchedulableGenerators

\* A finished sort puts every generator on a level, strictly after the producer
\* of each target it watches: a layer's kernels run together, so an equal level
\* would read a witness slot in the launch that writes it.
ScheduleLegal ==
  phase = "done" =>
    \A g \in Generator :
      /\ scheduled[g] \in 0 .. max_level
      /\ \A p \in Pred(g) : scheduled[p] < scheduled[g]

\* Half-way through the custom placement, what is placed already respects what
\* is not: a placed generator stands after every predecessor placed so far and
\* after the last level the others can still get.
PlacementSafe ==
  phase \in {"fill", "leftover", "done"} =>
    \A g \in Generator : scheduled[g] # Unplaced =>
      /\ asap[g] <= scheduled[g] /\ scheduled[g] <= alap[g]
      /\ \A p \in Pred(g) : PredEnds(p) < scheduled[g]

\* After the two passes the levels are the longest paths: asap is one past the
\* latest predecessor, alap one before the earliest successor, and the level of
\* a source is 0, of a sink max_level.
LevelsTight ==
  phase \in {"fill", "leftover", "done"} =>
    \A g \in Generator :
      /\ asap[g] = 0 \/ \E p \in Pred(g) : asap[g] = asap[p] + 1
      /\ \A p \in Pred(g) : asap[p] < asap[g]
      /\ alap[g] = max_level \/ \E s \in Succ(g) : alap[g] = alap[s] - 1
      /\ \A s \in Succ(g) : alap[g] < alap[s]

\* No layer of a finished sort is empty.  build_graph makes a layer's nodes
\* depend on the nodes of the layer just before it only, so an empty layer
\* would cut the order between what is before and what is after it.
LayersPopulated ==
  phase = "done" => \A l \in 0 .. max_level : \E g \in Generator : scheduled[g] = l

\* The state of the forward pass: the queue holds exactly the unpopped generators
\* whose predecessors are all popped, a popped generator stands below all its
\* successors, and no level is higher than a popped predecessor demands.
AsapPassInv ==
  phase = "asap" =>
    /\ queue \cap popped = {}
    /\ \A v \in Generator : v \in popped \cup queue <=> Pred(v) \subseteq popped
    /\ \A v \in Generator : \A p \in Pred(v) \cap popped : asap[p] < asap[v]
    /\ \A v \in Generator : asap[v] = 0 \/ \E p \in Pred(v) \cap popped : asap[v] = asap[p] + 1

\* The state of the backward pass, its mirror image.
AlapPassInv ==
  phase = "alap" =>
    /\ queue \cap popped = {}
    /\ \A v \in Generator : v \in popped \cup queue <=> Succ(v) \subseteq popped
    /\ \A v \in Generator : \A s \in Succ(v) \cap popped : alap[v] < alap[s]
    /\ \A v \in Generator : \/ alap[v] = max_level
                            \/ \E s \in Succ(v) \cap popped : alap[v] = alap[s] - 1

\* What the forward pass leaves: asap grows along every edge, by no more than it
\* must, up to max_level, and every generator has a window asap .. alap.
WindowInv ==
  phase # "produce" /\ phase # "asap" =>
    /\ \E v \in Generator : asap[v] = max_level
    /\ \A v \in Generator :
         /\ asap[v] <= alap[v] /\ alap[v] <= max_level
         /\ \A p \in Pred(v) : asap[p] < asap[v]
         /\ asap[v] = 0 \/ \E p \in Pred(v) : asap[v] = asap[p] + 1

\* alap grows along every edge once the backward pass is over.
AlapOrdered ==
  phase \in {"fill", "leftover", "done"} =>
    \A v \in Generator : \A p \in Pred(v) : alap[p] < alap[v]

\* Nothing is placed before both passes are over, everything when the sort ends.
PlacedInTime ==
  /\ phase \in {"produce", "asap", "alap"} => Waiting = Generator
  /\ phase = "done" => Waiting = {}

\* The inductive invariant of the sort.
SortInv ==
  /\ AsapPassInv
  /\ AlapPassInv
  /\ WindowInv
  /\ AlapOrdered
  /\ LevelsTight
  /\ PlacementSafe
  /\ PlacedInTime

\* A generator is pushed to one layer, once: a level given is never changed.
PlacedOnce ==
  [][\A g \in Generator : scheduled[g] # Unplaced => scheduled'[g] = scheduled[g]]_vars

\* The sort ends: every pass empties its queue and every leftover is placed.
SortTerminates == <>(phase = "done")
=============================================================================
