---------------------------- MODULE WitgenReplay ----------------------------
(***************************************************************************)
(* WitnessService::build (integration/witgen.rs), second half, and one     *)
(* prove's use of it.  The layers of WitgenSchedule are laid out in a      *)
(* struct-of-arrays witness buffer, one batch per (layer, type); each      *)
(* target gets the slot of its first writer (write_map) and each           *)
(* generator the slots it reads (read_map).  A prove uploads the inputs,   *)
(* launches the CUDA graph, or the streamed kernels when the layers are    *)
(* too many for a graph, and scatters the slots to the wires.              *)
(*                                                                         *)
(* A slot holds the name of the target whose value it is, or Garbage: the  *)
(* buffer is not initialised, and the warm-up launch of the build has left *)
(* values computed from no inputs in it.                                   *)
(***************************************************************************)
EXTENDS WitgenSchedule, SequencesExt

CONSTANTS
  StreamedLayerThreshold,   \* STREAMED_LAYER_THRESHOLD
  Garbage, Zero             \* a value that is not this proof's; field zero

ASSUME GarbageAssumption == {Garbage, Zero} \cap Target = {} /\ Garbage # Zero
ASSUME ThresholdAssumption == StreamedLayerThreshold \in Nat
ASSUME FinitelyMany == IsFiniteSet(Generator)

\* The circuits are those whose witness the CPU can generate: when targets have
\* values, the inputs first, and every generator that can run has run, then all
\* have (generate_partial_witness panics with "generators weren't run" otherwise).
ASSUME CircuitsRunnable ==
  \A c \in Circuits : \A S \in SUBSET Target :
    /\ Elems(c.input_targets) \subseteq S
    /\ \A g \in Generator :
         Elems(c.watch_list[g]) \subseteq S => Elems(c.output_targets[g]) \subseteq S
    => \A g \in Generator : Elems(c.watch_list[g]) \subseteq S

NoSlot == -1                \* u32::MAX in write_map and read_map

VARIABLES
  stage,         \* "build", "built", "replay", "scattered"
  lay, todo,     \* the layer being laid out and its types still to do
  batches,       \* plan.layers, in launch order
  write_start, read_start,
  write_map,     \* target -> slot
  read_map,      \* read index -> slot
  witness,       \* slot -> content
  ran,           \* generators whose thread has finished in this replay
  full_witness   \* target -> content of its wires after the scatter

layout == <<lay, todo, batches, write_start, read_start, write_map, read_map>>
device == <<witness, ran, full_witness>>
all    == <<vars, stage, layout, device>>

-----------------------------------------------------------------------------
ReplayInit ==
  /\ Init
  /\ stage = "build"
  /\ lay = 0 /\ todo = {}
  /\ batches = <<>>
  /\ write_start = Len(circuit.input_targets)
  /\ read_start = 0
  /\ write_map = [t \in Target |->
       IF t \in Inputs
         THEN Max({i \in DOMAIN circuit.input_targets :
                     circuit.input_targets[i] = t}) - 1
         ELSE NoSlot]
  /\ read_map = <<>>
  /\ witness = <<>>
  /\ ran = {}
  /\ full_witness = [t \in Target |-> Garbage]

SortStep == stage = "build" /\ Sort /\ UNCHANGED <<stage, device>>
            /\ UNCHANGED <<lay, batches, write_start, read_start, write_map, read_map>>
            /\ todo' = IF phase' = "done" THEN LayerTypes(scheduled', 0) ELSE {}

BatchOf(l, ty) == {g \in Generator : scheduled[g] = l /\ circuit.id[g] = ty}

\* Largest of a set of list lengths: max_in, max_out.
Longest(lists, gens) == Max({Len(lists[g]) : g \in gens})

\* The slots and the read indices of a batch: num * max_out and num * max_in.
\* Mutant: one slot per generator.
WriteLenOneEach(order) == Len(order)

WriteLen(order) == Len(order) * Longest(circuit.output_targets, Elems(order))

ReadLen(order) == Len(order) * Longest(circuit.watch_list, Elems(order))

\* Where the first k generators of a batch write t: <<generator, output>>, and
\* the first of these places.
Writes(order, k, t) ==
  {w \in UNION {{i} \X DOMAIN circuit.output_targets[order[i]] : i \in 1 .. k} :
     circuit.output_targets[order[w[1]]][w[2]] = t}

FirstWrite(order, k, t) ==
  CHOOSE w \in Writes(order, k, t) : \A x \in Writes(order, k, t) :
    w[1] < x[1] \/ (w[1] = x[1] /\ w[2] <= x[2])

\* Struct of arrays: the j-th entry of the i-th of num generators.
Stride(i, j, num) == (i - 1) + (j - 1) * num

\* Mutant: the outputs of a generator side by side.
SlotsSideBySide(order, k) ==
  [t \in Target |->
     IF write_map[t] = NoSlot /\ Writes(order, k, t) # {}
       THEN LET w == FirstWrite(order, k, t)
            IN  write_start + (w[1] - 1) * Longest(circuit.output_targets, Elems(order))
                            + (w[2] - 1)
       ELSE write_map[t]]

\* write_map once the first k generators of a batch have been visited: a target
\* without a slot takes that of its first writer, at write_start + i + j * num.
SlotsAfter(order, k) ==
  [t \in Target |->
     IF write_map[t] = NoSlot /\ Writes(order, k, t) # {}
       THEN LET w == FirstWrite(order, k, t)
            IN  write_start + Stride(w[1], w[2], Len(order))
       ELSE write_map[t]]

\* The read indices of a batch; those of a generator with a short watch list
\* keep the 0 that read_map was filled with.
ReadsOf(order) ==
  LET num == Len(order)
  IN  [x \in 1 .. num * Longest(circuit.watch_list, Elems(order)) |->
         LET i == ((x - 1) % num) + 1
             j == ((x - 1) \div num) + 1
             list == circuit.watch_list[order[i]]
         IN  IF j <= Len(list) THEN SlotsAfter(order, i)[list[j]] ELSE 0]

\* One (layer, type) of the layout loop.  The order of the generators in the
\* batch is the order they were pushed in, which HashSet iteration leaves open.
LayOutBatch(ty, order) ==
  /\ stage = "build" /\ phase = "done"
  /\ ty \in todo
  /\ \A other \in todo : ty <= other
  /\ batches' = Append(batches, [layer |-> lay, order |-> order,
                                 write_start |-> write_start,
                                 read_start |-> read_start])
  /\ write_map' = SlotsAfter(order, Len(order))
  /\ read_map' = read_map \o ReadsOf(order)
  /\ write_start' = write_start + WriteLen(order)
  /\ read_start' = read_start + ReadLen(order)
  /\ todo' = todo \ {ty}
  /\ UNCHANGED <<vars, stage, lay, device>>

NextLayer ==
  /\ stage = "build" /\ phase = "done"
  /\ todo = {} /\ lay < max_level
  /\ lay' = lay + 1
  /\ todo' = LayerTypes(scheduled, lay + 1)
  /\ UNCHANGED <<vars, stage, batches, write_start, read_start, write_map,
                 read_map, device>>

\* The buffer is allocated, the graph is built and launched once to warm up.
BuildEnd ==
  /\ stage = "build" /\ phase = "done"
  /\ todo = {} /\ lay = max_level
  /\ stage' = "built"
  /\ witness' = [s \in 0 .. write_start - 1 |-> Garbage]
  /\ UNCHANGED <<vars, layout, ran, full_witness>>

-----------------------------------------------------------------------------
UploadInputs ==
  /\ stage = "built"
  /\ stage' = "replay"
  /\ witness' = [s \in DOMAIN witness |->
       IF s < Len(circuit.input_targets) THEN circuit.input_targets[s + 1]
                                         ELSE witness[s]]
  /\ ran' = {}
  /\ UNCHANGED <<vars, layout, full_witness>>

Streamed == max_level + 1 > StreamedLayerThreshold

\* Which batches a batch waits for: a graph node for all nodes of the layer
\* just before its own, a streamed kernel for all kernels launched before it.
WaitsFor(k) ==
  IF Streamed THEN 1 .. k - 1
              ELSE {m \in DOMAIN batches : batches[m].layer = batches[k].layer - 1}

ReadSlot(k, i, j) ==
  read_map[batches[k].read_start + Stride(i, j, Len(batches[k].order)) + 1]

ReadsWell(k, i) ==
  LET list == circuit.watch_list[batches[k].order[i]]
  IN  \A j \in DOMAIN list : /\ ReadSlot(k, i, j) \in DOMAIN witness
                             /\ witness[ReadSlot(k, i, j)] = list[j]

\* Where thread i of batch k stores its j-th output.
\* Mutant: outputs are not strided by the batch.
WriteSlotUnstrided(k, i, j) == batches[k].write_start + (i - 1)

WriteSlot(k, i, j) ==
  batches[k].write_start + Stride(i, j, Len(batches[k].order))

\* Thread i of batch k: it computes its outputs from the slots it reads; if one
\* of them does not hold the value of the watched target, neither do they.
RunThread(k, i) ==
  LET g == batches[k].order[i]
      outs == circuit.output_targets[g]
      stored(s) == {j \in DOMAIN outs : WriteSlot(k, i, j) = s}
  IN  /\ stage = "replay"
      /\ g \notin ran
      /\ \A m \in WaitsFor(k) : Elems(batches[m].order) \subseteq ran
      /\ witness' = [s \in DOMAIN witness |->
           IF stored(s) = {} THEN witness[s]
           ELSE IF ReadsWell(k, i) THEN outs[Max(stored(s))] ELSE Garbage]
      /\ ran' = ran \cup {g}
      /\ UNCHANGED <<vars, stage, layout, full_witness>>

\* The scatter kernel follows the replay in the stream.
Scatter ==
  /\ stage = "replay"
  /\ ran = Generator
  /\ stage' = "scattered"
  /\ full_witness' = [t \in Target |->
       IF write_map[t] = NoSlot THEN Zero ELSE witness[write_map[t]]]
  /\ UNCHANGED <<vars, layout, witness, ran>>

Prove ==
  \/ SortStep
  \/ \E ty \in Type : \E order \in SetToSeqs(BatchOf(lay, ty)) : LayOutBatch(ty, order)
  \/ NextLayer
  \/ BuildEnd
  \/ UploadInputs
  \/ \E k \in DOMAIN batches : \E i \in DOMAIN batches[k].order : RunThread(k, i)
  \/ Scatter

Scattered == stage = "scattered" /\ UNCHANGED all

ReplayNext == Prove \/ Scattered

\* build runs on one thread to its end.
ReplaySpec == ReplayInit /\ [][ReplayNext]_all /\ WF_all(SortStep)

-----------------------------------------------------------------------------
\* The scatter of a prove puts on every wire the value of its own target, and
\* zero on the wires no generator or input reaches: the slot arithmetic of the
\* layout, the read indices and the kernel order all agree.
WitnessCorrect ==
  stage = "scattered" =>
    \A t \in Target : full_witness[t] = IF t \in Produced THEN t ELSE Zero

\* Within a replay no thread writes over a value this replay has put in a slot:
\* batches do not overlap each other or the input area.
SlotsWrittenOnce ==
  [][stage = "replay" =>
       \A s \in DOMAIN witness : witness[s] \in Target => witness'[s] = witness[s]]_all

\* The GPU witness is one the CPU's generate_partial_witness could have made: a
\* thread runs on the values of its watched targets or contributes nothing.
CPU == INSTANCE PartialWitness WITH
         known <- {t \in Target : \E s \in DOMAIN witness : witness[s] = t}

ImplementsPartialWitness == CPU!Spec
=============================================================================
