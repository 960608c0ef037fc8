-------------------------- MODULE ProverLifecycle --------------------------
(***************************************************************************)
(* The device memory of one GpuCircuitData, from GpuProverSetup::new to its *)
(* Drop: the blocks GpuWorkspace owns (scratch, fri_scratch and the scatter *)
(* representative_map), the views carved out of them by ScratchCursor, and  *)
(* the captured graph, the streamed kernel list and the scatter kernel,     *)
(* which keep raw pointers into them.  build_gpu runs once; prove may be    *)
(* called any number of times, and any unwrap or assert! may unwind into    *)
(* Drop.                                                                    *)
(*                                                                          *)
(* A block is a number that is never used twice, so a stale pointer is      *)
(* never mistaken for a pointer into a later block.  A view is a region     *)
(* [block, start, end) in bytes.  cudaMalloc fails exactly when the free    *)
(* bytes do not suffice; the fixed buffers allocated by GpuProverSetup::new *)
(* are accounted for in the device's capacity.                              *)
(***************************************************************************)
EXTENDS Integers, FiniteSetsExt, SequencesExt, PowersOfTwo

CONSTANTS
    Circuits,    \* the circuits considered, see Shape
    Align,       \* SCRATCH_ALIGN
    Slack,       \* FRI_KEEP_SOA_SLACK
    MaxProves    \* bound: how often prove is called

\* What the lifecycle depends on: sizes of the plan, of the commitments and
\* of the device, and whether the circuit has inputs and public inputs.  Every
\* circuit has a generator with an output, so the witness is not empty.
Shape == [read_len : Nat, witness_len : Nat \ {0}, params_len : Nat, rep_map_len : Nat,
          degree : Nat, extension_degree : Nat, rate_bits : Nat,
          arity_bits : Seq(Nat), capacity : Nat, streamed : BOOLEAN,
          has_inputs : BOOLEAN, has_public_inputs : BOOLEAN]

ASSUME LifecycleAssumption ==
    /\ Align \in Nat \ {0} /\ Slack \in Nat /\ MaxProves \in Nat
    /\ Circuits \subseteq Shape

VARIABLES
    circuit,       \* the circuit this GpuCircuitData was built for
    pc,            \* the next step of build, prove or drop
    proves,        \* calls of prove so far
    heap,          \* live device blocks, with their sizes in bytes
    free_bytes,    \* what cudaMemGetInfo reports as free
    blocks,        \* blocks ever allocated: the name of the latest one
    scratch, fri_scratch, representative_map,   \* GpuWorkspace, WitnessBuffers
    soa,           \* the views read_map, witness, params; <<>> when unbound
    post,          \* the delayed trees and FRI views; <<>> when unbound
    graph,         \* regions a live CudaGraphExec reads and writes; <<>> if none
    stream,        \* regions of StreamedWitgen; <<>> if None
    scatter,       \* regions of ScatterKernel; <<>> if None
    wires,         \* what the wires segment of fp_inputs holds
    plan,          \* whether the SoA regions hold the plan uploaded by build
    copies,        \* cap copies launched and not finished on the device
    caps           \* what get_proof_caps read into the proof

vars == <<circuit, pc, proves, heap, free_bytes, blocks, scratch, fri_scratch,
          representative_map, soa, post, graph, stream, scatter, wires, plan,
          copies, caps>>
device == <<heap, free_bytes, blocks>>
buildVars == <<soa, graph, stream, scatter, wires, plan>>
proofVars == <<copies, caps>>

Null == 0
U32 == 4
Goldilocks == 8
Usize == 8

----------------------------------------------------------------------------
(* Sizes and cursors of overlay.rs *)

align_up(bytes) == ((bytes + Align - 1) \div Align) * Align

\* ScratchSizer: add aligns the offset and adds the size; bytes aligns the sum.
Offsets(sizes) ==
    LET offset[i \in 0..Len(sizes)] ==
            IF i = 0 THEN 0 ELSE align_up(offset[i - 1]) + sizes[i]
    IN  offset

SizerBytes(sizes) == align_up(Offsets(sizes)[Len(sizes)])

\* Mutant: the offset is not carried from one region to the next.
CarveRestarting(block, sizes) ==
    [i \in 1..Len(sizes) |->
        LET start == IF i = 1 THEN 0 ELSE align_up(sizes[i - 1])
        IN  [block |-> block, start |-> start, end |-> start + sizes[i]]]

\* ScratchCursor: the regions take hands out, one after the other.
Ends(sizes) ==
    LET end[i \in 0..Len(sizes)] ==
            IF i = 0 THEN 0 ELSE align_up(end[i - 1]) + sizes[i]
    IN  end

Carve(block, sizes) ==
    LET end == Ends(sizes)
    IN  [i \in 1..Len(sizes) |->
            [block |-> block, start |-> align_up(end[i - 1]), end |-> end[i]]]

SoaSizes(c) == <<U32 * c.read_len, Goldilocks * c.witness_len, Usize * c.params_len>>

merkle_tree_len(c) == 8 * c.degree * Two[c.rate_bits]

\* How far the lengths are shifted after the first i reduction rounds.
ArityBits(c) ==
    LET bits[i \in 0..Len(c.arity_bits)] ==
            IF i = 0 THEN 0 ELSE bits[i - 1] + c.arity_bits[i]
    IN  bits

\* The delayed trees of the three stages; then, per reduction round, digests,
\* leaves, transposed leaves and folded leaves.
PostSizes(c) ==
    LET leaves == c.degree * c.extension_degree * Two[c.rate_bits]
        bits   == ArityBits(c)
        Round(i) == <<merkle_tree_len(c) \div Two[bits[i]], leaves \div Two[bits[i - 1]],
                      leaves \div Two[bits[i - 1]], leaves \div Two[bits[i]]>>
        rounds == [i \in 1..Len(c.arity_bits) |-> Round(i)]
        lens   == [i \in 1..3 |-> merkle_tree_len(c)]
                    \o [i \in 1..4 * Len(c.arity_bits) |->
                            rounds[(i + 3) \div 4][1 + ((i + 3) % 4)]]
    IN  [i \in DOMAIN lens |-> Goldilocks * lens[i]]

witgen_captured_bytes(c) == SizerBytes(SoaSizes(c))
post_witgen_bytes(c) == SizerBytes(PostSizes(c))
MapBytes(c) == U32 * c.rep_map_len

----------------------------------------------------------------------------
(* cudaMalloc and cudaFree *)

Without(freed) == [b \in DOMAIN heap \ freed |-> heap[b]]
With(h, b, size) == [x \in DOMAIN h \cup {b} |-> IF x = b THEN size ELSE h[x]]
BlockLen(b) == IF b = Null THEN 0 ELSE heap[b]
Fresh == blocks + 1

\* The cursor's assert!(end <= len): all the regions lie in the block.
Fits(sizes, len) == Last(Carve(Null, sizes)).end <= len

Panic == /\ pc' = "panicked"
         /\ UNCHANGED <<circuit, proves, device, scratch, fri_scratch,
                        representative_map, post, buildVars, proofVars>>

----------------------------------------------------------------------------
(* build_gpu *)

\* GpuProverSetup::new: neither scratch block is allocated yet.
Init ==
    /\ circuit \in Circuits
    /\ pc = "build_scratch" /\ proves = 0
    /\ heap = <<>> /\ free_bytes = circuit.capacity /\ blocks = 0
    /\ scratch = Null /\ fri_scratch = Null /\ representative_map = Null
    /\ soa = <<>> /\ post = <<>>
    /\ graph = <<>> /\ stream = <<>> /\ scatter = <<>>
    /\ wires = "none" /\ plan = FALSE
    /\ copies = {} /\ caps = <<>>

\* ensure_scratch_bytes: the new block is allocated before the old one is
\* dropped; then the three witgen views are taken from it.
EnsureScratch ==
    LET needed == witgen_captured_bytes(circuit)
    IN  /\ pc = "build_scratch"
        /\ IF BlockLen(scratch) >= needed
           THEN UNCHANGED <<device, scratch>>
           ELSE /\ free_bytes >= needed
                /\ heap' = With(Without({scratch}), Fresh, needed)
                /\ free_bytes' = free_bytes - needed + BlockLen(scratch)
                /\ blocks' = Fresh
                /\ scratch' = Fresh
        /\ Fits(SoaSizes(circuit), Max({BlockLen(scratch), needed}))
        /\ soa' = Carve(scratch', SoaSizes(circuit))
        /\ pc' = "build_map"
        /\ UNCHANGED <<circuit, proves, fri_scratch, representative_map, post,
                       graph, stream, scatter, wires, plan, proofVars>>

EnsureScratchFails ==
    LET needed == witgen_captured_bytes(circuit)
    IN  /\ pc = "build_scratch"
        /\ Fits(SoaSizes(circuit), Max({BlockLen(scratch), needed}))
              => BlockLen(scratch) < needed /\ free_bytes < needed
        /\ Panic

\* The scatter map is a block of its own; then the plan is uploaded and the
\* stream synchronized.
AllocMap ==
    /\ pc = "build_map"
    /\ free_bytes >= MapBytes(circuit)
    /\ heap' = With(Without({representative_map}), Fresh, MapBytes(circuit))
    /\ free_bytes' = free_bytes - MapBytes(circuit) + BlockLen(representative_map)
    /\ blocks' = Fresh
    /\ representative_map' = Fresh
    /\ plan' = TRUE
    /\ pc' = "build_graph"
    /\ UNCHANGED <<circuit, proves, scratch, fri_scratch, soa, post, graph,
                   stream, scatter, wires, proofVars>>

AllocMapFails == pc = "build_map" /\ free_bytes < MapBytes(circuit) /\ Panic

MakeScatter ==
    <<soa[2], [block |-> representative_map, start |-> 0, end |-> MapBytes(circuit)]>>

\* Mutant: a streamed plan gets no scatter kernel.
BuildGraphScatters ==
    /\ pc = "build_graph"
    /\ IF circuit.streamed
       THEN stream' = soa /\ UNCHANGED <<graph, scatter, wires>>
       ELSE graph' = soa /\ scatter' = MakeScatter /\ wires' = "dummy" /\ UNCHANGED stream
    /\ pc' = "idle"
    /\ UNCHANGED <<circuit, proves, device, scratch, fri_scratch,
                   representative_map, soa, post, plan, proofVars>>

\* build_graph captures the views' addresses.  A plan of more than
\* STREAMED_LAYER_THRESHOLD levels is streamed; otherwise the graph and the
\* scatter run once as a warm-up, on a witness nobody has written.
BuildGraph ==
    /\ pc = "build_graph"
    /\ scatter' = MakeScatter
    /\ IF circuit.streamed
       THEN stream' = soa /\ UNCHANGED <<graph, wires>>
       ELSE graph' = soa /\ wires' = "dummy" /\ UNCHANGED stream
    /\ pc' = "idle"
    /\ UNCHANGED <<circuit, proves, device, scratch, fri_scratch,
                   representative_map, soa, post, plan, proofVars>>

----------------------------------------------------------------------------
(* prove *)

BeginProve ==
    /\ pc = "idle" /\ proves < MaxProves
    /\ proves' = proves + 1
    /\ pc' = "upload"
    /\ UNCHANGED <<circuit, device, scratch, fri_scratch,
                   representative_map, post, buildVars, proofVars>>

\* upload_inputs copies to the witness view, unless there is nothing to copy.
UploadInputs ==
    /\ pc = "upload"
    /\ IF circuit.has_inputs /\ soa = <<>>
       THEN Panic
       ELSE /\ pc' = "replay"
            /\ UNCHANGED <<circuit, proves, device, scratch, fri_scratch,
                           representative_map, post, buildVars, proofVars>>

has_live_graph == graph # <<>>

\* replay launches the graph or the streamed kernels, and the scatter if there
\* is one.  Kernels that index with an overwritten read_map compute anything or
\* fault, and the fault surfaces at the stream's synchronize.
Replay ==
    /\ pc = "replay"
    /\ \/ /\ stream # <<>> \/ has_live_graph
          /\ wires' = IF scatter = <<>> THEN wires
                      ELSE IF plan THEN "witness" ELSE "garbage"
          /\ pc' = "hash_pi"
          /\ UNCHANGED <<circuit, proves, device, scratch, fri_scratch,
                         representative_map, soa, post, graph, stream, scatter,
                         plan, proofVars>>
       \/ (stream # <<>> \/ has_live_graph) /\ ~plan /\ Panic
       \/ stream = <<>> /\ ~has_live_graph /\ Panic

\* hash_pi_new gathers the public inputs from the witness view.
HashPi ==
    /\ pc = "hash_pi"
    /\ IF circuit.has_public_inputs /\ soa = <<>>
       THEN Panic
       ELSE /\ pc' = "release"
            /\ UNCHANGED <<circuit, proves, device, scratch, fri_scratch,
                           representative_map, post, buildVars, proofVars>>

\* Mutant: the map is replaced by an empty one and forgotten.
ReleaseForgets ==
    /\ pc = "release"
    /\ scatter' = <<>>
    /\ representative_map' = Null
    /\ pc' = "choose"
    /\ UNCHANGED <<circuit, proves, device, scratch, fri_scratch, soa, post,
                   graph, stream, wires, plan, proofVars>>

\* release_uncaptured_after_replay.
ReleaseUncaptured ==
    /\ pc = "release"
    /\ scatter' = <<>>
    /\ heap' = Without({representative_map})
    /\ free_bytes' = free_bytes + BlockLen(representative_map)
    /\ representative_map' = Null
    /\ pc' = "choose"
    /\ UNCHANGED <<circuit, proves, blocks, scratch, fri_scratch, soa, post,
                   graph, stream, wires, plan, proofVars>>

extra_fri == has_live_graph /\ free_bytes >= post_witgen_bytes(circuit) + Slack
overlay_soa == /\ has_live_graph /\ ~extra_fri
               /\ BlockLen(scratch) >= post_witgen_bytes(circuit)

\* Mutant: the recycling path leaves the graph and the streamed kernels alone.
ChoosePathOnly ==
    /\ pc = "choose"
    /\ pc' = IF extra_fri THEN "bind_extra"
             ELSE IF overlay_soa THEN "bind_overlay" ELSE "recycle"
    /\ UNCHANGED <<circuit, proves, device, scratch, fri_scratch,
                   representative_map, soa, post, graph, stream, scatter, wires,
                   plan, proofVars>>

\* The path after witness generation: FRI in a block of its own, FRI over the
\* SoA, or release_after_replay and a recycled block.
ChoosePath ==
    /\ pc = "choose"
    /\ IF extra_fri \/ overlay_soa
       THEN /\ pc' = IF extra_fri THEN "bind_extra" ELSE "bind_overlay"
            /\ UNCHANGED <<graph, stream, scatter>>
       ELSE /\ graph' = <<>> /\ stream' = <<>> /\ scatter' = <<>>
            /\ pc' = "recycle"
    /\ UNCHANGED <<circuit, proves, device, scratch, fri_scratch,
                   representative_map, soa, post, wires, plan, proofVars>>

\* bind_post_witgen_views, keep_soa: assigning fri_scratch allocates the new
\* block and then drops the one of an earlier prove.
BindExtra ==
    LET size == post_witgen_bytes(circuit)
    IN  /\ pc = "bind_extra"
        /\ IF free_bytes >= size /\ Fits(PostSizes(circuit), size)
           THEN /\ heap' = With(Without({fri_scratch}), Fresh, size)
                /\ free_bytes' = free_bytes - size + BlockLen(fri_scratch)
                /\ blocks' = Fresh
                /\ fri_scratch' = Fresh
                /\ post' = Carve(Fresh, PostSizes(circuit))
                /\ soa' = <<>>
                /\ pc' = "commit"
                /\ UNCHANGED <<circuit, proves, scratch, representative_map,
                               graph, stream, scatter, wires, plan, proofVars>>
           ELSE Panic

\* bind_post_witgen_views, overlay_soa.
BindOverlay ==
    /\ pc = "bind_overlay"
    /\ IF /\ BlockLen(scratch) >= post_witgen_bytes(circuit)
          /\ Fits(PostSizes(circuit), BlockLen(scratch))
       THEN /\ post' = Carve(scratch, PostSizes(circuit))
            /\ soa' = <<>>
            /\ pc' = "commit"
            /\ UNCHANGED <<circuit, proves, device, scratch, fri_scratch,
                           representative_map, graph, stream, scatter, wires,
                           plan, proofVars>>
       ELSE Panic

\* Mutant: the witgen views are not unbound.
FreeSoaBound ==
    /\ pc = "recycle"
    /\ heap' = Without({scratch})
    /\ free_bytes' = free_bytes + BlockLen(scratch)
    /\ scratch' = Null
    /\ plan' = FALSE
    /\ pc' = "alloc_post"
    /\ UNCHANGED <<circuit, proves, blocks, fri_scratch, representative_map,
                   soa, post, graph, stream, scatter, wires, proofVars>>

\* Mutant: the old block is kept until the new one is assigned.
KeepSoa ==
    /\ pc = "recycle"
    /\ soa' = <<>>
    /\ pc' = "alloc_post"
    /\ UNCHANGED <<circuit, proves, device, scratch, fri_scratch,
                   representative_map, post, graph, stream, scatter, wires, plan,
                   proofVars>>

\* bind_post_witgen_views, recycling: the SoA is freed ...
FreeSoa ==
    /\ pc = "recycle"
    /\ heap' = Without({scratch})
    /\ free_bytes' = free_bytes + BlockLen(scratch)
    /\ scratch' = Null
    /\ soa' = <<>> /\ plan' = FALSE
    /\ pc' = "alloc_post"
    /\ UNCHANGED <<circuit, proves, blocks, fri_scratch, representative_map,
                   post, graph, stream, scatter, wires, proofVars>>

\* ... before its successor is allocated.
AllocPost ==
    LET size == post_witgen_bytes(circuit)
    IN  /\ pc = "alloc_post"
        /\ IF free_bytes >= size /\ Fits(PostSizes(circuit), size)
           THEN /\ heap' = With(heap, Fresh, size)
                /\ free_bytes' = free_bytes - size
                /\ blocks' = Fresh
                /\ scratch' = Fresh
                /\ post' = Carve(Fresh, PostSizes(circuit))
                /\ pc' = "commit"
                /\ UNCHANGED <<circuit, proves, fri_scratch, representative_map,
                               buildVars, proofVars>>
           ELSE Panic

\* From commit(Wires) to fri_prove: ensure_stage and ensure_commit_allocated
\* hold, the wires become coefficients in place, and every post view is
\* written, over the SoA if it shares its block.
CommitAndProve ==
    /\ pc = "commit"
    /\ IF post = <<>>
       THEN Panic
       ELSE /\ wires' = "coefficients"
            /\ plan' = (plan /\ post[1].block # scratch)
            /\ pc' = "copy_caps"
            /\ UNCHANGED <<circuit, proves, device, scratch, fri_scratch,
                           representative_map, soa, post, graph, stream,
                           scatter, proofVars>>

Stages == {"Wires", "PartialProducts", "Quotients"}

\* get_proof_caps launches one copy kernel per stage into pinned host memory ...
LaunchCapCopies ==
    /\ pc = "copy_caps"
    /\ copies' = Stages
    /\ pc' = "assemble"
    /\ UNCHANGED <<circuit, proves, device, scratch, fri_scratch,
                   representative_map, post, buildVars, caps>>

\* ... the device runs them on its own ...
CopyCap(stage) ==
    /\ stage \in copies
    /\ copies' = copies \ {stage}
    /\ UNCHANGED <<circuit, pc, proves, device, scratch, fri_scratch,
                   representative_map, post, buildVars, caps>>

\* ... and the host reads the buffers right after the launches, then frees
\* them, which waits for the device.
AssembleCaps ==
    /\ pc = "assemble"
    /\ caps' = [stage \in Stages |-> stage \notin copies]
    /\ copies' = {}
    /\ pc' = "idle"
    /\ UNCHANGED <<circuit, proves, device, scratch, fri_scratch,
                   representative_map, post, buildVars>>

----------------------------------------------------------------------------
(* Drop *)

\* Drop for GpuProverSetup runs before the fields are dropped, after a prove
\* or while a panic unwinds.
DropGraph ==
    /\ pc \in {"idle", "panicked"}
    /\ graph' = <<>> /\ stream' = <<>> /\ scatter' = <<>>
    /\ pc' = "drop_fields"
    /\ UNCHANGED <<circuit, proves, device, scratch, fri_scratch,
                   representative_map, soa, post, wires, plan, proofVars>>

\* The fields of GpuWorkspace: the blocks are freed, the views are not.
DropFields ==
    /\ pc = "drop_fields"
    /\ heap' = Without({representative_map, scratch, fri_scratch})
    /\ free_bytes' = free_bytes + BlockLen(representative_map) + BlockLen(scratch)
                          + BlockLen(fri_scratch)
    /\ representative_map' = Null /\ scratch' = Null /\ fri_scratch' = Null
    /\ soa' = <<>> /\ post' = <<>> /\ plan' = FALSE
    /\ pc' = "dropped"
    /\ UNCHANGED <<circuit, proves, blocks, graph, stream, scatter, wires,
                   proofVars>>

Dropped == pc = "dropped" /\ UNCHANGED vars

Build == EnsureScratch \/ EnsureScratchFails \/ AllocMap \/ AllocMapFails \/ BuildGraph
Prove == \/ BeginProve \/ UploadInputs \/ Replay \/ HashPi \/ ReleaseUncaptured
         \/ ChoosePath \/ BindExtra \/ BindOverlay \/ FreeSoa \/ AllocPost
         \/ CommitAndProve \/ LaunchCapCopies \/ AssembleCaps
Drop == DropGraph \/ DropFields \/ Dropped

Next == Build \/ Prove \/ Drop \/ \E stage \in Stages : CopyCap(stage)

Spec == Init /\ [][Next]_vars

----------------------------------------------------------------------------
(* Properties *)

Backed(regions) ==
    \A i \in DOMAIN regions : /\ regions[i].block \in DOMAIN heap
                              /\ regions[i].end <= heap[regions[i].block]

\* The captured graph, the streamed kernels and the scatter kernel hold raw
\* pointers (make_scatter, build_graph, build_streamed).  Whatever path the
\* proves took, through panics and Drop, the memory they point to is not freed
\* while they exist: "this block is not freed until GpuProverSetup drops the
\* graph first" (GpuWorkspace::scratch).
CapturedMemoryLive == Backed(graph) /\ Backed(stream) /\ Backed(scatter)

\* A DeviceView does not own its memory (overlay.rs, DeviceView::from_raw: "the
\* allocation must outlive this view").  Outside the window in which
\* bind_post_witgen_views exchanges the block, and a panic in it, every bound
\* view lies in a live block, also on a second prove that replaces the blocks
\* of the first.
ViewsBacked ==
    Backed(soa) /\ (pc \notin {"alloc_post", "panicked", "drop_fields"} => Backed(post))

\* ScratchSizer and ScratchCursor agree: the delayed trees and the FRI views
\* that are carved out of one block start aligned and never share a byte.
PostViewsDisjoint ==
    \A i, j \in DOMAIN post :
        /\ post[i].start % Align = 0
        /\ i # j => \/ post[i].block # post[j].block
                    \/ post[i].end <= post[j].start
                    \/ post[j].end <= post[i].start

\* Every live block has exactly one owner among the fields of GpuWorkspace and
\* WitnessBuffers: nothing leaks when a block is replaced, and nothing is freed
\* twice; after Drop the device is empty.
OwnedOnce ==
    LET owned == {b \in {scratch, fri_scratch, representative_map} : b # Null}
    IN  /\ DOMAIN heap = owned
        /\ scratch # Null => scratch \notin {fri_scratch, representative_map}
        /\ fri_scratch # Null => fri_scratch # representative_map

\* A device that can hold the larger of witgen (SoA and scatter map) and
\* delayed commitments with FRI never fails the first proof: no allocation, no
\* cursor assertion and no access of an unbound view panics, on any of the
\* three paths ("Free first so peak is max(witgen, FRI), not the sum",
\* bind_post_witgen_views).
FirstProveCompletes ==
    pc = "panicked" /\ proves <= 1 =>
        circuit.capacity < Max({witgen_captured_bytes(circuit) + MapBytes(circuit),
                                post_witgen_bytes(circuit)})

\* The first proof commits to the witness its own replay scattered, not to what
\* the warm-up of build_graph left in fp_inputs.
FirstProveCommitsWitness == pc = "commit" /\ proves = 1 => wires = "witness"

\* The caps in a returned proof are the copied ones.
CapsCopied == caps = <<>> \/ \A stage \in Stages : caps[stage]
=============================================================================
