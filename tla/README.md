# A TLA+ model of the MegaZK GPU prover

MegaZK proves Plonky2 circuits on a GPU.  Its own logic is the Rust layer
`src/plonky2/plonky2/src/integration/` (here `integration/`), which builds a GPU
prover for a circuit once and then runs proofs with it, together with the CUDA
kernels of `src/era-boojum-cuda/native/` that have control flow of their own.
The rest is upstream: Plonky2's circuit builder, gates, CPU prover and verifier,
era-boojum, and field arithmetic kernels.  Of these the project models the CPU
functions the GPU path must agree with, and era-boojum's multithreaded circuit
resolver (`src/era-boojum/src/dag/`), the one part of the repository in which threads
of the host work together through atomics and plain shared memory.

This directory holds TLA+ modules for the parts whose correctness rests on order,
indices, interleaving and memory ownership, the TLC configurations that check
them on small instances, and TLAPS proofs, for every instance, of the safety of eight
of them: the sort, the replay, the challenger, the transcript, the device memory, the
polynomial buffers with FRI and its verifier's checks, the resolver's sorting with its playback,
and its window.
`PROJECT.json` gives the machine-readable side: components, runs, the source lines
each definition translates, findings, hazards and theorems.

## 1. Inventory

| component | state | operations | modules |
|---|---|---|---|
| witness scheduling, `witgen.rs` `WitnessService::build` | producer of each target, asap/alap levels, the layers | producer pass, forward and backward Kahn pass, four placement policies, two panics | `WitgenSchedule` |
| witness layout and replay, `witgen.rs`, `generate.cu` | `write_map`, `read_map`, the device witness, the graph or the streamed kernel list | lay out a batch, upload inputs, run a generator thread, scatter | `WitgenReplay`, reference `PartialWitness` |
| GPU challenger, `poseidon.rs`, `challenger.cu` | sponge, input and output buffers on the device; `in_idx`, `out_idx` on the host | `observe_elements_gpu`, `get_n_challenges_gpu` | `ChallengerGpu`, reference `Challenger` |
| transcript, `transcript.rs`, `orchestrator.rs` | position in the sequence of challenger calls | every observe and sample of `prove_with_prepared_witness` and of FRI | `ProverTranscript`, reference `VerifierTranscript` |
| FRI proof of work, `fri/pow.rs`, `challenger.cu` `fri_pow_new` | `found`, `witness`, `found_buf`, `buf`, the shared `init_state` | host launch loop, kernel threads, scan by thread 0 | `FriPow` |
| device memory, `overlay.rs`, `setup.rs`, `orchestrator.rs`, `commitments.rs` | blocks owned by `GpuWorkspace`, views into them, raw pointers of graph, streamed and scatter kernels | build, prove with its three memory paths, cap copies, panic, drop | `ProverLifecycle` |
| commitments, partial products, quotient, openings, final polynomial: `commitments.rs`, `layout.rs`, `partial_products.rs`, `quotient/`, `merkle_tree_segmented.rs`, `ntt.rs` | `fp_inputs`, `ldes`, trees | in-place and out-of-place transforms, leaf hashing coset by coset, accumulation of the quotient | `PolynomialBuffers` |
| FRI: `final_poly.rs`, `fri/commit.rs`, `fri/queries.rs`, `fri.cu`, `proof_assembly.rs` | final polynomial, layers, trees and folded coefficients of each round, query indices, scratch, leaves and siblings of all queries | `get_final_poly`, `fri_committed_trees`, `fri_prover_query_rounds`, `get_fri_proof` | `FriProof`, reference `FriVerifier` |
| circuit resolver, sorting: `dag/guide.rs`, `primitives.rs`, `resolvers/mt/registrar.rs`, `sorters/`, `mod.rs` | tracked values, delayed resolvers, the spans of the guide, execution order, record | `set_value`, `add_resolution`, `get_awaiter`, `wait_till_resolved`, in the recording and in playback | `BufferGuide`, `ResolverSorter`, `ResolverPlayback` |
| circuit resolver, execution: `resolvers/mt/resolution_window.rs`, `mod.rs`, `awaiters.rs` | published order, batch buffer, lock-step channel, resolved values, panic slots | broker loop, workers, awaiters, kill and join | `LockStepChannel`, `ResolutionWindow` |
| CPU Plonky2, the rest of era-boojum, evm, starky, benchmarks | | | not modelled; three CPU functions serve as references |

How they interact.  `GpuProverSetup::sorting_new` runs the sort, the layout, the
upload of the plan and the graph capture.  `GpuCircuitData::prove` uploads inputs,
replays the graph (or launches the streamed kernels), scatters the witness into
`fp_inputs`, decides what to do with the witness memory, commits, and alternates
between arithmetic and the challenger until the FRI proof of work and the
queries.  The host runs on one thread; the device runs the default stream in
order, kernels of one layer of the graph concurrently, and the threads of a kernel
in any order.

The circuit resolver stands beside this.  A client registers resolvers while it
synthesizes a circuit; the sorter (live, or playing back a record of an earlier run)
turns them into an execution order that it publishes piece by piece; a broker thread
cuts the published order into batches and hands them, in lock step, to worker
threads; awaiters of the client watch how far the broker has come.

What is hard here:

* a layer's kernels run at once, so a wrong level or a wrong slot is a data race
  that shows only for some circuits (`ScheduleLegal`, `SlotsWrittenOnce`,
  `WitnessCorrect`);
* the host predicts the device's challenger indices instead of reading them, from
  the length of a buffer of which the kernel observes a part (`IndicesAgree`,
  `CallsDisciplined`);
* prover and verifier build the same transcript in two implementations
  (`ImplementsVerifier`);
* graph, streamed kernels, scatter kernel and views keep raw pointers across
  `cudaFree`, panics, `Drop` and a second prove (`CapturedMemoryLive`,
  `ViewsBacked`, `OwnedOnce`), near the capacity of the device
  (`FirstProveCompletes`);
* all polynomials share one buffer that every phase transforms in place, from coset
  to coset and back, in loops whose order differs from the order of the leaves, on
  memory that is never cleared (`CommittedPlain`, `QuotientComplete`);
* the kernels of FRI compute every address of layers, trees, scratch and results
  themselves, all queries share these buffers and the indices are moved on in place, and
  the verifier derives the same places in its own way (`InitialProofsVerify`,
  `StepsOpenFolds`, `FirstStepsVerify`);
* the proof-of-work kernel has several threads, no barrier and buffers that are
  never cleared (`SearchEnds`, `FindKept`, `PowWitnessPasses`);
* the circuit resolver promises with each item how many items from it on may run at
  once, while spans are released, merged and given new ids under it
  (`BatchesIndependent`, `TrackersFollowOrder`), holds resolvers back and wakes them in
  the order of a hash map (`EveryResolverOrdered`, `NonCircularHandled`), and in playback publishes by a
  record of another run (`PlaybackSlotsReady`, `PlaybackAwaitsServed`);
* its broker and workers share plain memory under a protocol of four atomics, with
  parking, panics and a shutdown (`ChannelExclusive`, `TasksReady`, `ReturnsHonest`,
  `NotifiedInOrder`, `ClientReturns`).

`PROJECT.json` "hazards" lists these at their lines, with the property that
covers each or the reason none does.

## 2. Modules and how they follow the code

**WitgenSchedule.**  One action per loop body of `build`: `VisitGenerator` and
`SwapFrontier` (producer pass), `StartAsap`, `AsapPop`, `StartAlap`, `AlapPop`,
the placements `PlaceAllAsap`, `PlaceAllAlap`, `PlaceChainFast`, `PlaceCritical`
(by the scheduling policy, any of which may be chosen), then `FillType`,
`FillNextLevel`, `FillEnd`, `PlaceLeftover`, `Finish`.  The order in which the code
visits a list is left open, so the properties hold for every order.  The two
panics are the predicates `GeneratorsWerentRun` and `NoSchedulableGenerators`.

**WitgenReplay** extends it: `LayOutBatch` gives each batch (one type of one layer)
its slots, `num_generators * max_out` of them, and appends the read indices;
`BuildEnd` leaves the garbage of the warm-up launch in the witness; `UploadInputs`,
`RunThread` and `Scatter` are a prove.  A generator is an uninterpreted function
of the values it watches: a slot holds the name of the target whose right value
it has, or `Garbage`.  `WaitsFor` is the graph's dependency (all nodes of the layer
before) or the stream's order.  `CircuitsRunnable` says which circuits are meant: those
whose witness the CPU can generate, for on any other `generate_partial_witness` panics
with "generators weren't run" (`iop/generator.rs:96`).  **PartialWitness** is the CPU's
`generate_partial_witness`.

**ChallengerGpu** has the host's two indices, set at the launch, and the kernel
`observe` or `get` as a loop with its own index; one step per element.
`Absorb` and `Squeeze` are the permutation, as constants.  Callers keep
`Disciplined`, the condition on message and buffer lengths under which the host's
prediction is right; the transcript model shows that the prover keeps it.
**Challenger** is the CPU's challenger.

**ProverTranscript** derives from a configuration the list of challenger calls the
orchestrator makes, with message and buffer length for each, and runs them on
`ChallengerGpu`; `GrindWitness` is the proof of work in between.  `ConfigsAssumption`
says which configurations are meant: no fewer partial products than challenges (the
set-up has a multiple of them, `setup.rs:230`, and `get_opening_set` cuts one polynomial
for each challenge off their front), at least one reduction, no layer with fewer leaves
than its cap, and a final polynomial of at least four coefficients, as
`reduction_arity_bits` (`fri/reduction_strategies.rs:39`) leaves them with the standard
strategy of 4 bits down to 5 and the standard cap, for circuits large enough to be
reduced.
**VerifierTranscript** is `get_challenges` and `fri_challenges` with the opening set
`get_opening_set` cuts out of the prover's flat openings, on `Challenger`.

**ProverLifecycle** has one action per step of build, prove and drop that allocates,
frees, binds or captures.  Sizes are bytes, computed by the code's formulas
(`SizerBytes`, `Carve`, `PostSizes`); `cudaMalloc` fails exactly when the free bytes
do not suffice; any failure goes to `panicked` and from there through `Drop`.
`free_bytes` is what `cudaMemGetInfo` reports; every circuit has a witness.

**FriPow** has the host loop and the kernel's threads.  The read of the shared state
without a barrier and the stores without a fence are nondeterministic: a thread
that runs before its block's leader has loaded the state may find any candidate
passing, and the flag and the candidate of a find become visible in either order.

**PolynomialBuffers** follows the form of what each polynomial-sized slot of
`fp_inputs` and `ldes` holds: which polynomial of which prove, values or
coefficients, natural or bit-reversed, over which coset (as exponents of the field's
generator and of the extended domain's), and for quotient chunks the set of terms
they were summed from.  Kernels map forms to forms, and to `Junk` where the form is
not the one they are written for.  The actions are the calls on those buffers, from
`finalize_gpu` to the end of a prove: `Upload`; for each commitment `Intt`, `Extend`,
`TreePart` (one turn of the loop over the rate) and `TreeDone`; `Build` and `Scatter`
for the wires; `Zp`; `QuotientPart`, `QuotientDone`; `ProveEnd`.  Nothing clears
`fp_inputs`, `ldes`, the final polynomial or the layers of FRI, and kernels add to what
is there or transform it along: what was in the quotient's slots is the term `"stale"` of
the sum, what was past the coefficients of an extension the term `"tail"`, and both go
where the data goes.  `Cleared` is the set of memories known to be zero when they are
first used; any other may or may not be (`Fresh`), and in a second prove each holds what
the first left.  No theorem assumes memory to be clear, and of the properties only
`FirstStepsVerify` is about clear memory alone: the others say how far what was there
reaches, and that it is nothing where a first prove found zeros (`FoundZero`).

**FriProof** extends it with the rest of the prove: `FinalPoly`, one `CommitRound` per
reduction, `SampleQueries`, one `InitialProof` per segment, one `QueryStep` per round,
`ReturnProof`.  A polynomial over the extension field is what was accumulated and folded
into it (`Stale` for what its buffer held); a layer is a polynomial with the exponent of
its coset and its size, `"overlaid"` if its memory was not zero; an element
is a layer and a place in it, a digest a tree and a place in it.  Memory shared by the
queries is a function of addresses, and each kernel's address arithmetic is kept
(`SiblingAt`, `ScratchAt`, `ArityAcc`, `CapOffset`).  `InitialEvals`, `StepEvals`,
`StepPath` are `get_fri_proof`.  **FriVerifier** is `fri_verifier_query_round` over the
same values: `CombineInitial`, `ComputeEvaluation` and `PathOk` say what the verifier's
arithmetic gives when its inputs are what it takes them for, and junk otherwise.

**BufferGuide** holds the guide's operators on values: `push` behind the span of the
last dependency, the release of the first span, the carry-over of what does not fill a
batch, and the parallelism given to each released item.  **ResolverSorter** has the
live sorter as actions on it: `SetValue`, `AddResolution`, `Internalize` (one turn of
its loop, so that the order in which the registrar wakes resolvers is open),
`Flush` inside `GetAwaiter` and `WaitTillResolved`, each with what it writes to the
record.  A resolver is its inputs and outputs; a client is a list of calls.  `PlanLegal`
says which clients are meant: every place gets one value, from places that are given
too and not in a circle, and there are at most twice as many registrations as places, the
size `ResolutionRecord::new` gives the record (`sorters/mod.rs:75`); with more, the code
indexes it out of range.
**ResolverPlayback** extends it: when the recording is complete the same calls are made
again on the playback sorter.

**LockStepChannel** has a step for every load and store of `LockStepChannel` and
`LockStepWorker` and for every access to an element; **ResolutionWindow** extends it with
the broker's `resolve` and `process_buffer`, `Worker::invoke`, and the client with its
awaiters.  The order it runs is a constant of which it assumes what `BatchesIndependent`
says of the sorter's (`OrderIndependent`): that is how the two halves fit.  A thread's
steps are seen in program order by the others.  The code uses relaxed loads and plain
`bool`s in places; an x86 processor keeps the order of loads and the order of stores, and
what the compiler, a store buffer or a weaker machine could reorder is not modelled.

Operators marked "Mutant:" beside a definition are that definition with a
plausible error.  No specification uses them; substituting one must violate the
property it is listed with in `PROJECT.json`.

## 3. Runs

| run | what it explores | properties |
|---|---|---|
| witgen | sort, layout, replay and scatter of circuits of 5 generators and 2 types: a chain of 3 with all further edges, or two pairs; 4 policies, every visiting order, two writers of a target, a duplicated input, graph and streamed execution | `BuildNeverPanics`, `ScheduleLegal`, `SortInv`, `LayersPopulated`, `PlacedOnce`, `SortTerminates`, `WitnessCorrect`, `SlotsWrittenOnce`, `ImplementsPartialWitness` |
| challenger | every sequence of disciplined calls on a toy sponge with a finite state | `IndicesAgree`, `OutputsFresh`, `ChallengerInv`, `ImplementsChallenger` |
| transcript | one prove for each of 192 configurations over a symbolic sponge | `CallsDisciplined`, `PowResponseIsTranscripts`, `ImplementsVerifier` |
| lifecycle | circuits and capacities at and just below each threshold of the path choice, two proves, failures | `CapturedMemoryLive`, `ViewsBacked`, `PostViewsDisjoint`, `OwnedOnce`, `FirstProveCompletes`, `FirstProveCommitsWitness` |
| pow | one block of three threads, two proves on the same buffers, old flags 0 or 1 | `SearchEnds`, `FindKept` |
| fri_proof | build and two proves of a small layout with a gate without a kernel, `fp_inputs` zero or not before the first, the other memory zero then and used in the second; 120 choices of `num_ldes`, three lists of reductions, six queries | `CommittedPlain`, `QuotientComplete`, `InitialProofsVerify`, `StepsOpenFolds`, `FirstStepsVerify` |
| resolver | recording and playback of small clients: any inputs with calls in any order, one input with calls in any order, places in order, chains; an awaiter anywhere | `BatchesIndependent`, `TrackersFollowOrder`, `EveryResolverOrdered`, `PlaybackSlotsReady`, `PlaybackAwaitsServed` |
| window | client, broker and two workers, two orders, tasks that panic, spurious unparks, a buffer smaller than the order | `ChannelExclusive`, `TasksReady`, `ReturnsHonest`, `NotifiedInOrder`, `ClientReturns` |

Four runs end in a counterexample, each to a statement the repository makes:

* `proof_caps`: `get_proof_caps` reads pinned buffers without waiting for the
  copies it launched; `copy_cap`, of the FRI commit phase, waits.
* `pow_witness`: even with cleared buffers `compute` may return a witness that does
  not pass, because of the missing barrier and fence.
* `fri_padding`: `coset_e` multiplies the coefficients by the coset's powers and stores
  them, but does not pad: the rest of a layer is transformed as it is.  On the
  `overlay_soa` path the layers lie on memory that witness generation has filled and
  nothing clears, and the query rounds do not verify, although `overlay.rs` says that the
  block serves both.  `pad_coset` relies on cleared memory in the same way, which is the
  tail of the extensions in `CommittedPlain`.
* `registrar_order`: the registrar's comment says that it handles any dependency that
  is not circular (`NonCircularHandled`).  It waits for a prefix of the places, so a
  resolver that gives a place below one it needs waits for itself although its inputs are
  set, and `final_flush` panics.  `EveryResolverOrdered` is what does hold: clients all of
  whose resolvers give only places above the ones they need never end there.

What this says about a second prove on the same object.  A prove that recycled the
witness memory has destroyed the graph, and a second one stops at the assert of
`replay`.  One that kept it goes on with a challenger that is not reset, with `ldes` and
the quotient's slots holding the first proof's data, and the quotient kernels add to
what is there.  No document promises a second prove, so no run says that its proof
verifies.  `fri_proof` has one (`MaxProves` 2): `CommittedPlain`, `QuotientComplete`,
`InitialProofsVerify` and `StepsOpenFolds` hold in it, with the first prove's data as the
only terms that do not belong there, while `FirstStepsVerify`, that the verifier's checks
of the rounds pass, is about a first prove that found zeros.

Observations that no run states:

* the sort's assert "{} generators weren't run" does not notice a generator that
  watches a target nobody produces, since such a target makes no edge; the CPU's
  assert of the same text does;
* `release_after_replay` says the memory of a live `CudaGraphExec` must not be recycled
  (`witgen.rs:958`); the `overlay_soa` path does so (`BindOverlay`);
* playback publishes the length the order had at a registration.  If a `set_value` after
  a resolver's registration woke it in the recording, playback may publish it before the
  value is set, hence `SetsBeforeUse` in `PlaybackSlotsReady`; and an awaiter asked for
  before the first registration indexes the record at -1;
* after the window's panic has been handed to one awaiter, the next `wait` returns
  without a value and without a panic (`awaiters.rs:99`), hence `delivered` in
  `ReturnsHonest`;
* `Drop` of the resolver waits for everything also while the client unwinds
  (`mod.rs:365`); with resolvers still delayed, `final_flush` then panics a second time
  and the process aborts.

A related note: the header of `setup.rs` (lines 3-6) still describes one overlay
block that is never freed and allocated again; the code has three paths, one of
which frees first, and the comment in `bind_post_witgen_views` explains why.

## 4. Bounds, and why they are enough

* witgen: a chain of three and two further generators give windows of slack that
  overlap, candidates of the same type on several levels, and leftovers; two pairs give
  wide circuits of two or three layers.  There are batches with different list lengths,
  an output another generator has written before, a wire without a writer.
  `ChainFastMinLevels` and `StreamedLayerThreshold` are lowered to 3 so that both sides
  of each test occur.  The theorems remove the bound for everything but `SortTerminates`.
* challenger: message lengths 1, 4, 7, 8, 9, 17 around the rate of 8, buffers up to
  64, 1 to 9 challenges.  The theorems remove the bound.
* transcript: opening vectors of every even length modulo the rate, caps of 2 and 4
  hashes, one and two FRI rounds.  The theorems remove the bound for `CallsDisciplined`
  and `PowResponseIsTranscripts`.
* lifecycle: every sum the path choice compares with the free memory, exactly and
  one byte below; `Align` 64 and `Slack` 100 stand for the code's 256 and its slack, so that
  rounding matters at small sizes; `MaxProves` 2 is the least at which a prove meets
  another's blocks.  The theorems remove the bound.
* pow: `Tries` 2, `MaxRounds` 2 launches, `MaxProves` 2: a find in a later try, in a
  later launch, and one left over from a first prove.
* fri_proof: a rate of 4 is the least at which the bit reversal of a part is not the
  identity; one constant, two sigmas, two routed wires and five more put neighbours on
  both sides of the range `zp` transforms; two challenges make the spacing of quotient
  chunks matter, and the eight chunks fill the query scratch, which has room for
  `num_wires + 1`, exactly.  `LdeCounts` gives none, some and all of each segment.
  `DegreeBits` 7 with a cap of 4 leaves seven layers for one, two and three reductions of
  unequal arity (`Reductions`), the last of them down to a constant whose tree is its
  cap; `TileBits` 3 stands for the kernels' tile of 32, so that the smallest layer is
  just one tile.  Of the `NumQueries` 6 challenges two are beyond the domain until they
  are reduced, two meet at one point, one is 0 and one the last point.  The quotient
  degree factor is `1 << rate_bits`, as in every configuration the kernels accept, and
  one of the three gates has no kernel.  `Cleared` says nothing of `fp_inputs`, which is
  zero or not at the build; `ldes` and the buffers of FRI are zero in the first prove,
  without which `FirstStepsVerify` would say nothing, and `MaxProves` 2 is the least at
  which a prove meets another's data in them.  The theorems remove the bounds, and take
  any `Cleared`, for everything but `FirstStepsVerify`.
* resolver: `GUIDE_SIZE` 3 is the least that works (a push may open two spans, and the
  first takes none) and so the one in which spans are released and renamed most often;
  parallelism 1 and 2; up to `NumPlaces` 6 places, so that three spans of two fill and
  carry over.  All calls in any order for 3 places with any inputs (`AnyOrderPlaces`) and
  for 4 with one input below (`ShuffledPlaces`), 5 places in order with two inputs
  (`InOrderPlaces`), chains of 6 (`ChainPlaces`); one awaiter (`MaxAwaits`) anywhere;
  playback buffers of 1 and 2 (`BufSizes`).  The theorems remove the bound.
* window: two workers with room for one task each (`ElemSize` 1) and `BufferCap` 2: a
  batch of two, one of one, one that the buffer cuts; three tasks of which two may
  panic with one awaiter, two tasks in a chain with two awaiters, the second after the
  panic.  The theorems remove the bound for everything but `ClientReturns`.

## 5. Fairness

Build runs on one host thread that never waits for another, hence weak
fairness of the next step of the sort.  In `FriPow` the host
loop, and every kernel thread separately, are weakly fair: a kernel thread waits
for no other, and the host's synchronize returns when all are done.  In `ResolutionWindow` client,
broker and each worker are weakly fair, as threads of an operating system are; a
parked worker is enabled only by a token, and a spurious unpark is possible but never
promised, so nothing rests on it.  A client may publish less than the whole order.
Safety does not depend on any of this.  `SearchEnds` speaks of candidates within the launches
`MaxRounds` allows; the code's loop has no such limit.

## 6. What is proved

The first part of `WitgenReplay_proofs`, for every finite set of circuits' generators, every
targets, types and edges, from the named assumptions of `WitgenSchedule`:

* `SortInvariant`: `TypeOK /\ SortInv` is invariant.  `ScheduleLegal` speaks of the
  end only and is not inductive.  `SortInv` says what each pass has achieved so
  far: in the forward pass the queue holds exactly the unpopped generators whose
  predecessors are popped, and a popped one is below its successors (`AsapPassInv`;
  `AlapPassInv` is its mirror); after it `asap <= alap` along growing levels
  (`WindowInv`, `AlapOrdered`, `LevelsTight`); and a placed generator stands after
  the last level each predecessor can still get (`PlacementSafe`), which is what
  lets the custom policy place generators in any order;
* `Legality`, `LevelsFinal`, `NoEmptyLayer`, `TypeCorrect` follow from it;
* `NeverPanics` also needs that the producer pass yields edges without a cycle
  (an order in which generators were run exists) and that the generators are
  finite: a minimal unpopped generator would be in the queue, and a leftover with
  the smallest asap always has a window.

`ChallengerGpu_proofs`, for every set of elements, sponge, message and count:

* `ChallengerInvariant`: `ChallengerInv` is `ProgressInv` (the kernel's index and what
  it has left to do lead to the host's index) and `FreshInv` (from the last
  duplexing on, the stored outputs are those of the current sponge);
* `HostIndices`, `FreshOutputs` follow from it;
* `Refinement`: with the used part of the input buffer and the available part of
  the squeezed state as the CPU's buffers, every step is a step of `Challenger` or
  a stutter.

`ProverTranscript_proofs`, for every configuration that satisfies `ConfigsAssumption` and
every sponge:

* `CallsPass`: a list of calls leads the host through modes (`Takes`, `Passes`): nothing
  waiting, half a block after the circuit digest with the outputs counted as full, any
  input waiting, and the steps around the proof of work.  That the modes fit rests on
  lengths: trees and caps are whole blocks, a tree is no shorter than its cap, so are the
  final polynomial and its buffer (`TreeLens`, `FinalLens`), and the FRI rounds, as many
  as there are, each lead from no input waiting back to it (`PassesFlatten`);
* `TranscriptInvariant`: `CallsDisciplined` is not inductive, since a call's discipline
  depends on what earlier calls left in the indices.  `TranscriptInv` says that the host
  is in the mode the calls made so far lead to, that the kernel under way is the last
  call's, and where the proof of work stands: the response found is owed by the sponge
  together with the witness until the witness is absorbed, and drawn after it;
* `Discipline` (`CallsDisciplined`) and `PowAgreed` (`PowResponseIsTranscripts`) follow.
  With `Discipline`, what `ChallengerGpu_proofs` shows of disciplined calls holds of the
  prover's;
* `CallsSpellScript`: the calls, element by element, are the verifier's script.  The slices
  `get_opening_set` makes lie end to end in the order they are observed in
  (`OpeningsInOrder`), the caps have the same length on both sides, the coefficients sent
  without the blow-up are the final polynomial's (`FinalLenAgrees`), and the FRI rounds
  correspond one by one (`SpellsFlatten`);
* `VerifierSteps`: the initial state is the verifier's and every step is its next step or a
  stutter.  `VerifierInv`, on top of `TranscriptInv` and the challenger's own invariant,
  says that `pos` is where the calls made and the kernel's index put it in the script
  (`Laid`, `Reached`); that an element of a kernel is one observe or one get of the CPU's
  challenger is taken from `ChallengerGpu_proofs`, instantiated for any message.  It
  assumes `SpongeTyped`: the parts of the proof are field elements, the permutation maps
  states to states and gives eight field elements.

`ResolutionWindow_proofs`, for every number of workers, every order, buffer and element
size, and whatever panics:

* `ChannelInvariant`: `ChannelExclusive` is not inductive, since it does not say which
  batch a worker has seen.  `ChannelInv` follows each worker through a batch: between two
  batches it has seen the last one and looks for the next, is gone, or has seen the order
  to die (`Rested`); from the raising of the correlation to the clearing of the
  elements it has not taken the batch yet, is running it, or is done (`NotTaken`,
  `Running`, `Finishing`), and is done once the broker's spin has passed it (`Awaited`).
  The steps of client and broker outside the channel leave it alone (`StutterInv`);
* `Exclusion`: `ChannelExclusive` follows.

The second part of it, on top of `ChannelInv`, for every order of which
`OrderIndependent` holds:

* `WindowInvariant`: `WindowInv` adds what the channel carries.  From the writing of the
  elements to their clearing the workers' shares hold each task of the batch once
  (`DealtOnce`, `DealtAll`), and the batch is no wider than its first task allows; a worker
  has not touched its share, or has run it up to what it still holds (`Untouched`,
  `Begun`); outside a batch, and as long as nothing has panicked, exactly the order up to
  `range_start` is resolved (`ResolvedInv`); a panic leaves the broker no way to another
  batch (`BrokerInv`).  The lemmas before it are the arithmetic of dealing in turn;
* `WorkersRunReadyTasks` (`TasksReady`): what a task needs lies before the batch, by
  `OrderIndependent` and the width, and what it gives is given by no other;
* `ClientToldTheTruth` (`ReturnsHonest`), `AwaitersNotifiedInOrder` (`NotifiedInOrder`).

`ProverLifecycle_proofs`, for every set of circuits and devices, every alignment, slack
and number of proves:

* `LifecycleInvariant`: `LifeInv` has three parts.  `HeapInv`: the heap is exactly the
  blocks of three owners, no two the same, and the free bytes are the capacity without
  them.  `ViewInv`: in which block each view and each captured pointer lies, and at which
  steps there are none; the moments between a free and the forgetting of what pointed
  there are the hard ones.  `FirstInv`: what the first prove still finds in place;
* `NothingLeaks` (`OwnedOnce`), `CapturedPointersValid` (`CapturedMemoryLive`), `ViewsValid`
  (`ViewsBacked`), `WitnessCommitted` (`FirstProveCommitsWitness`) follow from it;
* `ViewsNeverOverlap` (`PostViewsDisjoint`): rounding up loses no byte (`AlignUp`), the
  cursor's ends grow (`EndsGrow`), so the regions carved are disjoint and end where the
  sizer said (`CarveDisjoint`, `SizerFits`);
* `PeakIsMaximum` (`FirstProveCompletes`): a device that holds the larger of the two
  peaks, with the slack, finishes its first prove on each of the three paths.

The second part of `WitgenReplay_proofs`, for every finite set of generators, every runnable circuit, policy,
order in a batch and interleaving of threads, from the invariants of the sort:

* `ReplayInvariant`: `ReplayInv` says that the producer pass leaves no runnable generator
  out (`FrontierInv`), which with `CircuitsRunnable` makes every watched target an input
  or an output of an earlier level (`ScheduleSound`); that the batches hold each generator
  the loop has been past once, in the order of the levels (`BatchesInv`); that two outputs
  never share a slot and none lies in the input area (`SlotsApart`, from the injectivity
  of `Stride`); that a target's slot is where the host uploads it or where a kernel on the
  first level of its writers stores it (`MapInv`, `Home`); that a kernel reads each
  watched target there (`ReadsInv`); and that of the slots exactly those of what has run
  hold values, no level having begun before all earlier ones ended (`RunInv`).  The last
  needs `LayersPopulated`: a graph node waits for the level just before its own only, and
  an empty one would let it start at once;
* `WitnessRight` (`WitnessCorrect`) and `WrittenOnce` (`SlotsWrittenOnce`) follow from it;
* `RefinesPartialWitness`: with the targets whose value some slot holds as `known`, the
  upload is `SetInputs`, a thread is `RunGenerator` of its generator, and every other step
  stutters.

`ResolverPlayback_proofs`, for every client that satisfies `PlanLegal`, every number of
places and awaiters, every parallelism, `GUIDE_SIZE` from 3 on and playback buffer, and
every order in which resolvers are woken.  Its first part has the lemmas about the
guide's operators.

* Spans are reused: the first is released into the order and comes back, empty, as the last,
  while places keep the locations they were given.  The invariant therefore
  speaks of what is not in the state.  `H` is the list of all spans there ever were, by id,
  of which the guide holds the last; `W` is the location each pushed resolver was given.
  `Shape` says that the order is the released spans one after the other, and that an
  item's parallelism reaches neither past the next span nor to an item of it that may
  depend on one at or before it (`Windows`); `Placed`, that `W` and `H` agree.  A push, a
  release and a flush keep both, extending `H`;
* `SorterInv` says that such `H` and `W` exist (`Sorting`): a pushed resolver's location
  is that of its outputs, and follows those of its inputs by more than a span, or by one
  and no nearer to its start (`Settled`, `Follows`); any other waits in exactly one place,
  on the stack, among the woken or held back (`WaitingOnce`); the tracked places have no
  hole up to `max_tracked`, and a resolver is held back under its largest input exactly
  when that is above it (`Prefix`, `HeldRight`);
* `BatchesAreIndependent` and `TrackersFollowTheOrder` follow from `SorterInv`: the items of
  the order and of the guide stand where the lengths of the spans before them say
  (`LaidOut`).  The first states what `ResolutionWindow` assumes of its order
  (`OrderIndependent`), so the window's theorems hold of the orders the sorter leaves;
* `EveryResolverIsOrdered` adds that every place a client gives is set, given by a
  registered resolver or still to come (`Accounts`), that a recording that ended holds
  nothing back, or panicked over what it does (`Ended`), and that the record notes where
  each resolver stands (`RecordRight`).  If a resolver is held back at the end although
  each gives only places above the ones it needs, the first place that is not tracked
  is an output of one that is held back, all of whose inputs are below it and so
  tracked: it would not be held;
* `PlaybackSlotsAreReady` and `PlaybackAwaitsAreServed` compare two runs, and a finished
  recording does not show the states it went through.  `RecordRight` keeps of them that
  the part of the order a registration's record covers holds only resolvers registered
  up to it (`Lengths`); `Ledger`, which call of the list registered each resolver
  (`Logs`), and that each place an awaiter was asked for had been set before, or is
  given in the part of the order covered by the last registration before it (`Served`).
  `PlaybackInv` says where playback stands in the same list of calls: the registrations
  counted, the places set, what is in the buffer, in the slots, and published
  (`Counted`, `SetUpTo`, `Buffered`, `Stored`, `Published`).

`FriVerifier_proofs`, for every layout, rate and choice of extensions, in every prove,
whatever the memories held and whichever gates have kernels:

* bit reversal is an involution on the parts (`BitReversed`, by induction on the number of
  bits), so the loop over the parts fills every block of leaves once, and the block of a
  part is where the extension has its coset;
* `BufferInv`: `CommittedPlain` speaks of the phases in between the loops only.
  `FirstProve` follows a prove through all phases: the segments finished so far are ready
  (`Ready`: the slots hold the coefficients, moved by what the loop running has multiplied
  them with, the extensions and the trees those of the same polynomials, up to a tail),
  the segment under way is as far as its phase says, the slots of later ones are as they
  were found.  The coset reached after `part` turns is g w^(part - 1) (`Reached`), which
  is what makes the single `Untwist` at the end right.  The end of a prove leaves what
  the next one starts from (`NextProve`), so one invariant serves all of them;
* `CommittedStaysPlain` (`CommittedPlain`) and `QuotientsAreComplete`
  (`QuotientComplete`) follow.  For the second, the terms of a chunk are followed through
  the loop: each part adds those of the kernels, of z and the tails of what it read
  (`Tails`), to what the slot held (`QuotientSum`);
* `InitialProofsPass` (`InitialProofsVerify`), for every set of query challenges.
  `QueryInv` says that the segments queried so far have their leaves (`LeavesRight`) and
  their sibling hashes (`SiblingsRight`) in the result buffers and that `xIndexes` is each
  challenge reduced to the domain; leaves that go through the scratch are included where
  `ScratchFits` says that every segment has room in it.  The scratch is allocated for
  `num_wires + 1` elements of every query, which is enough with the 135 wires and 16
  quotient chunks of the code's configurations, and nothing checks it.  The invariant
  rests on three facts about addresses: a launch writes each address
  of the scratch once and `get_inital_tree_proofs` reads it back from the same place
  (`LeafRead`); the rows the queries write into a result buffer at the offset of one
  segment are disjoint and leave the other segments' alone (`RowWritten`, `RowKept`, over
  `Rows` and sums of segment sizes); and the node the kernel finds by counting trailing
  ones of the leaf index is the one beside the verifier's path (`SiblingBeside`);
* `StepsOpen` (`StepsOpenFolds`), for every degree, list of reductions (within
  `FriAssumption`) and set of queries.  `FinalRight`: what `get_final_poly` leaves is the
  batched polynomial of the openings on top of what was there.  `CommitInv` follows the
  commit phase: after some rounds the layers are the folds of that polynomial on the
  cosets g^(2^bits), whatever their memory held (`IsLayer`), and the trees are of the
  layers (`CommittedTo`).  `CapInv` keeps that the caps of a first prove are those of
  the trees.  `StepInv` follows the queries:
  the rounds so far have the values of the layers (`EvalsTo`) and their Merkle paths
  (`PathsTo`) in place, and `xIndexes` has moved on by their arities, one shift at a time
  (`DivDiv`).  The rows of the rounds lie at sums of the sizes before them and are
  disjoint (`RoundWritten`, `RoundKept`).

`DataInduction` states induction over the natural numbers on sets rather than on
predicates, so that the provers can use it, and derives from it that a function defined
by recursion on an index exists and stays in its type; the offsets of the cursor, the
sums of the sizer, the powers of two, the concatenation of the FRI rounds, the layout of
the resolver's spans, bit reversal and the places of the query data rest on it.

## 7. What is only model-checked

Liveness (`SortTerminates`, `SearchEnds`, `FindKept`,
`ClientReturns`) is outside what the prover handles, and so is the verifier's fairness in
`ImplementsVerifier`: `VerifierSteps` is the rest of it.  `FirstStepsVerify` is a
statement about zero memory that the code does not ensure; it is checked on the instance,
and what holds without it, `StepsOpenFolds`, is proved.

## 8. What is not modelled

* Field arithmetic, hashing and gate evaluation: the permutation, the generators and
  the proof-of-work test are uninterpreted, and transforms are followed by the form of
  their operands only.  A node of a Merkle tree is its place.
* Reductions too small for the kernels' tiles, excluded by `FriAssumption`:
  `batch_transpose` launches no block for an arity below 16, and `coset_e` stores nothing
  for fewer than 32 coefficients.  `validate_fri_proof_shape`, and proofs with salts.
* A quotient degree factor other than the rate.
* Lookups, which the GPU transcript does not have.
* Configurations outside the transcript's reach: `cap_height` 0, final polynomials
  shorter than four extension elements, no challenges, no FRI reduction (the code
  underflows at `orchestrator.rs:639`).  In the first two the host's index
  prediction and the device may part, see `Disciplined`.
* The transcript of a second prove: the challenger is not reset between proves.
* The capacity of `read_map` and of the parameters, other processes on the device,
  the wrap of the 32-bit `offset` of the proof of work.
* The fixed buffers of `GpuProverSetup::new`, which are part of the capacity.
* Of the circuit resolver: the values and the resolution functions, the memory of the
  resolver box, statistics and the paranoia mode, a pool of no threads
  (`BOOJUM_CR_THREADS` 0), and the single-threaded resolver.
* The rest of the repository, most of its lines: gates, gadgets, field and hash
  arithmetic, serialization, recursive verifiers, `evm`, `starky` and the benchmark
  programs are vendored, sequential and data-heavy.  What could be wrong there is a
  formula, which a model that abstracts data to what its properties tell apart does not
  contain; the map therefore covers a small part of all lines, and most of the files
  that have state, order or threads of their own.

## 9. Plan

Done: the sort, the layout and replay, the challenger, the prover's transcript, the
memory lifecycle, the polynomial buffers, FRI from the final polynomial to the assembled
proof with the verifier's checks, the circuit resolver's sorting and playback and its
resolution window, with the proofs of their safety and of the agreement of the prover's
transcript with the verifier's.
Next, in this order:

1. The transcript of repeated proves, and what must be reset.
2. The capacity of `read_map` and parameters; the memory paths of the lifecycle composed
   with what the buffers of `FriProof` hold.
