--------------------------- MODULE ProverTranscript ---------------------------
(***************************************************************************)
(* The transcript of the GPU prover: the calls that the set-up             *)
(* (setup.rs), prove_with_prepared_witness and fri_prove (orchestrator.rs) *)
(* make to the GPU challenger through TranscriptStep (transcript.rs), each *)
(* with the length of the device buffer it passes, and the proof of work   *)
(* in between.  The challenger is ChallengerGpu; the verifier's transcript *)
(* of the same proof is VerifierTranscript.                                *)
(***************************************************************************)
EXTENDS Integers, SequencesExt, PowersOfTwo

CONSTANTS
  Element, Sponge, ZeroSponge, Absorb(_, _), Squeeze(_), Zero,
  Configs

VARIABLES
  config,
  calls, script, \* the prover's calls and the verifier's script: fixed by config
  step,          \* the next call of the script
  pos, drawn,    \* elements observed or drawn so far; the challenges drawn
  pow_response,  \* what the proof-of-work kernel saw for the witness it chose
  sponge_state, input_buffer, output_buffer, in_idx, out_idx, kernel, challenge

GPU == INSTANCE ChallengerGpu WITH Messages <- {}, BufferLens <- {}, Counts <- {}

\* The verifier, on the transcript as far as the device has got.
Verifier == INSTANCE VerifierTranscript WITH
  input_buffer  <- GPU!Prefix(input_buffer, GPU!InUse),
  output_buffer <- GPU!Prefix(Squeeze(sponge_state), GPU!Available)

gpu == <<sponge_state, input_buffer, output_buffer, in_idx, out_idx, kernel, challenge>>
fixed == <<config, calls, script>>
pvars == <<fixed, step, pos, drawn, pow_response, gpu>>

D == 2
None == <<"none">>

-----------------------------------------------------------------------------
\* A call: the elements observed and the length of the buffer they are in, or
\* the challenges asked for, or the search for the proof-of-work witness.
ObserveCall(message, len) == <<[op |-> "observe", message |-> message, len |-> len]>>
GetCall(name, r, n)       == <<[op |-> "get", name |-> name, r |-> r, n |-> n]>>
GrindCall                 == <<[op |-> "grind"]>>

Numbered(name, r, n) == [j \in 1 .. n |-> <<name, r, j>>]

cap_len(c) == 4 * Two[c.cap_height]

\* merkle_tree_len, and the digests of a FRI round (fri_commit_part_lens).
\* Mutant: the last digest of the tree is left out.
TreeLenShort(log_leaves) == 8 * Two[log_leaves] - 4

TreeLen(log_leaves) == 8 * Two[log_leaves]

Bits(c) == c.degree_bits + c.rate_bits

ArityBits(c, r) == FoldLeft(LAMBDA a, b : a + b, 0, SubSeq(c.arity_bits, 1, r))

Config ==
  [cap_height : Nat \ {0}, num_challenges : Nat \ {0}, num_constants : Nat,
   num_routed_wires : Nat, num_wires : Nat \ {0}, num_partial_products : Nat,
   num_quotients : Nat, degree_bits : Nat, rate_bits : Nat, arity_bits : Seq(Nat),
   num_query_rounds : Nat \ {0}]

\* The partial products begin with one polynomial for each challenge.  FRI reduces
\* at least once, no tree is smaller than its cap, and the polynomial it ends with
\* has at least four coefficients (reduction_arity_bits, with the strategies of the
\* standard configurations).
ASSUME ConfigsAssumption ==
  /\ Configs \subseteq Config
  /\ \A c \in Configs :
       /\ c.num_challenges <= c.num_partial_products
       /\ c.arity_bits # <<>>
       /\ \A r \in DOMAIN c.arity_bits :
            ArityBits(c, r) \in Nat /\ ArityBits(c, r) + c.cap_height <= Bits(c)
       /\ ArityBits(c, Len(c.arity_bits)) + 2 <= c.degree_bits

\* observe_cap passes the whole tree, the cap being cap_len elements of it.
ObserveCap(c, name, r, log_leaves) ==
  ObserveCall(Numbered(name, r, cap_len(c)), TreeLen(log_leaves))

\* Mutant: the openings at g * zeta are forgotten.
NumOpeningsAtZeta(c) ==
  D * (c.num_constants + c.num_routed_wires + c.num_wires
       + c.num_partial_products + c.num_quotients)

NumOpenings(c) ==
  D * (c.num_constants + c.num_routed_wires + c.num_wires
       + c.num_partial_products + c.num_quotients + c.num_challenges)

\* fri_committed_trees: the coefficients buffer of the last round is longer than
\* the final polynomial by the blow-up factor.
FinalCoefficientsLen(c) == D * Two[Bits(c) - ArityBits(c, Len(c.arity_bits))]

FriCommittedTrees(c) ==
  FlattenSeq([r \in DOMAIN c.arity_bits |->
                ObserveCap(c, "fri", r, Bits(c) - ArityBits(c, r)) \o GetCall("fri_beta", r, D)])
  \o ObserveCall(Numbered("final_poly", 0, FinalCoefficientsLen(c) \div Two[c.rate_bits]),
                 FinalCoefficientsLen(c))

ProofOfWork ==
  GrindCall \o ObserveCall(Numbered("pow_witness", 0, 1), 1) \o GetCall("pow_response", 0, 1)

Calls(c) ==
  ObserveCall(Numbered("circuit_digest", 0, 4), 4)
  \o ObserveCall(Numbered("public_inputs_hash", 0, 4), 4)
  \o ObserveCap(c, "wires", 0, Bits(c))
  \o GetCall("beta", 0, c.num_challenges)
  \o GetCall("gamma", 0, c.num_challenges)
  \o ObserveCap(c, "partial_products", 0, Bits(c))
  \o GetCall("alpha", 0, c.num_challenges)
  \o ObserveCap(c, "quotients", 0, Bits(c))
  \o GetCall("zeta", 0, D)
  \o ObserveCall(Numbered("opening", 0, NumOpenings(c)), NumOpenings(c))
  \o GetCall("fri_alpha", 0, D)
  \o FriCommittedTrees(c)
  \o ProofOfWork
  \o GetCall("query", 0, c.num_query_rounds)

-----------------------------------------------------------------------------
Init ==
  /\ GPU!New
  /\ config \in Configs
  /\ calls = Calls(config)
  /\ script = Verifier!Script(config)
  /\ step = 1 /\ pos = 0
  /\ drawn = <<>>
  /\ pow_response = None

Call(c) ==
  /\ \/ c.op = "observe" /\ GPU!LaunchObserve(c.message, c.len)
     \/ c.op = "get" /\ GPU!LaunchGet(c.n)
  /\ step' = step + 1
  /\ UNCHANGED <<fixed, pos, drawn, pow_response>>

\* What a thread absorbs for its candidate.
\* Mutant: the whole input buffer, with the zeros it was filled with.
PowBlockWhole == [input_buffer EXCEPT ![in_idx + 1] = <<"pow_witness", 0, 1>>]

PowBlock == Append(GPU!Prefix(input_buffer, in_idx), <<"pow_witness", 0, 1>>)

\* fri_proof_of_work_new: every thread overwrites the first in_idx elements of
\* the sponge with the input buffer, the next with its candidate, permutes, and
\* tests the last output; the witness is a candidate that passed.
GrindWitness(c) ==
  /\ c.op = "grind"
  /\ kernel = GPU!Idle
  /\ pow_response' = Squeeze(Absorb(sponge_state, PowBlock))[GPU!Rate]
  /\ step' = step + 1
  /\ UNCHANGED <<fixed, pos, drawn, gpu>>

ObserveNext ==
  /\ GPU!KernelObserve
  /\ pos' = pos + 1
  /\ UNCHANGED <<fixed, step, drawn, pow_response>>

DrawNext ==
  /\ GPU!KernelGet
  /\ pos' = pos + 1
  /\ drawn' = Append(drawn, <<calls[step - 1].name, calls[step - 1].r, challenge'>>)
  /\ UNCHANGED <<fixed, step, pow_response>>

Retire ==
  /\ GPU!Retire
  /\ UNCHANGED <<fixed, step, pos, drawn, pow_response>>

Advance ==
  \/ step <= Len(calls) /\ (Call(calls[step]) \/ GrindWitness(calls[step]))
  \/ ObserveNext
  \/ DrawNext
  \/ Retire

Finished == step > Len(calls) /\ kernel = GPU!Idle /\ UNCHANGED pvars

Next == Advance \/ Finished

Spec == Init /\ [][Next]_pvars /\ WF_pvars(Advance)

-----------------------------------------------------------------------------
\* Every observe of the prover keeps the discipline the GPU challenger needs, in
\* the state it is made in: the lengths of trees, openings and coefficients.
CallsDisciplined ==
  kernel = GPU!Idle /\ step <= Len(calls) /\ calls[step].op = "observe"
    => GPU!Disciplined(calls[step].message, calls[step].len)

\* The response the proof-of-work kernel tested is the one the transcript gives
\* after observing the witness, the one the verifier will test.
PowResponseIsTranscripts ==
  \A k \in DOMAIN drawn : drawn[k][1] = "pow_response" => drawn[k][3] = pow_response

\* The prover's transcript is the verifier's: same elements in the same order,
\* same challenges under the same names, to the end.
ImplementsVerifier == Verifier!VerifierSpec
=============================================================================
