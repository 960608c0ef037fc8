-------------------------- MODULE VerifierTranscript --------------------------
(***************************************************************************)
(* The transcript the verifier recomputes from a proof: get_challenges of  *)
(* plonk/get_challenges.rs and fri_challenges of fri/challenges.rs, on the *)
(* CPU's challenger.  An element is named by what it is; elements of the   *)
(* proof by their place in the proof as ProofAssemblyService put it        *)
(* together (integration/proof_assembly.rs).                               *)
(***************************************************************************)
EXTENDS Challenger, SequencesExt, PowersOfTwo

CONSTANT Configs      \* the circuit configurations that may occur

VARIABLES
  config,   \* the circuit's configuration
  script,   \* its transcript, element by element
  pos,      \* how many steps of the script are done
  drawn     \* the challenges, each with its name

vvars == <<cvars, config, script, pos, drawn>>

D == 2        \* degree of the extension
HashLen == 4  \* field elements of a hash

-----------------------------------------------------------------------------
\* n elements of a part of the proof; r tells the FRI rounds apart.
Named(name, r, n) == [j \in 1 .. n |-> <<name, r, j>>]

\* The extension-field openings lo .. hi - 1 of the opening vector.
Slice(lo, hi) == [j \in 1 .. D * (hi - lo) |-> <<"opening", 0, D * lo + j>>]

NumConstSigmas(c) == c.num_constants + c.num_routed_wires
NumPolys(c) ==
  NumConstSigmas(c) + c.num_wires + c.num_partial_products + c.num_quotients

\* get_opening_set: the fields of an OpeningSet, as slices.
OpeningSet(c) ==
  LET const_sigmas == NumConstSigmas(c)
      offset       == const_sigmas + c.num_wires
      nc           == c.num_challenges
      npp          == c.num_partial_products
  IN [ constants        |-> Slice(0, c.num_constants),
       plonk_sigmas     |-> Slice(c.num_constants, const_sigmas),
       wires            |-> Slice(const_sigmas, offset),
       plonk_zs         |-> Slice(offset, offset + nc),
       partial_products |-> Slice(offset + nc, offset + npp),
       quotient_polys   |-> Slice(offset + npp, NumPolys(c)),
       plonk_zs_next    |-> Slice(NumPolys(c), NumPolys(c) + nc) ]

\* to_fri_openings without lookups: the batch at zeta, the batch at g * zeta.
ObservedOpenings(c) ==
  LET o == OpeningSet(c)
  IN  o.constants \o o.plonk_sigmas \o o.wires \o o.plonk_zs \o o.partial_products
      \o o.quotient_polys \o o.plonk_zs_next

Cap(c, name, r) == Named(name, r, HashLen * Two[c.cap_height])

\* Number of coefficients of the polynomial FRI ends with.
FinalPolyLen(c) ==
  Two[c.degree_bits - FoldLeft(LAMBDA a, b : a + b, 0, c.arity_bits)]

Observe(elements) == [j \in DOMAIN elements |-> [op |-> "observe", e |-> elements[j]]]
Get(name, r, n)   == [j \in 1 .. n |-> [op |-> "get", name |-> name, r |-> r]]

FriScript(c) ==
  LET round(r) == Observe(Cap(c, "fri", r)) \o Get("fri_beta", r, D)
  IN  Get("fri_alpha", 0, D)
      \o FlattenSeq([r \in DOMAIN c.arity_bits |-> round(r)])
      \o Observe(Named("final_poly", 0, D * FinalPolyLen(c)))
      \o Observe(Named("pow_witness", 0, 1))
      \o Get("pow_response", 0, 1)
      \o Get("query", 0, c.num_query_rounds)

Script(c) ==
  Observe(Named("circuit_digest", 0, HashLen))
  \o Observe(Named("public_inputs_hash", 0, HashLen))
  \o Observe(Cap(c, "wires", 0))
  \o Get("beta", 0, c.num_challenges)
  \o Get("gamma", 0, c.num_challenges)
  \o Observe(Cap(c, "partial_products", 0))
  \o Get("alpha", 0, c.num_challenges)
  \o Observe(Cap(c, "quotients", 0))
  \o Get("zeta", 0, D)
  \o Observe(ObservedOpenings(c))
  \o FriScript(c)

-----------------------------------------------------------------------------
Start ==
  /\ New
  /\ config \in Configs
  /\ script = Script(config)
  /\ pos = 0
  /\ drawn = <<>>

Step ==
  /\ pos < Len(script)
  /\ LET s == script[pos + 1]
     IN  \/ /\ s.op = "observe"
            /\ ObserveElement(s.e)
            /\ UNCHANGED drawn
         \/ /\ s.op = "get"
            /\ GetChallenge
            /\ drawn' = Append(drawn, <<s.name, s.r, challenge'>>)
  /\ pos' = pos + 1
  /\ UNCHANGED <<config, script>>

VerifierSpec == Start /\ [][Step]_vvars /\ WF_vvars(Step)
=============================================================================
