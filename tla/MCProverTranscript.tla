------------------------- MODULE MCProverTranscript -------------------------
(***************************************************************************)
(* A symbolic sponge: the list of the blocks absorbed.  Configurations     *)
(* with caps of 2 and 4 hashes, one to three challenges, opening vectors   *)
(* of every even length modulo the rate, one or two FRI rounds, and final *)
(* polynomials down to the shortest the standard strategy leaves (2^2).    *)
(***************************************************************************)
EXTENDS ProverTranscript

MCAbsorb(s, block) == Append(s, block)
MCSqueeze(s) == [j \in 1 .. 8 |-> <<"out", s, j>>]
MCZeroSponge == <<>>
MCZero == <<"zero">>
MCElement == {MCZero}     \* only the initial content of a destination

MCConfigs ==
  [ cap_height : {1, 2}, num_challenges : 1 .. 3,
    num_constants : {1}, num_routed_wires : {2}, num_wires : {3, 4, 5, 6},
    num_partial_products : {4}, num_quotients : {2},
    degree_bits : {6, 7}, rate_bits : {3}, arity_bits : {<<4>>, <<2, 2>>},
    num_query_rounds : {1, 9} ]
=============================================================================
