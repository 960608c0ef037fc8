------------------------- MODULE MCProverLifecycle -------------------------
(* Small circuits and devices around every threshold of the path choice. *)
EXTENDS ProverLifecycle

\* One or two reduction rounds over a degree of 4 with unaligned lengths; SoA
\* smaller, about as large as, and larger than the delayed commitments.
Sizes == {<<1, 5>>, <<70, 10>>, <<300, 220>>}

Base(size, arities) ==
    [read_len |-> size[1], witness_len |-> size[2], params_len |-> 3,
     rep_map_len |-> 24, degree |-> 4, extension_degree |-> 2, rate_bits |-> 1,
     arity_bits |-> arities]

Thresholds(b) ==
    LET soa_bytes == witgen_captured_bytes(b)
        post_bytes == post_witgen_bytes(b)
        sums == {soa_bytes, soa_bytes + MapBytes(b), post_bytes,
                 soa_bytes + post_bytes, soa_bytes + post_bytes + Slack,
                 soa_bytes + 2 * post_bytes + Slack}
    IN  sums \cup {t - 1 : t \in sums} \cup {t + MapBytes(b) : t \in sums}

AllCircuits ==
    UNION {{b
              @@ ("capacity" :> cap @@ "streamed" :> st @@ "has_inputs" :> in
                  @@ "has_public_inputs" :> pi) :
            cap \in Thresholds(b), st \in BOOLEAN, in \in BOOLEAN, pi \in BOOLEAN} :
           b \in {Base(size, arities) : size \in Sizes, arities \in {<<2>>, <<1, 2>>}}}
=============================================================================
