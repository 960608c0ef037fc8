----------------------------- MODULE Challenger -----------------------------
(***************************************************************************)
(* The Fiat-Shamir challenger of the CPU prover and of the verifier        *)
(* (iop/challenger.rs): a duplex sponge in overwrite mode.  Observed       *)
(* elements wait in input_buffer until there are Rate of them or a         *)
(* challenge is asked for; challenges are popped from the end of           *)
(* output_buffer.                                                          *)
(*                                                                         *)
(* Absorb(s, block) is the sponge state s with its first Len(block)        *)
(* elements overwritten, then permuted; Squeeze(s) is its Rate outputs.    *)
(***************************************************************************)
EXTENDS Integers, Sequences

CONSTANTS Element, Sponge, ZeroSponge, Absorb(_, _), Squeeze(_)

Rate == 8      \* H::Permutation::RATE

VARIABLES
  sponge_state, input_buffer, output_buffer,
  challenge     \* the last value get_challenge returned

cvars == <<sponge_state, input_buffer, output_buffer, challenge>>

New ==
  /\ sponge_state = ZeroSponge
  /\ input_buffer = <<>>
  /\ output_buffer = <<>>

ObserveElement(e) ==
  LET inputs == Append(input_buffer, e)
  IN  /\ IF Len(inputs) = Rate
           THEN /\ sponge_state' = Absorb(sponge_state, inputs)
                /\ input_buffer' = <<>>
                /\ output_buffer' = Squeeze(sponge_state')
           ELSE /\ input_buffer' = inputs
                /\ output_buffer' = <<>>
                /\ UNCHANGED sponge_state
      /\ UNCHANGED challenge

GetChallenge ==
  LET duplex  == input_buffer # <<>> \/ output_buffer = <<>>
      state   == IF duplex THEN Absorb(sponge_state, input_buffer) ELSE sponge_state
      outputs == IF duplex THEN Squeeze(state) ELSE output_buffer
  IN  /\ sponge_state' = state
      /\ input_buffer' = <<>>
      /\ challenge' = outputs[Len(outputs)]
      /\ output_buffer' = SubSeq(outputs, 1, Len(outputs) - 1)

Transcribe == GetChallenge \/ \E e \in Element : ObserveElement(e)

Spec == New /\ [][Transcribe]_cvars
=============================================================================
