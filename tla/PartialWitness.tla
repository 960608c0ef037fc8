--------------------------- MODULE PartialWitness ---------------------------
(***************************************************************************)
(* What witness generation promises, as generate_partial_witness of        *)
(* iop/generator.rs does it on the CPU: the inputs are set, then any       *)
(* generator whose watched targets all have a value may run, and its       *)
(* outputs get theirs.                                                     *)
(***************************************************************************)
EXTENDS Sequences

CONSTANTS Generator, Target

VARIABLES
  circuit,   \* watch_list, output_targets, input_targets
  known      \* targets that have a value in the PartitionWitness

ElemsOf(s) == {s[i] : i \in DOMAIN s}

Start == known = {}

SetInputs ==
  /\ known = {}
  /\ known' = ElemsOf(circuit.input_targets)
  /\ UNCHANGED circuit

RunGenerator(g) ==
  /\ ElemsOf(circuit.watch_list[g]) \subseteq known
  /\ known' = known \cup ElemsOf(circuit.output_targets[g])
  /\ UNCHANGED circuit

Populate == SetInputs \/ \E g \in Generator : RunGenerator(g)

Spec == Start /\ [][Populate]_<<circuit, known>>
=============================================================================
