--------------------------- MODULE MCWitgenReplay ---------------------------
(***************************************************************************)
(* Circuits of N generators over two types: generator g writes target g    *)
(* and may watch the targets of generators with smaller numbers (a         *)
(* topological order, which the sort is not told).  A source of type 1     *)
(* watches the input target 0, which is listed twice; one of type 2        *)
(* watches nothing, as a constant generator does.  Generator N also writes *)
(* target 1, so that a target has two possible producers and the lists of  *)
(* one batch have different lengths.  In most circuits generators 1, 2, 3  *)
(* form a chain, a critical path for the others to have slack against; in  *)
(* the others 1, 2 and 4, 5 are pairs, and two layers may be enough.       *)
(***************************************************************************)
EXTENDS WitgenReplay

CONSTANT N

MCGenerator == 1 .. N
MCTarget == 0 .. N + 1       \* target N + 1 is a wire nobody writes
MCType == {1, 2}

Edges == {e \in MCGenerator \X MCGenerator : e[1] < e[2]}

SourcesOf(edges, g) == {p \in MCGenerator : <<p, g>> \in edges}

CircuitOf(edges, id) ==
  [ watch_list |->
      [g \in MCGenerator |->
         IF SourcesOf(edges, g) = {} /\ id[g] = 1
           THEN <<0>> ELSE SetToSeq(SourcesOf(edges, g))],
    output_targets |->
      [g \in MCGenerator |-> IF g = N THEN <<1, N>> ELSE <<g>>],
    id |-> id,
    input_targets |-> <<0, 0>> ]

Chain == {<<1, 2>>, <<2, 3>>}
Pairs == {<<1, 2>>, <<4, 5>>}
Across == {<<1, 3>>, <<1, 5>>, <<2, 5>>, <<3, 5>>}

MCCircuits ==
  {CircuitOf(edges, id) :
     edges \in {Chain \cup more : more \in SUBSET (Edges \ Chain)}
               \cup {Pairs \cup more : more \in SUBSET Across},
     id \in {f \in [MCGenerator -> MCType] : f[1] = 1}}
=============================================================================
