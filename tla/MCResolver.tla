------------------------------- MODULE MCResolver -------------------------------
(***************************************************************************)
(* Small clients of the circuit resolver for TLC.                           *)
(***************************************************************************)
EXTENDS ResolverPlayback

CONSTANTS
    AnyOrderPlaces,     \* clients with any inputs whose calls come in any order
    ShuffledPlaces,     \* clients with one input below, calls in any order
    InOrderPlaces,      \* clients that give their places in order
    ChainPlaces         \* clients of resolvers with one input, in order

AtMost(n, S) == {T \in SUBSET S : Cardinality(T) <= n}

AddCalls(n, v, S) == {AddCall(ins, {v}) : ins \in AtMost(n, S)}

(* A value or a resolver with at most k inputs for each place in order.     *)
InOrder[k \in Nat, n \in Nat] ==
    IF n = 0 THEN {<<>>}
    ELSE {Append(p, c) : p \in InOrder[k, n - 1],
                         c \in {SetCall(n - 1)} \union AddCalls(k, n - 1, 0..(n - 2))}

(* Resolvers only, with at most one input: long enough to fill spans.       *)
Chains[n \in Nat] ==
    IF n = 0 THEN {<<>>}
    ELSE {Append(p, c) : p \in Chains[n - 1], c \in AddCalls(1, n - 1, 0..(n - 2))}

(* Every order of the calls of every acyclic choice of them; the resolvers  *)
(* of the last place may also give the one before.                          *)
AnyOrder(n) ==
    LET options(v) == {SetCall(v)} \union AddCalls(2, v, (0..(n - 1)) \ {v})
        single == {f \in [0..(n - 1) -> UNION {options(v) : v \in 0..(n - 1)}] :
                        \A v \in 0..(n - 1) : f[v] \in options(v)}
        sets == {{f[v] : v \in 0..(n - 1)} : f \in single}
        double == {{c \in S : Gives(c) \intersect {n - 1, n - 2} = {}}
                      \union {AddCall(ins, {n - 1, n - 2})} :
                   S \in sets, ins \in AtMost(1, 0..(n - 3))}
    IN {p \in UNION {SetToSeqs(S) : S \in sets \union double} : PlanLegal(p)}

(* Every order of the calls of a client whose inputs are below its outputs. *)
Shuffled(n) == UNION {SetToSeqs(ToSet(p)) : p \in InOrder[1, n]}

MCPlans ==
    AnyOrder(AnyOrderPlaces) \union Shuffled(ShuffledPlaces)
        \union InOrder[2, InOrderPlaces] \union Chains[ChainPlaces]
=================================================================================
