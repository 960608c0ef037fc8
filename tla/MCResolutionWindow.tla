--------------------------- MODULE MCResolutionWindow ---------------------------
(***************************************************************************)
(* Small orders for TLC.                                                    *)
(***************************************************************************)
EXTENDS ResolutionWindow

(* Two independent tasks that run together, either of which may panic, and  *)
(* one that needs the first; a chain of two whose last may panic, with a    *)
(* client that may ask for another awaiter after the panic.                 *)
MCOrders ==
    {[needs |-> <<{}, {}, {1}>>, parallelism |-> <<2, 1, 1>>, may_panic |-> {1, 2},
      max_awaits |-> 1],
     [needs |-> <<{}, {1}>>, parallelism |-> <<1, 1>>, may_panic |-> {2},
      max_awaits |-> 2]}
=================================================================================
