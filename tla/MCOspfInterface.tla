-------------------------- MODULE MCOspfInterface ---------------------------
(* Routers on one segment; a has the lowest and c the highest router id. *)
EXTENDS OspfInterface

CONSTANTS a, b, c, zero

MCRouterID == [r \in {a, b, c} |-> CASE r = a -> 1 [] r = b -> 2 [] r = c -> 3]
MCRouterID2 == [r \in {a, b} |-> IF r = a THEN 1 ELSE 2]
=============================================================================
