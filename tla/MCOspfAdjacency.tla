-------------------------- MODULE MCOspfAdjacency ---------------------------
(* Two routers, a with the lower and b with the higher router id or the other *)
(* way round; one option byte each.                                          *)
EXTENDS OspfAdjacency

CONSTANTS a, b, o1

MCNeighbors == {a, b}
MCPeer == [n \in MCNeighbors |-> IF n = a THEN b ELSE a]
MCClaims == {[dr |-> "zero", bdr |-> "zero"]}
MCOwnOptions == [n \in MCNeighbors |-> o1]
=============================================================================
