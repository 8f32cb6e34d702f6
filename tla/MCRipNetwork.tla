---------------------------- MODULE MCRipNetwork ----------------------------
(* Three routers; the first is attached to a network of its own. *)
EXTENDS RipNetwork
CONSTANTS ra, rb, rc, net1
MCRouters == {ra, rb, rc}
MCNetworks == {net1}
MCLocal == [r \in Routers |-> IF r = ra THEN {net1} ELSE {}]
=============================================================================
