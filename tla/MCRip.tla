------------------------------- MODULE MCRip --------------------------------
(* One advertised network and a pool of two RipRoute objects: one in the   *)
(* database, one that has left it and is a stray or not yet collected.     *)
(*                                                                         *)
(* Two instances in one: "metrics" has two advertisements, the better      *)
(* metric with the longer mask, and seconds that are counted in time;      *)
(* "late" has one of them, sighted again and again, and a second that      *)
(* begins before the last one is counted, so that two callbacks of one     *)
(* timer are under way at once.                                            *)
EXTENDS Rip

CONSTANTS net1, r1, r2, c1, c2

VARIABLE view   \* never changes

MCNetworks == {net1}
MCTwoRoutes == {r1, r2}
MCCallbacks == {c1, c2}

ViewsInit == RInit /\ view \in {"metrics", "late"}

ViewsNext ==
  /\ RNext /\ UNCHANGED view
  /\ view = "metrics" /\ header' # NoHeader => (header'.metric = 1 <=> header'.mask = 24)
  /\ view = "metrics" => late' = late
  /\ view = "late" /\ header' # NoHeader => header'.metric = 1 /\ header'.mask = 24

ViewsSpec == ViewsInit /\ [][ViewsNext]_<<rvars, view>>
=============================================================================
