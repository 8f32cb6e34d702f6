--------------------------- MODULE MCOspfNeighbor ---------------------------
(***************************************************************************)
(* One neighbour object against a free environment; and, line by line, the *)
(* method it takes for one step, with two callbacks of the send timer and  *)
(* the thread that holds the lock.  The two views share no variable:       *)
(* "view" says which one is looked at, the other stays as it is.           *)
(***************************************************************************)
EXTENDS DbdAtOnce

CONSTANTS n1, o1, o2, c1, c2

VARIABLE view   \* never changes

MCNeighbors == {n1}
MCOptions == {o1, o2}
MCClaims == Claims
MCOwnOptions == [n \in MCNeighbors |-> o1]
MCCallbacks == {c1, c2}

(* The method does not look at what the object's initial state leaves open.*)
ViewsInit ==
    /\ view \in {"object", "method"} /\ NInit /\ SenderInit
    /\ view = "method"
          => \A n \in Neighbors : disc[n] = o1 /\ stored[n] = CHOOSE p \in Peers : TRUE

(* A handler that throws ends the process.                                 *)
ViewsNext ==
    /\ UNCHANGED view
    /\ \/ view = "object" /\ NNext /\ UNCHANGED senderVars
       \/ /\ view = "method" /\ UNCHANGED nvars
          /\ SenderNext \/ (failed /\ UNCHANGED senderVars)

ViewsSpec == ViewsInit /\ [][ViewsNext]_<<view, nvars, senderVars>>
=============================================================================
