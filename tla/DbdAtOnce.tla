------------------------------ MODULE DbdAtOnce ------------------------------
(***************************************************************************)
(* The lines of SendDBDReady beside the one step OspfNeighbor takes for    *)
(* them.  DbdSender implements that step as long as no thread moves while  *)
(* another one is in the method.                                           *)
(*                                                                         *)
(* The step happens early: a thread that has found nothing pending, or has *)
(* put what is pending back, has as good as sent the lowest DBD, however   *)
(* many lines it has still to run.                                         *)
(***************************************************************************)
EXTENDS OspfNeighbor, DbdSender

(* What is sent and not acknowledged, seen from outside of the method, and *)
(* what waits behind it.                                                   *)
InHand ==
    IF pendingAck = None /\ queue # {} /\ \E t \in Threads : line[t] \in {"look", "take"}
    THEN {Min(queue)}
    ELSE Held \cup ({pendingAck} \ {None})

(* OspfNeighbor knows a DBD by its number, too.                            *)
Dbds(keys) == {[seq |-> key] : key \in keys}
Unacked == Dbds(InHand)
Waiting == Dbds(queue \ InHand)

AcknowledgesAtOnce == Acknowledge /\ Unacked' = {} /\ UNCHANGED Waiting
FlushesAtOnce == Flush /\ Waiting' = {} /\ UNCHANGED Unacked
AddsAtOnce == Add /\ Waiting' \in Put(Waiting, [seq |-> prepared']) /\ UNCHANGED Unacked
ReadyAtOnce ==
    \E r \in Ready(Waiting, Unacked, due) : Waiting' = r.list /\ Unacked' = r.pend
-----------------------------------------------------------------------------
(* As long as no thread moves while another is in the method, the handlers *)
(* and any number of overdue callbacks do to the queue what OspfNeighbor's *)
(* handlers and its one-step SendDBDReady do, and nothing else             *)
(* (Neighbor.cs:350-386).                                                  *)
SendsAtOnce ==
    [][raced' \/ AcknowledgesAtOnce \/ FlushesAtOnce \/ AddsAtOnce
          \/ ReadyAtOnce]_<<Waiting, Unacked>>
=============================================================================
