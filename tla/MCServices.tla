----------------------------- MODULE MCServices -----------------------------
(***************************************************************************)
(* Small instances of what runs beside the routing protocols: address      *)
(* resolution, echo requests, the identifications and the fragments of IP  *)
(* datagrams; and the threads of one RIP router that flood.                *)
(*                                                                         *)
(* They share no variable, so the product of their state spaces tells      *)
(* nothing that each does not tell alone: "part" says which one is looked  *)
(* at, the others stay in their initial states.                            *)
(***************************************************************************)
EXTENDS Arp, IcmpEcho, IpIdentifier, IpFragment, RipFlood

VARIABLE part   \* never changes

Parts == {"arp", "echo", "identifier", "fragment", "flood"}

(* The payloads around every length at which another fragment is needed,   *)
(* and around those whose offset does not fit sixteen bits.                *)
Boundary == { k * copyCount : k \in 0 .. 4 } \cup {UShort, 45 * copyCount}
Around == UNION { {n \in (b - 10) .. (b + 30) : n >= 0} : b \in Boundary }

ServicesInit ==
    /\ part \in Parts
    /\ ArpInit /\ IpInit /\ FloodInit
    /\ EchoInit
    /\ part # "echo" => \A r \in Requests : idOf[r] = CHOOSE id \in Ids : TRUE
    /\ FInit
    /\ part # "fragment" => total = UShort

ServicesNext ==
    /\ UNCHANGED part
    /\ \/ part = "arp" /\ ArpNext /\ UNCHANGED <<echoVars, ivars, fvars, floodVars>>
       \/ part = "echo" /\ EchoNext /\ UNCHANGED <<arpVars, ivars, fvars, floodVars>>
       \/ part = "identifier" /\ IpNext /\ UNCHANGED <<arpVars, echoVars, fvars, floodVars>>
       \/ part = "fragment" /\ FNext /\ UNCHANGED <<arpVars, echoVars, ivars, floodVars>>
       \/ part = "flood" /\ FloodNext /\ UNCHANGED <<arpVars, echoVars, ivars, fvars>>

(* Only the update timer takes a step of its own from its initial state;   *)
(* fairness asks nothing else of a part that rests.                        *)
ServicesSpec ==
    /\ ServicesInit /\ [][ServicesNext]_<<part, arpVars, echoVars, ivars, fvars, floodVars>>
    /\ \/ part = "flood" /\ FloodFairness
       \/ part # "flood" /\ ArpFairness /\ EchoFairness /\ IpFairness
-----------------------------------------------------------------------------
(* Every variable of the parts keeps its type; in particular the numbers,  *)
(* the countdowns and the offsets keep the width their fields have, around *)
(* which they wrap (SystemModule.cs:32-37, 163-187,                        *)
(* IPPacketIdentifier.cs:9, 36).                                           *)
ServicesTypeOK == ArpTypeOK /\ EchoTypeOK /\ IpTypeOK /\ FTypeOK /\ FloodTypeOK
=============================================================================
