-------------------------- MODULE DesignatedRouter --------------------------
(***************************************************************************)
(* What the election of a Designated Router promises, whatever threads,    *)
(* timers and locks carry it out: each router on the segment hears of      *)
(* candidates, and an election that is in force is one the candidates it   *)
(* had heard of then call for.  OspfInterface implements this.             *)
(*                                                                         *)
(* The rule is told by its outcome, without the passes and the claims the  *)
(* program makes up for itself in the second one.                          *)
(***************************************************************************)
EXTENDS Naturals

CONSTANTS
  Routers,    \* the interface addresses on the segment
  NoAddress,  \* 0.0.0.0
  RouterID,   \* the router id of each
  Eligible    \* the routers whose Priority is not zero

VARIABLES
  heard,      \* per router: the candidates it has heard, with their claims
  elected     \* per router: the DR and BDR in force, or nobody

dvars == <<heard, elected>>

Address == Routers \cup {NoAddress}
Candidate == [addr : Eligible, dr : Address, bdr : Address]
Nobody == [dr |-> NoAddress, bdr |-> NoAddress]

Addresses(S) == {c.addr : c \in S}
DRs(i) == {c.addr : c \in {d \in heard[i] : d.dr = d.addr}}
BDRs(i) == {c.addr : c \in {d \in heard[i] : d.bdr = d.addr}}

Highest(r, S) == r \in S /\ \A s \in S : RouterID[s] <= RouterID[r]

\* Of those who claim to be backup the highest id, or of all who do not claim to
\* be DR, the router itself among them; of those who claim to be DR the highest
\* id, or the backup.
IsElection(i, o) ==
  /\ Highest(o.bdr, IF BDRs(i) # {} THEN BDRs(i)
                    ELSE (Addresses(heard[i]) \cup {i}) \ DRs(i))
  /\ IF DRs(i) # {} THEN Highest(o.dr, DRs(i)) ELSE o.dr = o.bdr

DInit ==
  /\ heard = [i \in Routers |-> {}]
  /\ elected = [i \in Routers |-> Nobody]

\* A candidate is heard, for good, and counts with the claims it came with.
Hears(i) ==
  /\ \E c \in Candidate :
       /\ c.addr \notin Addresses(heard[i]) \cup {i}
       /\ heard' = [heard EXCEPT ![i] = @ \cup {c}]
  /\ UNCHANGED elected

\* An election gives way only to nobody, which is where the next one begins.
GivesUp(i) ==
  /\ elected[i] # Nobody
  /\ elected' = [elected EXCEPT ![i] = Nobody]
  /\ UNCHANGED heard

Elects(i) ==
  /\ elected[i] = Nobody
  /\ \E o \in [dr : Routers, bdr : Routers] :
       /\ IsElection(i, o)
       /\ elected' = [elected EXCEPT ![i] = o]
  /\ UNCHANGED heard

DNext == \E i \in Routers : Hears(i) \/ GivesUp(i) \/ Elects(i)

DSpec == DInit /\ [][DNext]_dvars
=============================================================================
