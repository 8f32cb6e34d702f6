---------------------------- MODULE OspfElection ----------------------------
(***************************************************************************)
(* The election of the Designated Router and its backup:                   *)
(* CalculateDRAndBDR of NetInterop.Routing.Ospf/Interface.cs, as a         *)
(* function of what the interface knows of the candidates.                 *)
(*                                                                         *)
(* A candidate is a tuple of an interface address and the addresses it     *)
(* claims for DR and BDR.  Routers are named by their interface address.   *)
(***************************************************************************)
EXTENDS Naturals

CONSTANTS
  Routers,        \* the interface addresses on the segment
  NoAddress,      \* 0.0.0.0
  MaxRouterID,    \* the highest router id there can be, 2^32 - 1
  RouterID,       \* the router id of each; it need not be the address
  RidIsAddress    \* the routers whose id is their address

ASSUME ElectionAssumption ==
  /\ NoAddress \notin Routers
  /\ MaxRouterID \in Nat
  /\ RouterID \in [Routers -> 0..MaxRouterID]
  /\ \A i, j \in Routers : RouterID[i] = RouterID[j] => i = j
  /\ RidIsAddress \subseteq Routers

Address == Routers \cup {NoAddress}
Claim == [dr : Address, bdr : Address]
Candidate == [addr : Routers, dr : Address, bdr : Address]

\* Sorting by priority and then again by router id leaves the router id alone to
\* decide: OrderByDescending is stable and router ids are distinct.
First(S) ==
  CHOOSE c \in S : \A d \in S : RouterID[d.addr] <= RouterID[c.addr]

ClaimsDR(S) == {c \in S : c.dr = c.addr}
ClaimsBDR(S) == {c \in S : c.bdr = c.addr}

\* Another rule, RFC 2328's: who claims to be the DR is no candidate for backup.
BackupProper(S) ==
  LET T == S \ ClaimsDR(S)
  IN  IF ClaimsBDR(T) # {} THEN First(ClaimsBDR(T)) ELSE First(T)

\* One pass over the candidates.
Backup(S) ==
  IF ClaimsBDR(S) # {} THEN First(ClaimsBDR(S)) ELSE First(S \ ClaimsDR(S))
Designated(S) ==
  IF ClaimsDR(S) # {} THEN First(ClaimsDR(S)) ELSE Backup(S)

Self(i, claim) == [addr |-> i, dr |-> claim.dr, bdr |-> claim.bdr]

\* Module.RouterID is compared with an interface address.
IsMe(i, c) == i \in RidIsAddress /\ c.addr = i

\* The calculating router has just reset its own claims.  If it won a role it
\* runs the pass again with other claims for itself: the address the backup
\* claims as DR for its DR claim, the one the DR claims as DR for its BDR claim.
FirstPass(i, others) == others \cup {Self(i, [dr |-> NoAddress, bdr |-> NoAddress])}
SecondPass(i, others) ==
  LET S == FirstPass(i, others)
  IN  others \cup {Self(i, [dr |-> Backup(S).dr, bdr |-> Designated(S).dr])}

Electorate(i, others) ==
  LET S == FirstPass(i, others)
  IN  IF IsMe(i, Designated(S)) \/ IsMe(i, Backup(S)) THEN SecondPass(i, others) ELSE S

Elect(i, others) ==
  [dr |-> Designated(Electorate(i, others)).addr, bdr |-> Backup(Electorate(i, others)).addr]

\* The interface state that goes with the outcome o.
Role(i, o) ==
  CASE i \in RidIsAddress /\ o.dr = i                -> "DR"
    [] i \in RidIsAddress /\ o.dr # i /\ o.bdr = i   -> "Backup"
    [] i \notin RidIsAddress \/ (o.dr # i /\ o.bdr # i) -> "DROther"
=============================================================================
