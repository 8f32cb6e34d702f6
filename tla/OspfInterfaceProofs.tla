------------------------ MODULE OspfInterfaceProofs -------------------------
(***************************************************************************)
(* What holds of the election and of the interfaces for any number of      *)
(* routers on the segment, any router ids and priorities, any type of      *)
(* network, and any number of hellos half sent.                            *)
(***************************************************************************)
EXTENDS OspfInterface, WellFoundedInduction, TLAPS

-----------------------------------------------------------------------------
(* The election. *)

\* Candidates have one of the highest router id, as router ids are bounded, and
\* First is one.
LEMMA FirstIsHighest ==
  ASSUME NEW S \in SUBSET Candidate, S # {}
  PROVE  First(S) \in S /\ \A c \in S : RouterID[c.addr] <= RouterID[First(S).addr]
<1> DEFINE below(c) == MaxRouterID - RouterID[c.addr]
           T == {below(c) : c \in S}
<1>1. \A c \in S : RouterID[c.addr] \in 0..MaxRouterID /\ below(c) \in Nat
  BY ElectionAssumption DEF Candidate
<1>2. T \subseteq Nat /\ T # {}
  BY <1>1
<1>3. PICK n \in T : \A m \in T : ~(<<m, n>> \in OpToRel(<, Nat))
  BY <1>2, NatLessThanWellFounded, WFMin
<1>4. \A m \in T : ~(m < n)
  BY <1>2, <1>3 DEF OpToRel
<1>5. PICK c \in S : n = below(c)
  OBVIOUS
<1>6. \A d \in S : RouterID[d.addr] <= RouterID[c.addr]
  <2> TAKE d \in S
  <2>1. ~(below(d) < below(c))
    BY <1>4, <1>5
  <2>2. QED
    BY <1>1, <2>1, ElectionAssumption
<1>7. QED
  BY <1>6 DEF First

\* What the router i makes of the candidates when it claims nothing for itself.
LEMMA PassOutcome ==
  ASSUME NEW i \in Routers, NEW others \in SUBSET Candidate,
         \A c \in others : c.addr # i,
         NEW me \in Candidate, me.addr = i, me.dr # i, me.bdr # i,
         NEW S, S = others \cup {me}
  PROVE  /\ ClaimsDR(S) = ClaimsDR(others) /\ ClaimsBDR(S) = ClaimsBDR(others)
         /\ Backup(S) \in S /\ Designated(S) \in S
         /\ Backup(S) = IF ClaimsBDR(others) # {} THEN First(ClaimsBDR(others))
                        ELSE First(S \ ClaimsDR(others))
         /\ Designated(S) = IF ClaimsDR(others) # {} THEN First(ClaimsDR(others))
                            ELSE Backup(S)
<1>1. ClaimsDR(S) = ClaimsDR(others) /\ ClaimsBDR(S) = ClaimsBDR(others)
  BY DEF ClaimsDR, ClaimsBDR
<1>2. /\ S \ ClaimsDR(others) \in SUBSET Candidate
      /\ me \in S \ ClaimsDR(others)
  BY DEF ClaimsDR
<1>3. /\ ClaimsDR(others) \in SUBSET Candidate /\ ClaimsDR(others) \subseteq S
      /\ ClaimsBDR(others) \in SUBSET Candidate /\ ClaimsBDR(others) \subseteq S
  BY DEF ClaimsDR, ClaimsBDR
<1>4. First(S \ ClaimsDR(others)) \in S
  BY <1>2, FirstIsHighest
<1>5. ClaimsDR(others) # {} => First(ClaimsDR(others)) \in S
  BY <1>3, FirstIsHighest
<1>6. ClaimsBDR(others) # {} => First(ClaimsBDR(others)) \in S
  BY <1>3, FirstIsHighest
<1>7. Backup(S) \in S
  BY <1>1, <1>4, <1>6 DEF Backup
<1>8. Designated(S) \in S
  BY <1>1, <1>5, <1>7 DEF Designated
<1>9. QED
  BY <1>1, <1>7, <1>8 DEF Backup, Designated

\* The second pass is one of the same kind: what it makes the router claim for
\* itself is never the router's own address.
LEMMA SecondPassClaimsNothing ==
  ASSUME NEW i \in Routers, NEW others \in SUBSET Candidate,
         \A c \in others : c.addr # i
  PROVE  \E me \in Candidate :
           /\ me.addr = i /\ me.dr # i /\ me.bdr # i
           /\ Electorate(i, others) = others \cup {me}
<1>1. PICK none \in Candidate :
        /\ none = Self(i, [dr |-> NoAddress, bdr |-> NoAddress])
        /\ none.addr = i /\ none.dr = NoAddress /\ none.bdr = NoAddress
        /\ none.dr # i /\ none.bdr # i
  <2> DEFINE n == [addr |-> i, dr |-> NoAddress, bdr |-> NoAddress]
  <2>1. n \in Candidate /\ NoAddress # i
    BY ElectionAssumption DEF Candidate, Address
  <2>2. n = Self(i, [dr |-> NoAddress, bdr |-> NoAddress])
    BY DEF Self
  <2>3. QED
    BY <2>1, <2>2
<1> DEFINE S == others \cup {none}
           again == Self(i, [dr |-> Backup(S).dr, bdr |-> Designated(S).dr])
<1>2. FirstPass(i, others) = S /\ SecondPass(i, others) = others \cup {again}
  BY <1>1 DEF FirstPass, SecondPass
<1>3. /\ Backup(S) \in S /\ Designated(S) \in S
      /\ Backup(S) = IF ClaimsBDR(others) # {} THEN First(ClaimsBDR(others))
                     ELSE First(S \ ClaimsDR(others))
      /\ Designated(S) = IF ClaimsDR(others) # {} THEN First(ClaimsDR(others))
                         ELSE Backup(S)
  <2>1. PICK T : T = others \cup {none}
    OBVIOUS
  <2>2. none.addr = i /\ none.dr # i /\ none.bdr # i
    BY <1>1
  <2> HIDE DEF S
  <2>3. /\ Backup(T) \in T /\ Designated(T) \in T
        /\ Backup(T) = IF ClaimsBDR(others) # {} THEN First(ClaimsBDR(others))
                       ELSE First(T \ ClaimsDR(others))
        /\ Designated(T) = IF ClaimsDR(others) # {} THEN First(ClaimsDR(others))
                           ELSE Backup(T)
    <3>1. none \in Candidate /\ \A c \in others : c.addr # i
      OBVIOUS
    <3>2. Backup(T) \in T
      BY <3>1, <2>1, <2>2, PassOutcome, Zenon
    <3>3. Designated(T) \in T
      BY <3>1, <2>1, <2>2, PassOutcome, Zenon
    <3>4. Backup(T) = IF ClaimsBDR(others) # {} THEN First(ClaimsBDR(others))
                      ELSE First(T \ ClaimsDR(others))
      <4>1. ClaimsDR(T) = ClaimsDR(others)
        BY <3>1, <2>1, <2>2, PassOutcome, Zenon
      <4>2. ClaimsBDR(T) = ClaimsBDR(others)
        BY <3>1, <2>1, <2>2, PassOutcome, Zenon
      <4>3. QED
        BY <4>1, <4>2 DEF Backup
    <3>5. Designated(T) = IF ClaimsDR(others) # {} THEN First(ClaimsDR(others))
                          ELSE Backup(T)
      <4>1. ClaimsDR(T) = ClaimsDR(others)
        BY <3>1, <2>1, <2>2, PassOutcome, Zenon
      <4>2. QED
        BY <4>1 DEF Designated
    <3>6. QED
      BY <3>2, <3>3, <3>4, <3>5
  <2>4. QED
    BY <2>1, <2>3 DEF S
<1>4. ClaimsDR(others) # {} => First(ClaimsDR(others)) \in ClaimsDR(others)
  <2>1. ClaimsDR(others) \in SUBSET Candidate
    BY DEF ClaimsDR
  <2>2. QED
    BY <2>1, FirstIsHighest
<1>5. CASE IsMe(i, Designated(S)) \/ IsMe(i, Backup(S))
  <2>1. Electorate(i, others) = others \cup {again}
    BY <1>2, <1>5 DEF Electorate
  <2>2. Designated(S).addr = i => Designated(S) = Backup(S)
    BY <1>3, <1>4 DEF ClaimsDR
  <2>3. Backup(S) = none
    BY <1>3, <1>5, <2>2 DEF IsMe
  <2>4. Designated(S) = none \/ (Designated(S) \in others /\ Designated(S).dr = Designated(S).addr)
    BY <1>3, <1>4, <2>3 DEF ClaimsDR
  <2>5. Designated(S).dr # i /\ Designated(S).dr \in Address
    BY <1>1, <2>4, ElectionAssumption DEF Candidate, Address
  <2>6. again \in Candidate /\ again.addr = i /\ again.dr # i /\ again.bdr # i
    BY <1>1, <2>3, <2>5 DEF Self, Candidate
  <2>7. QED
    BY <2>1, <2>6
<1>6. CASE ~(IsMe(i, Designated(S)) \/ IsMe(i, Backup(S)))
  <2>1. Electorate(i, others) = S
    BY <1>2, <1>6 DEF Electorate
  <2>2. QED
    BY <1>1, <2>1
<1>7. QED
  BY <1>5, <1>6

\* The election in one sentence: of those who claim to be backup the highest id,
\* or of all who do not claim to be DR; of those who claim to be DR the highest
\* id, or the backup.
LEMMA ElectionOutcome ==
  ASSUME NEW i \in Routers, NEW others \in SUBSET Candidate,
         \A c \in others : c.addr # i,
         \A c, d \in others : c.addr = d.addr => c = d
  PROVE  LET o == Elect(i, others)
             D == {c.addr : c \in {d \in others : d.dr = d.addr}}
             B == {c.addr : c \in {d \in others : d.bdr = d.addr}}
             R == ({c.addr : c \in others} \cup {i}) \ D
             Highest(r, T) == r \in T /\ \A t \in T : RouterID[t] <= RouterID[r]
         IN  /\ o \in [dr : Routers, bdr : Routers]
             /\ Highest(o.bdr, IF B # {} THEN B ELSE R)
             /\ IF D # {} THEN Highest(o.dr, D) ELSE o.dr = o.bdr
             /\ (\A c \in others : c.dr = c.bdr) => o.dr = o.bdr
<1>1. PICK me \in Candidate :
        /\ me.addr = i /\ me.dr # i /\ me.bdr # i
        /\ Electorate(i, others) = others \cup {me}
  BY SecondPassClaimsNothing
<1> DEFINE o == Elect(i, others)
           S == others \cup {me}
           D == {c.addr : c \in {d \in others : d.dr = d.addr}}
           B == {c.addr : c \in {d \in others : d.bdr = d.addr}}
           R == ({c.addr : c \in others} \cup {i}) \ D
           Highest(r, T) == r \in T /\ \A t \in T : RouterID[t] <= RouterID[r]
<1>2. o = [dr |-> Designated(S).addr, bdr |-> Backup(S).addr]
  BY <1>1 DEF Elect
<1>3. /\ Backup(S) \in S /\ Designated(S) \in S
      /\ Backup(S) = IF ClaimsBDR(others) # {} THEN First(ClaimsBDR(others))
                     ELSE First(S \ ClaimsDR(others))
      /\ Designated(S) = IF ClaimsDR(others) # {} THEN First(ClaimsDR(others))
                         ELSE Backup(S)
  <2> HIDE DEF S
  <2>1. S = others \cup {me}
    BY DEF S
  <2>2. QED
    BY <1>1, <2>1, PassOutcome
<1>4. o \in [dr : Routers, bdr : Routers]
  BY <1>2, <1>3 DEF Candidate
<1>5. /\ D = {c.addr : c \in ClaimsDR(others)} /\ ClaimsDR(others) \in SUBSET Candidate
      /\ B = {c.addr : c \in ClaimsBDR(others)} /\ ClaimsBDR(others) \in SUBSET Candidate
  BY DEF ClaimsDR, ClaimsBDR
<1>6. IF D # {} THEN Highest(o.dr, D) ELSE o.dr = o.bdr
  <2>1. CASE ClaimsDR(others) # {}
    <3>1. D # {} /\ o.dr = First(ClaimsDR(others)).addr
      BY <1>2, <1>3, <1>5, <2>1
    <3>2. Highest(First(ClaimsDR(others)).addr, D)
      BY <1>5, <2>1, FirstIsHighest
    <3>3. QED
      BY <3>1, <3>2
  <2>2. CASE ClaimsDR(others) = {}
    <3>1. D = {} /\ Designated(S) = Backup(S)
      BY <1>3, <1>5, <2>2
    <3>2. QED
      BY <1>2, <3>1
  <2>3. QED
    BY <2>1, <2>2
<1>7. Highest(o.bdr, IF B # {} THEN B ELSE R)
  <2>1. CASE ClaimsBDR(others) # {}
    <3>1. B # {} /\ o.bdr = First(ClaimsBDR(others)).addr
      BY <1>2, <1>3, <1>5, <2>1
    <3>2. Highest(First(ClaimsBDR(others)).addr, B)
      BY <1>5, <2>1, FirstIsHighest
    <3>3. QED
      BY <3>1, <3>2
  <2>2. CASE ClaimsBDR(others) = {}
    <3> DEFINE U == S \ ClaimsDR(others)
    <3>1. U \in SUBSET Candidate /\ me \in U
      BY <1>1 DEF ClaimsDR
    <3>2. First(U) \in U /\ \A c \in U : RouterID[c.addr] <= RouterID[First(U).addr]
      BY <3>1, FirstIsHighest
    <3>3. B = {} /\ o.bdr = First(U).addr
      BY <1>2, <1>3, <1>5, <2>2
    <3>4. \A r \in R : \E c \in U : c.addr = r
      BY <1>1 DEF ClaimsDR
    <3>5. First(U).addr \in {c.addr : c \in others} \cup {i}
      BY <1>1, <3>2
    <3>6. First(U).addr \notin D
      <4>1. SUFFICES ASSUME NEW d \in ClaimsDR(others), d.addr = First(U).addr PROVE FALSE
        BY <1>5
      <4>2. d \in others /\ d.addr # i
        BY DEF ClaimsDR
      <4>3. First(U) \in others
        BY <1>1, <3>2, <4>1, <4>2
      <4>4. QED
        BY <3>2, <4>1, <4>2, <4>3
    <3>7. Highest(First(U).addr, R)
      BY <3>2, <3>4, <3>5, <3>6
    <3>8. QED
      BY <3>3, <3>7
  <2>3. QED
    BY <2>1, <2>2
<1>8. (\A c \in others : c.dr = c.bdr) => o.dr = o.bdr
  <2>1. (\A c \in others : c.dr = c.bdr) => ClaimsDR(others) = ClaimsBDR(others)
    BY DEF ClaimsDR, ClaimsBDR
  <2>2. QED
    BY <1>2, <1>3, <2>1
<1>9. QED
  BY <1>4, <1>6, <1>7, <1>8

\* The two that are elected are candidates or the router itself, and one and the
\* same when all claims pair up.
LEMMA ElectedIsCandidate ==
  ASSUME NEW i \in Routers, NEW others \in SUBSET Candidate,
         \A c \in others : c.addr # i,
         \A c, d \in others : c.addr = d.addr => c = d,
         NEW o, o = Elect(i, others)
  PROVE  /\ o \in [dr : Routers, bdr : Routers]
         /\ o.bdr \in {c.addr : c \in others} \cup {i}
         /\ o.dr \in {c.addr : c \in others} \cup {i}
         /\ (\A c \in others : c.dr = c.bdr) => o.dr = o.bdr
<1> DEFINE D == {c.addr : c \in {d \in others : d.dr = d.addr}}
           B == {c.addr : c \in {d \in others : d.bdr = d.addr}}
           R == ({c.addr : c \in others} \cup {i}) \ D
<1>1. /\ o \in [dr : Routers, bdr : Routers]
      /\ o.bdr \in IF B # {} THEN B ELSE R
      /\ IF D # {} THEN o.dr \in D ELSE o.dr = o.bdr
      /\ (\A c \in others : c.dr = c.bdr) => o.dr = o.bdr
  BY ElectionOutcome
<1>2. QED
  BY <1>1

-----------------------------------------------------------------------------
(* The invariant. *)

Electable(i) == {NoAddress, i} \cup {x \in Eligible : Bidirectional(i, x)}

\* No router is its own neighbour or hears itself, and a packet thread has one
\* hello at a time.
Hearing ==
  \A i \in Routers :
    /\ nbr[i][i] = "Absent"
    /\ \A h \in hello[i] : h.from # i /\ \A g \in hello[i] : g = h

Heard ==
  \A i \in Routers : {dr[i], bdr[i], toStore[i]} \subseteq Electable(i)

\* What each phase of the calculation leaves in the fields it has to do with.
Undecided(i) == ifState[i] \in {"Down", "Waiting", "PointToPoint"}
Phase(i) ==
  /\ Undecided(i) => dr[i] = NoAddress /\ bdr[i] = NoAddress /\ decision[i] # "Stored"
  /\ decision[i] = "Reset" => dr[i] = NoAddress
  /\ decision[i] = "Stored" =>
       /\ dr[i] # NoAddress
       /\ i \in RidIsAddress => ifState[i] = Role(i, [dr |-> dr[i], bdr |-> toStore[i]])
  /\ decision[i] = "Free" =>
       IF dr[i] = NoAddress THEN bdr[i] = NoAddress
       ELSE i \in RidIsAddress => ifState[i] = Role(i, [dr |-> dr[i], bdr |-> bdr[i]])
Phased == \A i \in Routers : Phase(i)

\* A calculation that no hello waits for was begun by the wait timer.
LateWait ==
  \A i \in Routers :
    /\ waitOver[i] => waitTimer[i] = "Stopped"
    /\ decision[i] # "Free" /\ (\A h \in hello[i] : h.at # "Deciding")
         => waitTimer[i] = "Stopped"
    /\ decision[i] = "Free" /\ dr[i] = NoAddress /\ ifState[i] \in {"DR", "Backup"}
         => waitTimer[i] = "Stopped"

\* Claims that pair up elect one router for both roles.
Pair(i) ==
  (\A j \in Routers : claim[i][j].dr = claim[i][j].bdr) =>
    /\ decision[i] = "Free" => dr[i] = bdr[i]
    /\ decision[i] = "Stored" => dr[i] = toStore[i]
    /\ i \in RidIsAddress => ifState[i] # "Backup"
Paired ==
  /\ \A i, j \in Routers : nbr[i][j] = "Absent" => claim[i][j] = NoClaim
  /\ \A i \in Routers : Pair(i)

Kinds ==
  \A i \in Routers :
    /\ ifState[i] = "PointToPoint" => ~Broadcast
    /\ waitTimer[i] # "None" => Broadcast

IInv == ITypeOK /\ Hearing /\ Heard /\ Phased /\ LateWait /\ Paired /\ Kinds

-----------------------------------------------------------------------------
(* The candidates and what is made of them. *)

LEMMA OthersType ==
  ASSUME ITypeOK, Hearing, NEW i \in Routers
  PROVE  /\ Others(i) \in SUBSET Candidate
         /\ \A c \in Others(i) : c.addr # i /\ c.addr \in Eligible /\ Bidirectional(i, c.addr)
         /\ \A c, d \in Others(i) : c.addr = d.addr => c = d
         /\ \A c \in Others(i) : c.dr = claim[i][c.addr].dr /\ c.bdr = claim[i][c.addr].bdr
<1>1. \A j \in Eligible : claim[i][j].dr \in Address /\ claim[i][j].bdr \in Address
  BY InterfaceAssumption DEF ITypeOK, Claim
<1>2. ~Bidirectional(i, i)
  BY DEF Hearing, Bidirectional
<1>3. QED
  BY <1>1, <1>2, InterfaceAssumption DEF Others, Candidate

LEMMA ElectedAmongOthers ==
  ASSUME ITypeOK, Hearing, NEW i \in Routers, NEW o, o = Elect(i, Others(i))
  PROVE  /\ o \in [dr : Routers, bdr : Routers]
         /\ o.dr \in Electable(i) \ {NoAddress} /\ o.bdr \in Electable(i) \ {NoAddress}
         /\ (\A j \in Routers : claim[i][j].dr = claim[i][j].bdr) => o.dr = o.bdr
<1> DEFINE S == Others(i)
<1>1. /\ S \in SUBSET Candidate
      /\ \A c \in S : c.addr # i
      /\ \A c, d \in S : c.addr = d.addr => c = d
      /\ \A c \in S : c.addr \in Electable(i)
      /\ (\A j \in Routers : claim[i][j].dr = claim[i][j].bdr) => \A c \in S : c.dr = c.bdr
  BY OthersType, InterfaceAssumption DEF Electable
<1> HIDE DEF S
<1>2. /\ o \in [dr : Routers, bdr : Routers]
      /\ o.bdr \in {c.addr : c \in S} \cup {i}
      /\ o.dr \in {c.addr : c \in S} \cup {i}
      /\ (\A c \in S : c.dr = c.bdr) => o.dr = o.bdr
  <2>1. o = Elect(i, S)
    BY DEF S
  <2>2. QED
    BY <1>1, <2>1, ElectedIsCandidate
<1>3. \A c \in S : c.addr # NoAddress
  BY <1>1, ElectionAssumption DEF Candidate
<1>4. i \in Electable(i) /\ i # NoAddress
  BY ElectionAssumption DEF Electable
<1>5. QED
  BY <1>1, <1>2, <1>3, <1>4

-----------------------------------------------------------------------------
(* Types. *)

LEMMA ResetType ==
  ASSUME ITypeOK, NEW i \in Routers, Reset(i)
  PROVE  /\ decision' \in [Routers -> {"Free", "Reset", "Stored"}]
         /\ dr' \in [Routers -> Address] /\ bdr' = bdr /\ toStore' = toStore
BY DEF Reset, ITypeOK, Address

LEMMA StageType ==
  ASSUME NEW h \in Hello, NEW stage \in {"Known", "Deciding", "Neighbor"}
  PROVE  [h EXCEPT !.at = stage] \in Hello
BY DEF Hello

LEMMA MovesToType ==
  ASSUME ITypeOK, NEW i \in Routers, NEW stage \in {"Known", "Deciding", "Neighbor"},
         MovesTo(i, stage)
  PROVE  hello' \in [Routers -> SUBSET Hello]
<1>1. \A h \in hello[i] : [h EXCEPT !.at = stage] \in Hello
  BY StageType DEF ITypeOK
<1>2. QED
  BY <1>1 DEF MovesTo, ITypeOK

LEMMA TwoWayType ==
  ASSUME ITypeOK, NEW i \in Routers, NEW j \in Routers, NEW c, TwoWayReceived(i, j, c)
  PROVE  nbr' \in [Routers -> [Routers -> Progress]]
BY DEF TwoWayReceived, ITypeOK, Progress

LEMMA DeliveryType ==
  ASSUME ITypeOK, NEW i \in Routers, NEW T \in SUBSET Routers, HelloDelivered(i, T)
  PROVE  ITypeOK'
<1>1. PICK d \in half[i] :
        /\ Creates(T, i, [dr |-> d, bdr |-> bdr[i]])
        /\ hello' = [j \in Routers |->
             IF j \in T
               THEN {[from |-> i, dr |-> d, bdr |-> bdr[i], listed |-> Lists(i, j), at |-> "Known"]}
               ELSE hello[j]]
  BY DEF HelloDelivered
<1>2. PICK U : Interrupts(U)
  BY DEF HelloDelivered
<1>3. d \in Address /\ bdr[i] \in Address
  BY DEF ITypeOK
<1>4. nbr' \in [Routers -> [Routers -> Progress]]
  BY <1>1 DEF Creates, ITypeOK, Progress
<1>5. claim' \in [Routers -> [Routers -> Claim]]
  BY <1>1, <1>3 DEF Creates, ITypeOK, Claim
<1>6. hello' \in [Routers -> SUBSET Hello]
  <2>1. \A j \in Routers : Lists(i, j) \in BOOLEAN
    BY DEF Lists
  <2>2. \A j \in Routers :
          [from |-> i, dr |-> d, bdr |-> bdr[i], listed |-> Lists(i, j), at |-> "Known"] \in Hello
    BY <1>3, <2>1 DEF Hello
  <2>3. QED
    BY <1>1, <2>2 DEF ITypeOK
<1>7. /\ decision' \in [Routers -> {"Free", "Reset", "Stored"}] /\ bdr' \in [Routers -> Address]
      /\ dr' = dr /\ toStore' = toStore
  BY <1>2 DEF Interrupts, ITypeOK, Address
<1>8. /\ l3up' = l3up /\ ifState' = ifState /\ waitTimer' = waitTimer /\ waitOver' = waitOver
      /\ half' \in [Routers -> SUBSET Address]
  BY DEF HelloDelivered, timerVars, ITypeOK
<1>9. QED
  BY <1>4, <1>5, <1>6, <1>7, <1>8 DEF ITypeOK

\* Only an interface that is Down has a row for InterfaceUp.
LEMMA UpFromDown ==
  ASSUME ITypeOK, NEW i \in Routers, HasRow(i, "InterfaceUp")
  PROVE  ifState[i] = "Down"
BY DEF HasRow, Registered, IfTable, AddAction, AddDefault, AddAnyNext, AddActionNext, Rows

LEMMA TypeStep ==
  ASSUME ITypeOK, Hearing, [INext]_ivars
  PROVE  ITypeOK'
<1>1. CASE UNCHANGED ivars
  BY <1>1 DEF ITypeOK, ivars, electVars, timerVars, nbrVars
<1>2. ASSUME NEW i \in Routers, IStep(i) PROVE ITypeOK'
  <2> USE DEF electVars, timerVars, nbrVars
  <2>1. CASE InterfaceUp(i)
    BY <2>1, InterfaceAssumption DEF InterfaceUp, ITypeOK, IfStates
  <2>2. CASE WaitTimerStarts(i)
    BY <2>2 DEF WaitTimerStarts, ITypeOK
  <2>3. CASE LinkLost(i) \/ LinkBack(i)
    BY <2>3 DEF LinkLost, LinkBack, ITypeOK
  <2>4. CASE WaitElapses(i)
    BY <2>4 DEF WaitElapses, ITypeOK
  <2>5. CASE WaitDecides(i)
    <3>1. waitOver' \in [Routers -> BOOLEAN]
      BY <2>5 DEF WaitDecides, ITypeOK
    <3>2. QED
      BY <2>5, <3>1, ResetType DEF WaitDecides, ITypeOK
  <2>6. CASE Calculate(i)
    <3>1. PICK o : /\ o = Elect(i, Others(i))
                   /\ ifState' = [ifState EXCEPT ![i] = Role(i, o)]
                   /\ dr' = [dr EXCEPT ![i] = o.dr]
                   /\ toStore' = [toStore EXCEPT ![i] = o.bdr]
      BY <2>6 DEF Calculate
    <3>2. o.dr \in Address /\ o.bdr \in Address /\ NoAddress \in Address
      BY <3>1, ElectedAmongOthers DEF Address
    <3>3. Role(i, o) \in IfStates
      BY DEF Role, IfStates
    <3>4. QED
      BY <2>6, <3>1, <3>2, <3>3 DEF Calculate, ITypeOK
  <2>7. CASE StoreBDR(i)
    <3>1. \A h \in hello[i] : [h EXCEPT !.at = "Neighbor"] \in Hello /\ h \in Hello
      BY StageType DEF ITypeOK
    <3>2. hello' \in [Routers -> SUBSET Hello]
      BY <2>7, <3>1 DEF StoreBDR, ITypeOK
    <3>3. QED
      BY <2>7, <3>2 DEF StoreBDR, ITypeOK, Address
  <2>8. CASE BackupSeen(i)
    <3>1. hello' \in [Routers -> SUBSET Hello]
      BY <2>8, MovesToType DEF BackupSeen
    <3>2. QED
      BY <2>8, <3>1, ResetType DEF BackupSeen, ITypeOK
  <2>9. CASE NeighborChange(i)
    <3>1. hello' \in [Routers -> SUBSET Hello]
      BY <2>9, MovesToType DEF NeighborChange
    <3>2. QED
      BY <2>9, <3>1, ResetType DEF NeighborChange, ITypeOK
  <2>10. CASE HelloThrows(i)
    BY <2>10 DEF HelloThrows, ITypeOK
  <2>11. CASE NothingToDecide(i)
    <3>1. hello' \in [Routers -> SUBSET Hello]
      BY <2>11, MovesToType DEF NothingToDecide
    <3>2. QED
      BY <2>11, <3>1 DEF NothingToDecide, ITypeOK
  <2>12. CASE NeighborHears(i)
    <3>1. nbr' \in [Routers -> [Routers -> Progress]]
      <4>1. PICK h \in hello[i] :
              IF h.listed /\ ~Bidirectional(i, h.from)
              THEN TwoWayReceived(i, h.from, [dr |-> h.dr, bdr |-> h.bdr])
              ELSE UNCHANGED nbr
        BY <2>12 DEF NeighborHears
      <4>2. h.from \in Routers
        BY DEF ITypeOK, Hello
      <4>3. QED
        BY <4>1, <4>2, TwoWayType DEF ITypeOK
    <3>2. QED
      BY <2>12, <3>1 DEF NeighborHears, ITypeOK
  <2>13. CASE HelloElapses(i)
    BY <2>13 DEF HelloElapses, ITypeOK
  <2>14. ASSUME NEW T \in SUBSET Routers, HelloDelivered(i, T) PROVE ITypeOK'
    BY <2>14, DeliveryType
  <2>15. ASSUME NEW j \in Routers \ {i}, DBDReceived(i, j) PROVE ITypeOK'
    <3>1. nbr' \in [Routers -> [Routers -> Progress]]
      BY <2>15, TwoWayType DEF DBDReceived
    <3>2. QED
      BY <2>15, <3>1 DEF DBDReceived, ITypeOK
  <2>16. QED
    BY <1>2, <2>1, <2>2, <2>3, <2>4, <2>5, <2>6, <2>7, <2>8, <2>9, <2>10, <2>11, <2>12, <2>13,
       <2>14, <2>15 DEF IStep, Decides, HandlesHello
<1>3. QED
  BY <1>1, <1>2 DEF INext

-----------------------------------------------------------------------------
(* Hearing. *)

LEMMA StageMoves ==
  ASSUME Hearing, NEW i \in Routers, nbr' = nbr,
         \A k \in Routers : k # i => hello'[k] = hello[k],
         \A f, g \in hello'[i] : f = g,
         \A g \in hello'[i] : g.from # i
  PROVE  Hearing'
<1>1. \A k \in Routers : nbr'[k][k] = "Absent"
  BY DEF Hearing
<1>2. ASSUME NEW k \in Routers, NEW h \in hello'[k]
      PROVE  h.from # k /\ \A g \in hello'[k] : g = h
  BY <1>2 DEF Hearing
<1>3. QED
  BY <1>1, <1>2 DEF Hearing

LEMMA HearingStep ==
  ASSUME ITypeOK, Hearing, [INext]_ivars
  PROVE  Hearing'
<1> USE DEF Hearing, electVars, timerVars, nbrVars
<1>1. CASE UNCHANGED ivars
  BY <1>1 DEF ivars
<1>2. ASSUME NEW i \in Routers, IStep(i) PROVE Hearing'
  <2> DEFINE Same == UNCHANGED <<nbr, hello>>
  <2>1. CASE InterfaceUp(i) \/ WaitTimerStarts(i) \/ LinkLost(i) \/ LinkBack(i) \/ WaitElapses(i)
             \/ WaitDecides(i) \/ Calculate(i) \/ HelloElapses(i)
    <3>1. Same
      BY <2>1 DEF InterfaceUp, WaitTimerStarts, LinkLost, LinkBack, WaitElapses, WaitDecides,
                  Calculate, HelloElapses
    <3>2. QED
      BY <3>1
  <2>2. CASE StoreBDR(i)
    <3>1. \A h \in hello[i] : h \in Hello
      BY DEF ITypeOK
    <3>2. \A h \in hello[i] : [h EXCEPT !.at = "Neighbor"].from = h.from
      BY <3>1 DEF Hello
    <3>3. nbr' = nbr
          /\ hello' = [hello EXCEPT ![i] =
                         {IF h.at = "Deciding" THEN [h EXCEPT !.at = "Neighbor"] ELSE h : h \in @}]
      BY <2>2 DEF StoreBDR
    <3>4. \A k \in Routers : k # i => hello'[k] = hello[k]
      BY <3>3 DEF ITypeOK
    <3>5. \A g \in hello'[i] : \E h \in hello[i] :
            g = IF h.at = "Deciding" THEN [h EXCEPT !.at = "Neighbor"] ELSE h
      BY <3>3 DEF ITypeOK
    <3>6. \A f, g \in hello'[i] : f = g
      BY <3>5
    <3>7. \A g \in hello'[i] : g.from # i
      <4> TAKE g \in hello'[i]
      <4>1. PICK h \in hello[i] : g = IF h.at = "Deciding" THEN [h EXCEPT !.at = "Neighbor"] ELSE h
        BY <3>5
      <4>2. g.from = h.from
        BY <4>1, <3>2
      <4>3. h.from # i
        OBVIOUS
      <4>4. QED
        BY <4>2, <4>3
    <3> HIDE DEF Hearing
    <3>8. QED
      BY <3>2, <3>3, <3>4, <3>6, <3>7, StageMoves
  <2>3. CASE BackupSeen(i) \/ NeighborChange(i) \/ NothingToDecide(i)
    <3>1. \A h \in hello[i] : h \in Hello
      BY DEF ITypeOK
    <3>2. PICK stage : nbr' = nbr /\ MovesTo(i, stage)
      BY <2>3 DEF BackupSeen, NeighborChange, NothingToDecide
    <3>3. \A h \in hello[i] : [h EXCEPT !.at = stage].from = h.from
      BY <3>1 DEF Hello
    <3>4. \A k \in Routers : k # i => hello'[k] = hello[k]
      BY <3>2 DEF MovesTo, ITypeOK
    <3>5. \A g \in hello'[i] : \E h \in hello[i] : g = [h EXCEPT !.at = stage]
      BY <3>2 DEF MovesTo, ITypeOK
    <3>6. \A f, g \in hello'[i] : f = g
      BY <3>5
    <3>7. \A g \in hello'[i] : g.from # i
      <4> TAKE g \in hello'[i]
      <4>1. PICK h \in hello[i] : g = [h EXCEPT !.at = stage]
        BY <3>5
      <4>2. g.from = h.from
        BY <4>1, <3>3
      <4>3. h.from # i
        OBVIOUS
      <4>4. QED
        BY <4>2, <4>3
    <3> HIDE DEF Hearing
    <3>8. QED
      BY <3>2, <3>3, <3>4, <3>6, <3>7, StageMoves
  <2>4. CASE HelloThrows(i)
    BY <2>4 DEF HelloThrows, ITypeOK
  <2>5. CASE NeighborHears(i)
    <3>1. PICK h \in hello[i] :
            /\ nbr' = nbr \/ TwoWayReceived(i, h.from, [dr |-> h.dr, bdr |-> h.bdr])
            /\ hello' = [hello EXCEPT ![i] = {}]
      BY <2>5 DEF NeighborHears
    <3>2. h.from \in Routers /\ h.from # i
      BY DEF ITypeOK, Hello
    <3>3. QED
      BY <3>1, <3>2 DEF TwoWayReceived, ITypeOK
  <2>6. ASSUME NEW T \in SUBSET Routers, HelloDelivered(i, T) PROVE Hearing'
    <3>1. PICK d : /\ Creates(T, i, [dr |-> d, bdr |-> bdr[i]])
                   /\ hello' = [j \in Routers |->
                        IF j \in T
                          THEN {[from |-> i, dr |-> d, bdr |-> bdr[i],
                                 listed |-> Lists(i, j), at |-> "Known"]}
                          ELSE hello[j]]
      BY <2>6 DEF HelloDelivered
    <3>2. i \notin T
      BY <2>6 DEF HelloDelivered
    <3>3. \A j \in Routers : nbr'[j][j] = nbr[j][j]
      BY <3>1, <3>2 DEF Creates, NewTo, ITypeOK
    <3>4. QED
      BY <3>1, <3>2, <3>3
  <2>7. ASSUME NEW j \in Routers \ {i}, DBDReceived(i, j) PROVE Hearing'
    BY <2>7 DEF DBDReceived, TwoWayReceived, ITypeOK
  <2>8. QED
    BY <1>2, <2>1, <2>2, <2>3, <2>4, <2>5, <2>6, <2>7 DEF IStep, Decides, HandlesHello
<1>3. QED
  BY <1>1, <1>2 DEF INext

\* What an interface has heard stays heard, with the claims it came with.
LEMMA HearingGrows ==
  ASSUME ITypeOK, [INext]_ivars, NEW k \in Routers, NEW j \in Routers
  PROVE  /\ nbr[k][j] # "Absent" => claim'[k][j] = claim[k][j] /\ nbr'[k][j] # "Absent"
         /\ Bidirectional(k, j) => nbr'[k][j] = nbr[k][j]
         /\ nbr'[k][j] = "Absent" => claim'[k][j] = claim[k][j]
<1> USE DEF electVars, timerVars, nbrVars, Bidirectional
<1>1. CASE UNCHANGED ivars
  BY <1>1 DEF ivars
<1>2. ASSUME NEW i \in Routers, IStep(i)
      PROVE  /\ nbr[k][j] # "Absent" => claim'[k][j] = claim[k][j] /\ nbr'[k][j] # "Absent"
             /\ Bidirectional(k, j) => nbr'[k][j] = nbr[k][j]
             /\ nbr'[k][j] = "Absent" => claim'[k][j] = claim[k][j]
  <2>1. CASE UNCHANGED nbrVars
    BY <2>1
  <2>2. CASE NeighborHears(i)
    <3>1. PICK h \in hello[i] :
            /\ IF h.listed /\ ~Bidirectional(i, h.from)
                 THEN TwoWayReceived(i, h.from, [dr |-> h.dr, bdr |-> h.bdr])
                 ELSE UNCHANGED nbr
            /\ claim' = claim
      BY <2>2 DEF NeighborHears
    <3>2. h.from \in Routers
      BY DEF ITypeOK, Hello
    <3>3. CASE UNCHANGED nbr
      BY <3>1, <3>3
    <3>4. CASE ~Bidirectional(i, h.from)
               /\ TwoWayReceived(i, h.from, [dr |-> h.dr, bdr |-> h.bdr])
      <4>1. PICK p \in {"ExStart", "TwoWay"} : nbr' = [nbr EXCEPT ![i][h.from] = p]
        BY <3>4 DEF TwoWayReceived
      <4>2. QED
        BY <3>1, <3>2, <3>4, <4>1 DEF ITypeOK
    <3>5. QED
      BY <3>1, <3>3, <3>4
  <2>3. ASSUME NEW T \in SUBSET Routers, HelloDelivered(i, T)
        PROVE  /\ nbr[k][j] # "Absent" => claim'[k][j] = claim[k][j] /\ nbr'[k][j] # "Absent"
               /\ Bidirectional(k, j) => nbr'[k][j] = nbr[k][j]
               /\ nbr'[k][j] = "Absent" => claim'[k][j] = claim[k][j]
    <3>1. PICK c : Creates(T, i, c)
      BY <2>3 DEF HelloDelivered
    <3>2. QED
      BY <3>1 DEF Creates, NewTo, ITypeOK
  <2>4. ASSUME NEW l \in Routers \ {i}, DBDReceived(i, l)
        PROVE  /\ nbr[k][j] # "Absent" => claim'[k][j] = claim[k][j] /\ nbr'[k][j] # "Absent"
               /\ Bidirectional(k, j) => nbr'[k][j] = nbr[k][j]
               /\ nbr'[k][j] = "Absent" => claim'[k][j] = claim[k][j]
    BY <2>4 DEF DBDReceived, TwoWayReceived, ITypeOK
  <2>5. QED
    BY <1>2, <2>1, <2>2, <2>3, <2>4
       DEF IStep, Decides, HandlesHello, InterfaceUp, WaitTimerStarts, LinkLost, LinkBack,
           WaitElapses, WaitDecides, Calculate, StoreBDR, HelloElapses, BackupSeen,
           NeighborChange, HelloThrows, NothingToDecide
<1>3. QED
  BY <1>1, <1>2 DEF INext

-----------------------------------------------------------------------------
(* What a step does to the election of one router k, whoever takes it. *)

Deciding(k) == \E h \in hello[k] : h.at = "Deciding"

KeepsElection(k) ==
  /\ dr'[k] = dr[k] /\ bdr'[k] = bdr[k] /\ decision'[k] = decision[k] /\ toStore'[k] = toStore[k]
KeepsDeciding(k) == decision[k] # "Free" /\ Deciding(k) => Deciding(k)'
KeepsWait(k) ==
  /\ waitTimer[k] = "Stopped" => waitTimer'[k] = "Stopped"
  /\ waitOver'[k] => waitOver[k] \/ waitTimer'[k] = "Stopped"

Stays(k) ==
  /\ KeepsElection(k) /\ KeepsDeciding(k) /\ KeepsWait(k)
  /\ \/ ifState'[k] = ifState[k]
     \/ ifState[k] = "Down" /\ ifState'[k] \in {"PointToPoint", "Waiting", "DROther"}

Resets(k) ==
  /\ decision[k] = "Free" /\ decision'[k] = "Reset" /\ dr'[k] = NoAddress
  /\ bdr'[k] = bdr[k] /\ toStore'[k] = toStore[k] /\ ifState'[k] = ifState[k]
  /\ KeepsWait(k)
  /\ Deciding(k)' \/ (waitOver[k] /\ waitTimer'[k] = waitTimer[k])

Calculates(k) ==
  /\ decision[k] = "Reset" /\ decision'[k] = "Stored" /\ bdr'[k] = NoAddress
  /\ \E o : /\ o = Elect(k, Others(k))
            /\ ifState'[k] = Role(k, o) /\ dr'[k] = o.dr /\ toStore'[k] = o.bdr
  /\ UNCHANGED <<nbr, claim, waitTimer, waitOver, hello>>

Stores(k) ==
  /\ decision[k] = "Stored" /\ decision'[k] = "Free"
  /\ bdr'[k] = toStore[k] /\ toStore'[k] = NoAddress
  /\ dr'[k] = dr[k] /\ ifState'[k] = ifState[k]
  /\ UNCHANGED <<nbr, claim, waitTimer, waitOver>>

\* No hello waits for a calculation that is interrupted: one arrives.
Interrupted(k) ==
  /\ decision[k] = "Reset" /\ decision'[k] = "Free" /\ bdr'[k] = NoAddress
  /\ dr'[k] = dr[k] /\ toStore'[k] = toStore[k] /\ ifState'[k] = ifState[k]
  /\ ~Deciding(k)
  /\ waitTimer' = waitTimer /\ waitOver' = waitOver

ElectionStep(k) ==
  Stays(k) \/ Resets(k) \/ Calculates(k) \/ Stores(k) \/ Interrupted(k)

LEMMA ResetStep ==
  ASSUME ITypeOK, NEW i \in Routers, Reset(i), ifState' = ifState, KeepsWait(i),
         Deciding(i)' \/ (waitOver[i] /\ waitTimer'[i] = waitTimer[i]),
         NEW k \in Routers, k # i => KeepsWait(k) /\ KeepsDeciding(k)
  PROVE  ElectionStep(k)
<1>1. CASE k = i
  BY <1>1 DEF ElectionStep, Resets, Reset, ITypeOK
<1>2. CASE k # i
  BY <1>2 DEF ElectionStep, Stays, KeepsElection, Reset, ITypeOK
<1>3. QED
  BY <1>1, <1>2

LEMMA MovesToDeciding ==
  ASSUME ITypeOK, NEW i \in Routers, hello[i] # {}, MovesTo(i, "Deciding")
  PROVE  Deciding(i)' /\ \A k \in Routers : k # i => hello'[k] = hello[k]
<1>1. PICK h \in hello[i] : h \in Hello
  BY DEF ITypeOK
<1>2. hello' = [hello EXCEPT ![i] = {[g EXCEPT !.at = "Deciding"] : g \in hello[i]}]
  BY DEF MovesTo, ITypeOK
<1>3. hello'[i] = {[g EXCEPT !.at = "Deciding"] : g \in hello[i]}
  BY <1>2 DEF ITypeOK
<1>4. [h EXCEPT !.at = "Deciding"].at = "Deciding"
  BY <1>1 DEF Hello
<1>5. Deciding(i)'
  BY <1>1, <1>3, <1>4 DEF Deciding
<1>6. QED
  BY <1>2, <1>5 DEF ITypeOK

LEMMA ElectionSteps ==
  ASSUME ITypeOK, Hearing, [INext]_ivars, NEW k \in Routers
  PROVE  ElectionStep(k)
<1> USE DEF electVars, timerVars, nbrVars
<1> DEFINE Same == UNCHANGED <<dr, bdr, decision, toStore>>
           Quiet == UNCHANGED <<waitTimer, waitOver>>
<1>1. CASE UNCHANGED ivars
  BY <1>1 DEF ivars, ElectionStep, Stays, KeepsElection, KeepsDeciding, KeepsWait, Deciding
<1>2. ASSUME NEW i \in Routers, IStep(i) PROVE ElectionStep(k)
  <2>1. CASE InterfaceUp(i)
    <3>1. \/ ifState'[k] = ifState[k]
          \/ ifState[k] = "Down" /\ ifState'[k] \in {"PointToPoint", "Waiting", "DROther"}
      BY <2>1, UpFromDown DEF InterfaceUp, ITypeOK
    <3>2. QED
      BY <2>1, <3>1 DEF InterfaceUp, ElectionStep, Stays, KeepsElection, KeepsDeciding, KeepsWait,
                        Deciding
  <2>2. CASE WaitTimerStarts(i)
    BY <2>2 DEF WaitTimerStarts, ElectionStep, Stays, KeepsElection, KeepsDeciding, KeepsWait,
                Deciding, ITypeOK
  <2>3. CASE LinkLost(i) \/ LinkBack(i) \/ HelloElapses(i)
    BY <2>3 DEF LinkLost, LinkBack, HelloElapses, ElectionStep, Stays, KeepsElection,
                KeepsDeciding, KeepsWait, Deciding
  <2>4. CASE WaitElapses(i)
    BY <2>4 DEF WaitElapses, ElectionStep, Stays, KeepsElection, KeepsDeciding, KeepsWait,
                Deciding, ITypeOK
  <2>5. CASE WaitDecides(i)
    <3>1. \A j \in Routers : KeepsWait(j) /\ KeepsDeciding(j)
      BY <2>5 DEF WaitDecides, KeepsWait, KeepsDeciding, Deciding, ITypeOK
    <3>2. QED
      BY <2>5, <3>1, ResetStep DEF WaitDecides
  <2>6. CASE Calculate(i)
    <3>1. PICK o : /\ o = Elect(i, Others(i))
                   /\ ifState' = [ifState EXCEPT ![i] = Role(i, o)]
                   /\ dr' = [dr EXCEPT ![i] = o.dr]
                   /\ toStore' = [toStore EXCEPT ![i] = o.bdr]
      BY <2>6 DEF Calculate
    <3>2. CASE k = i
      <4>1. ifState'[k] = Role(k, o) /\ dr'[k] = o.dr /\ toStore'[k] = o.bdr
        BY <3>1, <3>2 DEF ITypeOK
      <4>2. Calculates(k)
        BY <2>6, <3>1, <3>2, <4>1 DEF Calculate, Calculates, ITypeOK
      <4>3. QED
        BY <4>2 DEF ElectionStep
    <3>3. CASE k # i
      BY <2>6, <3>1, <3>3 DEF Calculate, ElectionStep, Stays, KeepsElection, KeepsDeciding,
                              KeepsWait, Deciding, ITypeOK
    <3>4. QED
      BY <3>2, <3>3
  <2>7. CASE StoreBDR(i)
    <3>1. CASE k = i
      BY <2>7, <3>1 DEF StoreBDR, ElectionStep, Stores, ITypeOK
    <3>2. CASE k # i
      BY <2>7, <3>2 DEF StoreBDR, ElectionStep, Stays, KeepsElection, KeepsDeciding, KeepsWait,
                        Deciding, ITypeOK
    <3>3. QED
      BY <3>1, <3>2
  <2>8. CASE BackupSeen(i) \/ NeighborChange(i)
    <3>1. hello[i] # {} /\ MovesTo(i, "Deciding") /\ Reset(i) /\ ifState' = ifState
      BY <2>8 DEF BackupSeen, NeighborChange, HelloRaises
    <3>2. Deciding(i)' /\ \A j \in Routers : j # i => hello'[j] = hello[j]
      BY <3>1, MovesToDeciding
    <3>3. KeepsWait(i) /\ KeepsWait(k)
      BY <2>8 DEF BackupSeen, NeighborChange, KeepsWait, ITypeOK
    <3>4. k # i => KeepsDeciding(k)
      BY <3>2 DEF KeepsDeciding, Deciding
    <3>5. QED
      BY <3>1, <3>2, <3>3, <3>4, ResetStep
  <2>9. CASE HelloThrows(i) \/ NothingToDecide(i)
    <3>1. decision[i] = "Free" /\ \A j \in Routers : j # i => hello'[j] = hello[j]
      BY <2>9 DEF HelloThrows, HelloRaises, NothingToDecide, MovesTo, ITypeOK
    <3>2. KeepsDeciding(k)
      BY <3>1 DEF KeepsDeciding, Deciding
    <3>3. QED
      BY <2>9, <3>2 DEF HelloThrows, NothingToDecide, ElectionStep, Stays, KeepsElection, KeepsWait
  <2>10. CASE NeighborHears(i)
    <3>1. hello' = [hello EXCEPT ![i] = {}] /\ ~Deciding(i)
      BY <2>10 DEF NeighborHears, Deciding, Hearing
    <3>2. KeepsDeciding(k)
      BY <3>1 DEF KeepsDeciding, Deciding, ITypeOK
    <3>3. QED
      BY <2>10, <3>2 DEF NeighborHears, ElectionStep, Stays, KeepsElection, KeepsWait
  <2>11. ASSUME NEW T \in SUBSET Routers, HelloDelivered(i, T) PROVE ElectionStep(k)
    <3>1. PICK U \in SUBSET {j \in NewTo(T, i) : decision[j] = "Reset"} : Interrupts(U)
      BY <2>11 DEF HelloDelivered
    <3>2. /\ \A j \in T : hello[j] = {}
          /\ \A j \in Routers : j \notin T => hello'[j] = hello[j]
          /\ UNCHANGED <<ifState, waitTimer, waitOver>>
      BY <2>11 DEF HelloDelivered
    <3>3. CASE k \in U
      <4>1. k \in T /\ decision[k] = "Reset"
        BY <3>1, <3>3 DEF NewTo
      <4>2. ~Deciding(k)
        BY <3>2, <4>1 DEF Deciding
      <4>3. QED
        BY <3>1, <3>2, <3>3, <4>1, <4>2 DEF Interrupts, ElectionStep, Interrupted
    <3>4. CASE k \notin U
      <4>1. KeepsDeciding(k)
        BY <3>2 DEF KeepsDeciding, Deciding
      <4>2. KeepsElection(k)
        BY <3>1, <3>4 DEF Interrupts, KeepsElection
      <4>3. QED
        BY <3>2, <4>1, <4>2 DEF ElectionStep, Stays, KeepsWait
    <3>5. QED
      BY <3>3, <3>4
  <2>12. ASSUME NEW j \in Routers \ {i}, DBDReceived(i, j) PROVE ElectionStep(k)
    BY <2>12 DEF DBDReceived, ElectionStep, Stays, KeepsElection, KeepsDeciding, KeepsWait, Deciding
  <2>13. QED
    BY <1>2, <2>1, <2>2, <2>3, <2>4, <2>5, <2>6, <2>7, <2>8, <2>9, <2>10, <2>11, <2>12
       DEF IStep, Decides, HandlesHello
<1>3. QED
  BY <1>1, <1>2 DEF INext

-----------------------------------------------------------------------------
(* The invariant is kept, part by part. *)

LEMMA HeardStep ==
  ASSUME ITypeOK, Hearing, Heard, [INext]_ivars
  PROVE  Heard'
<1> SUFFICES ASSUME NEW k \in Routers
             PROVE  {dr'[k], bdr'[k], toStore'[k]} \subseteq Electable(k)'
  BY DEF Heard
<1>1. Electable(k) \subseteq Electable(k)'
  <2>1. \A x \in Eligible : Bidirectional(k, x) => Bidirectional(k, x)'
    <3> TAKE x \in Eligible
    <3>1. x \in Routers
      BY InterfaceAssumption
    <3>2. Bidirectional(k, x) => nbr'[k][x] = nbr[k][x]
      BY <3>1, HearingGrows
    <3>3. QED
      BY <3>2 DEF Bidirectional
  <2>2. QED
    BY <2>1 DEF Electable
<1>2. {dr'[k], bdr'[k], toStore'[k]} \subseteq Electable(k)
  <2>1. dr[k] \in Electable(k) /\ bdr[k] \in Electable(k) /\ toStore[k] \in Electable(k)
        /\ NoAddress \in Electable(k)
    BY DEF Heard, Electable
  <2>2. ElectionStep(k)
    BY ElectionSteps
  <2>3. CASE Calculates(k)
    <3>1. PICK o : o = Elect(k, Others(k)) /\ dr'[k] = o.dr /\ toStore'[k] = o.bdr
                   /\ bdr'[k] = NoAddress
      BY <2>3 DEF Calculates
    <3>2. o.dr \in Electable(k) /\ o.bdr \in Electable(k)
      BY <3>1, ElectedAmongOthers
    <3>3. QED
      BY <2>1, <3>1, <3>2
  <2>4. CASE Stays(k) \/ Resets(k) \/ Stores(k) \/ Interrupted(k)
    BY <2>1, <2>4 DEF Stays, KeepsElection, Resets, Stores, Interrupted
  <2>5. QED
    BY <2>2, <2>3, <2>4 DEF ElectionStep
<1>3. QED
  BY <1>1, <1>2

LEMMA PhasedStep ==
  ASSUME ITypeOK, Hearing, Phased, [INext]_ivars
  PROVE  Phased'
<1> SUFFICES ASSUME NEW k \in Routers PROVE Phase(k)'
  BY DEF Phased
<1>1. Phase(k) /\ ElectionStep(k)
  BY ElectionSteps DEF Phased
<1>2. \A o : Role(k, o) \in {"DR", "Backup", "DROther"}
  BY DEF Role
<1>3. CASE Stays(k)
  <2>1. CASE ifState'[k] = ifState[k]
    BY <1>1, <1>3, <2>1 DEF Phase, Undecided, Stays, KeepsElection
  <2>2. CASE ifState[k] = "Down"
    <3>1. dr[k] = NoAddress /\ bdr[k] = NoAddress /\ decision[k] # "Stored"
      BY <1>1, <2>2 DEF Phase, Undecided
    <3>2. QED
      BY <1>3, <3>1 DEF Phase, Stays, KeepsElection
  <2>3. QED
    BY <1>3, <2>1, <2>2 DEF Stays
<1>4. CASE Resets(k)
  BY <1>1, <1>4 DEF Phase, Undecided, Resets
<1>5. CASE Calculates(k)
  <2>1. PICK o : /\ o = Elect(k, Others(k))
                 /\ ifState'[k] = Role(k, o) /\ dr'[k] = o.dr /\ toStore'[k] = o.bdr
                 /\ decision'[k] = "Stored"
    BY <1>5 DEF Calculates
  <2>2. o \in [dr : Routers, bdr : Routers] /\ o.dr # NoAddress
    BY <2>1, ElectedAmongOthers
  <2>3. o = [dr |-> dr'[k], bdr |-> toStore'[k]]
    BY <2>1, <2>2
  <2>4. ~Undecided(k)'
    BY <1>2, <2>1 DEF Undecided
  <2>5. QED
    BY <2>1, <2>2, <2>3, <2>4 DEF Phase
<1>6. CASE Stores(k)
  <2>1. decision[k] = "Stored" /\ decision'[k] = "Free" /\ dr'[k] = dr[k] /\ bdr'[k] = toStore[k]
        /\ ifState'[k] = ifState[k]
    BY <1>6 DEF Stores
  <2>2. dr[k] # NoAddress /\ ~Undecided(k)
        /\ (k \in RidIsAddress => ifState[k] = Role(k, [dr |-> dr[k], bdr |-> toStore[k]]))
    BY <1>1, <2>1 DEF Phase
  <2>3. QED
    BY <2>1, <2>2 DEF Phase, Undecided
<1>7. CASE Interrupted(k)
  BY <1>1, <1>7 DEF Phase, Undecided, Interrupted
<1>8. QED
  BY <1>1, <1>3, <1>4, <1>5, <1>6, <1>7 DEF ElectionStep

LEMMA LateWaitStep ==
  ASSUME ITypeOK, Hearing, Phased, LateWait, [INext]_ivars
  PROVE  LateWait'
<1> DEFINE P(k) ==
      /\ waitOver[k] => waitTimer[k] = "Stopped"
      /\ decision[k] # "Free" /\ ~Deciding(k) => waitTimer[k] = "Stopped"
      /\ decision[k] = "Free" /\ dr[k] = NoAddress /\ ifState[k] \in {"DR", "Backup"}
           => waitTimer[k] = "Stopped"
<1> SUFFICES ASSUME NEW k \in Routers PROVE P(k)'
  BY DEF LateWait, Deciding
<1>1. P(k) /\ Phase(k) /\ ElectionStep(k)
  BY ElectionSteps DEF Phased, LateWait, Deciding
<1>2. CASE Stays(k)
  BY <1>1, <1>2 DEF Stays, KeepsElection, KeepsDeciding, KeepsWait
<1>3. CASE Resets(k)
  BY <1>1, <1>3 DEF Resets, KeepsWait
<1>4. CASE Calculates(k)
  <2>1. decision[k] = "Reset" /\ decision'[k] = "Stored"
        /\ UNCHANGED <<waitTimer, waitOver, hello>>
    BY <1>4 DEF Calculates
  <2>2. QED
    BY <1>1, <2>1 DEF Deciding
<1>5. CASE Stores(k)
  <2>1. dr'[k] # NoAddress /\ decision'[k] = "Free" /\ UNCHANGED <<waitTimer, waitOver>>
    BY <1>1, <1>5 DEF Stores, Phase
  <2>2. QED
    BY <1>1, <2>1
<1>6. CASE Interrupted(k)
  BY <1>1, <1>6 DEF Interrupted
<1>7. QED
  BY <1>1, <1>2, <1>3, <1>4, <1>5, <1>6 DEF ElectionStep

LEMMA PairedStep ==
  ASSUME ITypeOK, Hearing, Phased, Paired, [INext]_ivars
  PROVE  Paired'
<1>1. \A k, j \in Routers : nbr'[k][j] = "Absent" => claim'[k][j] = NoClaim
  BY HearingGrows DEF Paired
<1>2. ASSUME NEW k \in Routers PROVE Pair(k)'
  <2> SUFFICES ASSUME \A j \in Routers : claim'[k][j].dr = claim'[k][j].bdr
               PROVE  /\ decision'[k] = "Free" => dr'[k] = bdr'[k]
                      /\ decision'[k] = "Stored" => dr'[k] = toStore'[k]
                      /\ k \in RidIsAddress => ifState'[k] # "Backup"
    BY DEF Pair
  <2>1. \A j \in Routers : claim[k][j].dr = claim[k][j].bdr
    <3> TAKE j \in Routers
    <3>1. CASE nbr[k][j] = "Absent"
      BY <3>1 DEF Paired, NoClaim
    <3>2. CASE nbr[k][j] # "Absent"
      BY <3>2, HearingGrows
    <3>3. QED
      BY <3>1, <3>2
  <2>2. /\ decision[k] = "Free" => dr[k] = bdr[k]
        /\ decision[k] = "Stored" => dr[k] = toStore[k]
        /\ k \in RidIsAddress => ifState[k] # "Backup"
    BY <2>1 DEF Paired, Pair
  <2>3. Phase(k) /\ ElectionStep(k)
    BY ElectionSteps DEF Phased
  <2>4. CASE Calculates(k)
    <3>1. PICK o : /\ o = Elect(k, Others(k))
                   /\ ifState'[k] = Role(k, o) /\ dr'[k] = o.dr /\ toStore'[k] = o.bdr
                   /\ decision'[k] = "Stored"
      BY <2>4 DEF Calculates
    <3>2. o.dr = o.bdr
      BY <2>1, <3>1, ElectedAmongOthers
    <3>3. k \in RidIsAddress => Role(k, o) # "Backup"
      BY <3>2 DEF Role
    <3>4. QED
      BY <3>1, <3>2, <3>3
  <2>5. CASE Stays(k)
    BY <2>2, <2>5 DEF Stays, KeepsElection
  <2>6. CASE Resets(k) \/ Stores(k) \/ Interrupted(k)
    BY <2>2, <2>3, <2>6 DEF Resets, Stores, Interrupted, Phase
  <2>7. QED
    BY <2>3, <2>4, <2>5, <2>6 DEF ElectionStep
<1>3. QED
  BY <1>1, <1>2 DEF Paired

LEMMA KindsStep ==
  ASSUME ITypeOK, Hearing, Kinds, [INext]_ivars
  PROVE  Kinds'
<1> USE DEF electVars, timerVars, nbrVars
<1> SUFFICES ASSUME NEW k \in Routers
             PROVE  /\ ifState'[k] = "PointToPoint" => ~Broadcast
                    /\ waitTimer'[k] # "None" => Broadcast
  BY DEF Kinds
<1>1. ifState'[k] = "PointToPoint" => ~Broadcast
  <2>1. CASE ifState'[k] = ifState[k]
    BY <2>1 DEF Kinds
  <2>2. CASE ifState[k] = "Down"
    <3>1. CASE UNCHANGED ivars
      BY <2>2, <3>1 DEF ivars
    <3>2. ASSUME NEW i \in Routers, IStep(i) PROVE ifState'[k] = "PointToPoint" => ~Broadcast
      <4>1. CASE InterfaceUp(i)
        BY <2>2, <4>1 DEF InterfaceUp, ITypeOK
      <4>2. CASE Calculate(i)
        <5>1. \A o : Role(i, o) # "PointToPoint"
          BY DEF Role
        <5>2. QED
          BY <2>2, <4>2, <5>1 DEF Calculate, ITypeOK
      <4>3. CASE ifState' = ifState
        BY <2>2, <4>3
      <4>4. QED
        BY <3>2, <4>1, <4>2, <4>3
           DEF IStep, Decides, HandlesHello, WaitTimerStarts, LinkLost, LinkBack, WaitElapses,
               WaitDecides, StoreBDR, HelloElapses, BackupSeen, NeighborChange, HelloThrows,
               NothingToDecide, NeighborHears, HelloDelivered, DBDReceived
    <3>3. QED
      BY <3>1, <3>2 DEF INext
  <2>3. CASE Calculates(k)
    <3>1. \A o : Role(k, o) # "PointToPoint"
      BY DEF Role
    <3>2. QED
      BY <2>3, <3>1 DEF Calculates
  <2>4. QED
    BY <2>1, <2>2, <2>3, ElectionSteps DEF ElectionStep, Stays, Resets, Stores, Interrupted
<1>2. waitTimer'[k] # "None" => Broadcast
  <2>1. CASE waitTimer'[k] = waitTimer[k]
    BY <2>1 DEF Kinds
  <2>2. CASE UNCHANGED ivars
    BY <2>1, <2>2 DEF ivars
  <2>3. ASSUME NEW i \in Routers, IStep(i) PROVE waitTimer'[k] # "None" => Broadcast
    <3>1. CASE WaitTimerStarts(i)
      BY <3>1 DEF WaitTimerStarts
    <3>2. CASE WaitElapses(i)
      BY <3>2 DEF WaitElapses, Kinds, ITypeOK
    <3>3. CASE BackupSeen(i)
      BY <3>3 DEF BackupSeen, Kinds, ITypeOK
    <3>4. CASE waitTimer' = waitTimer
      BY <3>4, <2>1
    <3>5. QED
      BY <2>3, <3>1, <3>2, <3>3, <3>4
         DEF IStep, Decides, HandlesHello, InterfaceUp, LinkLost, LinkBack, WaitDecides, Calculate,
             StoreBDR, HelloElapses, NeighborChange, HelloThrows, NothingToDecide, NeighborHears,
             HelloDelivered, DBDReceived
  <2>4. QED
    BY <2>2, <2>3 DEF INext
<1>3. QED
  BY <1>1, <1>2

LEMMA Initially ==
  IInit => IInv
<1> SUFFICES ASSUME IInit PROVE IInv
  OBVIOUS
<1>1. NoClaim \in Claim /\ NoAddress \in Address
  BY DEF NoClaim, Claim, Address
<1>2. ITypeOK
  BY <1>1 DEF IInit, ITypeOK, IfStates, Progress
<1>3. Hearing /\ Heard /\ LateWait /\ Kinds
  BY DEF IInit, Hearing, Heard, Electable, LateWait, Kinds
<1>4. Phased /\ Paired
  BY DEF IInit, Phased, Phase, Undecided, Paired, Pair
<1>5. QED
  BY <1>2, <1>3, <1>4 DEF IInv

LEMMA IInvHolds ==
  ISpec => []IInv
<1>1. IInit => IInv
  BY Initially
<1>2. IInv /\ [INext]_ivars => IInv'
  BY TypeStep, HearingStep, HeardStep, PhasedStep, LateWaitStep, PairedStep, KindsStep DEF IInv
<1>3. QED
  BY <1>1, <1>2, PTL DEF ISpec

-----------------------------------------------------------------------------
(* What follows. *)

\* Every variable keeps its type: in particular an election yields addresses
\* whatever the claims (Interface.cs:221-287).
THEOREM InterfaceTypeCorrect ==
  ISpec => []ITypeOK
<1>1. IInv => ITypeOK
  BY DEF IInv
<1>2. QED
  BY <1>1, IInvHolds, PTL

\* Whoever an interface has elected is itself or a router it hears both ways:
\* claims about third routers elect nobody (Interface.cs:227-238).
THEOREM ElectedAreHeard ==
  ISpec => []ElectedIsHeard
<1>1. IInv => ElectedIsHeard
  BY DEF IInv, Heard, Electable, ElectedIsHeard
<1>2. QED
  BY <1>1, IInvHolds, PTL

\* State and election agree in every interleaving of hellos, wait timers and
\* interrupted calculations (Interface.cs:202-210, 221-287).
THEOREM RolesAlwaysAgree ==
  ISpec => []RolesAgree
<1>1. ASSUME IInv PROVE RolesAgree
  <2>1. WaitingElectsNobody
    BY <1>1 DEF IInv, Phased, Phase, Undecided, WaitingElectsNobody
  <2>2. StateNamesRole
    <3> SUFFICES ASSUME NEW i \in RidIsAddress, decision[i] = "Free", dr[i] # NoAddress
                 PROVE  /\ ifState[i] = "DR" <=> dr[i] = i
                        /\ ifState[i] = "Backup" <=> bdr[i] = i /\ dr[i] # i
      BY DEF StateNamesRole
    <3>1. ifState[i] = Role(i, [dr |-> dr[i], bdr |-> bdr[i]])
      BY <1>1, ElectionAssumption DEF IInv, Phased, Phase
    <3>2. QED
      BY <3>1 DEF Role
  <2>3. OnlyLateWaitLeavesNobody
    BY <1>1 DEF IInv, Phased, Phase, LateWait, OnlyLateWaitLeavesNobody
  <2>4. QED
    BY <2>1, <2>2, <2>3 DEF RolesAgree
<1>2. QED
  BY <1>1, IInvHolds, PTL

\* An interface has a DR and a BDR that are two routers only when a hello
\* brought it a DR and a BDR that differ (Interface.cs:244-276).
THEOREM BackupsNeedTornClaims ==
  ISpec => []BackupNeedsTornClaim
<1>1. IInv => BackupNeedsTornClaim
  BY DEF IInv, Paired, Pair, BackupNeedsTornClaim
<1>2. QED
  BY <1>1, IInvHolds, PTL

-----------------------------------------------------------------------------
(* The interfaces implement DesignatedRouter. *)

Top(r, T) == r \in T /\ \A t \in T : RouterID[t] <= RouterID[r]
ElectedBy(i, others, o) ==
  LET D == {c.addr : c \in {d \in others : d.dr = d.addr}}
      B == {c.addr : c \in {d \in others : d.bdr = d.addr}}
      R == ({c.addr : c \in others} \cup {i}) \ D
  IN  /\ o \in [dr : Routers, bdr : Routers]
      /\ Top(o.bdr, IF B # {} THEN B ELSE R)
      /\ IF D # {} THEN Top(o.dr, D) ELSE o.dr = o.bdr

LEMMA NamedOutcome ==
  ASSUME NEW i \in Routers, NEW others \in SUBSET Candidate,
         \A c \in others : c.addr # i,
         \A c, d \in others : c.addr = d.addr => c = d
  PROVE  ElectedBy(i, others, Elect(i, others))
BY ElectionOutcome DEF ElectedBy, Top

\* An election under way, as DesignatedRouter tells it.
LEMMA OutcomeIsElection ==
  ASSUME ITypeOK, Hearing, NEW i \in Routers, NEW o, o = Elect(i, Others(i))
  PROVE  Segment!IsElection(i, o) /\ o \in [dr : Routers, bdr : Routers] /\ o.dr # NoAddress
<1>1. /\ Others(i) \in SUBSET Candidate
      /\ \A c \in Others(i) : c.addr # i
      /\ \A c, d \in Others(i) : c.addr = d.addr => c = d
  BY OthersType
<1>2. ElectedBy(i, Others(i), o)
  BY <1>1, NamedOutcome
<1>3. PICK D, B, T :
        /\ D = {c.addr : c \in {d \in Others(i) : d.dr = d.addr}}
        /\ B = {c.addr : c \in {d \in Others(i) : d.bdr = d.addr}}
        /\ T = IF B # {} THEN B ELSE ({c.addr : c \in Others(i)} \cup {i}) \ D
  OBVIOUS
<1>4. /\ o \in [dr : Routers, bdr : Routers]
      /\ Top(o.bdr, T)
      /\ IF D # {} THEN Top(o.dr, D) ELSE o.dr = o.bdr
  BY <1>2, <1>3 DEF ElectedBy
<1>5. /\ D = Segment!DRs(i) /\ B = Segment!BDRs(i)
      /\ T = IF B # {} THEN B
             ELSE (Segment!Addresses([j \in Routers |-> Others(j)][i]) \cup {i}) \ Segment!DRs(i)
  BY <1>1, <1>3 DEF Segment!DRs, Segment!BDRs, Segment!Addresses
<1>6. Segment!IsElection(i, o)
  BY <1>4, <1>5 DEF Segment!IsElection, Segment!Highest, Top
<1>7. QED
  BY <1>4, <1>6, ElectionAssumption

\* Only the router that takes the step begins or ends a calculation.
LEMMA OthersDoNotDecide ==
  ASSUME ITypeOK, NEW i \in Routers, IStep(i), NEW k \in Routers, k # i
  PROVE  decision'[k] = decision[k] \/ decision'[k] = "Free"
<1> USE DEF electVars, timerVars, nbrVars
<1>1. ASSUME NEW T \in SUBSET Routers, HelloDelivered(i, T)
      PROVE  decision'[k] = decision[k] \/ decision'[k] = "Free"
  BY <1>1 DEF HelloDelivered, Interrupts
<1>2. QED
  BY <1>1 DEF IStep, Decides, HandlesHello, InterfaceUp, WaitTimerStarts, LinkLost, LinkBack,
              WaitElapses, WaitDecides, Reset, Calculate, StoreBDR, HelloElapses, BackupSeen,
              NeighborChange, HelloThrows, NothingToDecide, NeighborHears, DBDReceived, ITypeOK

\* What a step does to the election in force.
LEMMA InForceStep ==
  ASSUME ITypeOK, Hearing, Phased, [INext]_ivars, NEW k \in Routers
  PROVE  /\ Stays(k) \/ Stores(k) \/ Interrupted(k) => InForce(k)' = InForce(k)
         /\ Resets(k) => InForce(k)' = Segment!Nobody
         /\ Calculates(k) => /\ InForce(k) = Segment!Nobody
                             /\ \E o \in [dr : Routers, bdr : Routers] :
                                  Segment!IsElection(k, o) /\ InForce(k)' = o
<1>1. Phase(k)
  BY DEF Phased
<1>2. Segment!Nobody = NoClaim
  BY DEF Segment!Nobody, NoClaim
<1>3. Stays(k) => InForce(k)' = InForce(k)
  BY DEF Stays, KeepsElection, InForce
<1>4. Stores(k) => InForce(k)' = InForce(k)
  BY <1>1 DEF Stores, InForce, Phase
<1>5. Interrupted(k) => InForce(k)' = InForce(k)
  BY <1>1 DEF Interrupted, InForce, Phase
<1>6. Resets(k) => InForce(k)' = Segment!Nobody
  BY <1>2 DEF Resets, InForce
<1>7. ASSUME Calculates(k)
      PROVE  /\ InForce(k) = Segment!Nobody
             /\ \E o \in [dr : Routers, bdr : Routers] :
                  Segment!IsElection(k, o) /\ InForce(k)' = o
  <2>1. PICK o : /\ o = Elect(k, Others(k)) /\ dr'[k] = o.dr /\ toStore'[k] = o.bdr
                 /\ decision'[k] = "Stored" /\ decision[k] = "Reset"
    BY <1>7 DEF Calculates
  <2>2. Segment!IsElection(k, o) /\ o \in [dr : Routers, bdr : Routers] /\ o.dr # NoAddress
    BY <2>1, OutcomeIsElection
  <2>3. InForce(k)' = [dr |-> o.dr, bdr |-> o.bdr]
    BY <2>1, <2>2 DEF InForce
  <2>4. InForce(k)' = o
    BY <2>2, <2>3
  <2>5. InForce(k) = Segment!Nobody
    BY <1>1, <1>2, <2>1 DEF InForce, Phase
  <2>6. QED
    BY <2>2, <2>4, <2>5
<1>8. QED
  BY <1>3, <1>4, <1>5, <1>6, <1>7

LEMMA OthersStay ==
  ASSUME ITypeOK, [INext]_ivars, NEW k \in Routers,
         \A j \in Routers : Bidirectional(k, j)' => Bidirectional(k, j)
  PROVE  Others(k)' = Others(k)
<1>1. \A j \in Eligible : /\ Bidirectional(k, j)' <=> Bidirectional(k, j)
                          /\ Bidirectional(k, j) => claim'[k][j] = claim[k][j]
  <2> TAKE j \in Eligible
  <2>1. j \in Routers
    BY InterfaceAssumption
  <2>2. Bidirectional(k, j) => nbr[k][j] # "Absent"
    BY DEF Bidirectional
  <2>3. Bidirectional(k, j) => nbr'[k][j] = nbr[k][j] /\ claim'[k][j] = claim[k][j]
    BY <2>1, <2>2, HearingGrows
  <2>4. QED
    BY <2>1, <2>3 DEF Bidirectional
<1>2. {j \in Eligible : Bidirectional(k, j)}' = {j \in Eligible : Bidirectional(k, j)}
  BY <1>1
<1>3. QED
  BY <1>1, <1>2 DEF Others

\* A router that is heard both ways becomes a candidate, or is not eligible.
LEMMA OneMoreHeard ==
  ASSUME ITypeOK, Hearing, [INext]_ivars, NEW k \in Routers, NEW j \in Routers \ {k},
         ~Bidirectional(k, j), Bidirectional(k, j)', claim' = claim,
         \A l \in Routers \ {j} : Bidirectional(k, l)' => Bidirectional(k, l)
  PROVE  \/ Others(k)' = Others(k)
         \/ \E c \in Segment!Candidate :
              /\ c.addr \notin {d.addr : d \in Others(k)} \cup {k}
              /\ Others(k)' = Others(k) \cup {c}
<1>1. \A l \in Eligible : l # j => (Bidirectional(k, l)' <=> Bidirectional(k, l))
  <2> TAKE l \in Eligible
  <2>1. l \in Routers
    BY InterfaceAssumption
  <2>2. Bidirectional(k, l) => nbr'[k][l] = nbr[k][l]
    BY <2>1, HearingGrows
  <2>3. QED
    BY <2>1, <2>2 DEF Bidirectional
<1>2. CASE j \notin Eligible
  <2>1. \A l \in Eligible : Bidirectional(k, l)' <=> Bidirectional(k, l)
    BY <1>1, <1>2
  <2>2. QED
    BY <2>1 DEF Others
<1>3. CASE j \in Eligible
  <2>1. PICK c : c = [addr |-> j, dr |-> claim[k][j].dr, bdr |-> claim[k][j].bdr]
    OBVIOUS
  <2>2. claim[k][j].dr \in Address /\ claim[k][j].bdr \in Address
    BY DEF ITypeOK, Claim
  <2>3. c \in Segment!Candidate
    BY <1>3, <2>1, <2>2 DEF Segment!Candidate, Segment!Address, Address
  <2>4. c.addr = j /\ \A d \in Others(k) : d.addr # j
    BY <2>1, OthersType
  <2>5. Others(k)' = Others(k) \cup {c}
    <3>1. Others(k)' = {[addr |-> l, dr |-> claim[k][l].dr, bdr |-> claim[k][l].bdr] :
                          l \in {m \in Eligible : Bidirectional(k, m)'}}
      BY DEF Others
    <3>2. {m \in Eligible : Bidirectional(k, m)'} = {m \in Eligible : Bidirectional(k, m)} \cup {j}
      BY <1>1, <1>3
    <3>3. QED
      BY <3>1, <3>2, <2>1 DEF Others
  <2>6. QED
    BY <2>3, <2>4, <2>5
<1>4. QED
  BY <1>2, <1>3

LEMMA HeardOnStep ==
  ASSUME ITypeOK, Hearing, [INext]_ivars, NEW i \in Routers, NEW j \in Routers \ {i},
         NEW c, TwoWayReceived(i, j, c), ~Bidirectional(i, j), claim' = claim,
         UNCHANGED <<dr, bdr, decision, toStore>>
  PROVE  [Segment!DNext]_(Segment!dvars)
<1>1. \A k \in Routers : InForce(k)' = InForce(k)
  BY DEF InForce
<1>2. [k \in Routers |-> InForce(k)]' = [k \in Routers |-> InForce(k)]
  BY <1>1
<1>3. PICK p \in {"ExStart", "TwoWay"} : nbr' = [nbr EXCEPT ![i][j] = p]
  BY DEF TwoWayReceived
<1>4. /\ \A k, l \in Routers : k # i \/ l # j => nbr'[k][l] = nbr[k][l]
      /\ nbr'[i][j] = p
  BY <1>3 DEF ITypeOK
<1>5. \A k \in Routers : k # i => Others(k)' = Others(k)
  <2> SUFFICES ASSUME NEW k \in Routers, k # i PROVE Others(k)' = Others(k)
    OBVIOUS
  <2>1. \A l \in Routers : Bidirectional(k, l)' => Bidirectional(k, l)
    BY <1>4 DEF Bidirectional
  <2>2. QED
    BY <2>1, OthersStay
<1>6. /\ Bidirectional(i, j)'
      /\ \A l \in Routers \ {j} : Bidirectional(i, l)' => Bidirectional(i, l)
  BY <1>4 DEF Bidirectional
<1>7. CASE Others(i)' = Others(i)
  <2>1. [k \in Routers |-> Others(k)]' = [k \in Routers |-> Others(k)]
    BY <1>5, <1>7
  <2>2. QED
    BY <1>2, <2>1 DEF Segment!dvars
<1>8. ASSUME NEW d \in Segment!Candidate, d.addr \notin {e.addr : e \in Others(i)} \cup {i},
             Others(i)' = Others(i) \cup {d}
      PROVE  [Segment!DNext]_(Segment!dvars)
  <2>1. [k \in Routers |-> Others(k)]'
          = [[k \in Routers |-> Others(k)] EXCEPT ![i] = @ \cup {d}]
    BY <1>5, <1>8
  <2>2. d.addr \notin Segment!Addresses([k \in Routers |-> Others(k)][i]) \cup {i}
    BY <1>8 DEF Segment!Addresses
  <2>3. Segment!Hears(i)
    BY <1>2, <2>1, <2>2 DEF Segment!Hears
  <2>4. QED
    BY <2>3 DEF Segment!DNext
<1>9. QED
  BY <1>6, <1>7, <1>8, OneMoreHeard

LEMMA ElectionRefines ==
  ASSUME IInv, [INext]_ivars
  PROVE  [Segment!DNext]_(Segment!dvars)
<1> USE DEF electVars, timerVars, nbrVars
<1>0. ITypeOK /\ Hearing /\ Phased
  BY DEF IInv
<1>1. CASE UNCHANGED ivars
  <2>1. \A k \in Routers : Others(k)' = Others(k) /\ InForce(k)' = InForce(k)
    BY <1>1 DEF ivars, Others, Bidirectional, InForce
  <2>2. QED
    BY <2>1 DEF Segment!dvars
<1>2. ASSUME NEW i \in Routers, IStep(i) PROVE [Segment!DNext]_(Segment!dvars)
  <2>1. CASE NeighborHears(i)
    <3>1. PICK h \in hello[i] :
            IF h.listed /\ ~Bidirectional(i, h.from)
            THEN TwoWayReceived(i, h.from, [dr |-> h.dr, bdr |-> h.bdr])
            ELSE UNCHANGED nbr
      BY <2>1 DEF NeighborHears
    <3>2. h.from \in Routers \ {i}
      BY <1>0 DEF ITypeOK, Hello, Hearing
    <3>3. claim' = claim /\ UNCHANGED <<dr, bdr, decision, toStore>>
      BY <2>1 DEF NeighborHears
    <3>4. CASE UNCHANGED nbr
      <4>1. \A k \in Routers : Others(k)' = Others(k) /\ InForce(k)' = InForce(k)
        BY <3>3, <3>4 DEF Others, Bidirectional, InForce
      <4>2. QED
        BY <4>1 DEF Segment!dvars
    <3>5. CASE /\ ~Bidirectional(i, h.from)
               /\ TwoWayReceived(i, h.from, [dr |-> h.dr, bdr |-> h.bdr])
      BY <1>0, <3>2, <3>3, <3>5, HeardOnStep
    <3>6. QED
      BY <3>1, <3>4, <3>5
  <2>2. ASSUME NEW j \in Routers \ {i}, DBDReceived(i, j) PROVE [Segment!DNext]_(Segment!dvars)
    <3>1. /\ TwoWayReceived(i, j, claim[i][j]) /\ ~Bidirectional(i, j)
          /\ claim' = claim /\ UNCHANGED <<dr, bdr, decision, toStore>>
      BY <2>2 DEF DBDReceived, Bidirectional
    <3>2. QED
      BY <1>0, <3>1, HeardOnStep
  <2>3. CASE \A k, j \in Routers : Bidirectional(k, j)' => Bidirectional(k, j)
    <3>1. \A k \in Routers : Others(k)' = Others(k)
      BY <1>0, <2>3, OthersStay
    <3>2. [k \in Routers |-> Others(k)]' = [k \in Routers |-> Others(k)]
      BY <3>1
    <3>3. \A k \in Routers : k # i => InForce(k)' = InForce(k)
      <4> SUFFICES ASSUME NEW k \in Routers, k # i PROVE InForce(k)' = InForce(k)
        OBVIOUS
      <4>1. ~Resets(k) /\ ~Calculates(k)
        BY <1>0, <1>2, OthersDoNotDecide DEF Resets, Calculates
      <4>2. Stays(k) \/ Stores(k) \/ Interrupted(k)
        BY <1>0, <4>1, ElectionSteps DEF ElectionStep
      <4>3. QED
        BY <1>0, <4>2, InForceStep
    <3>4. CASE InForce(i)' = InForce(i)
      <4>1. [k \in Routers |-> InForce(k)]' = [k \in Routers |-> InForce(k)]
        BY <3>3, <3>4
      <4>2. QED
        BY <3>2, <4>1 DEF Segment!dvars
    <3>5. CASE InForce(i)' = Segment!Nobody /\ InForce(i) # Segment!Nobody
      <4>1. [k \in Routers |-> InForce(k)]'
              = [[k \in Routers |-> InForce(k)] EXCEPT ![i] = Segment!Nobody]
        BY <3>3, <3>5
      <4>2. Segment!GivesUp(i)
        BY <3>2, <3>5, <4>1 DEF Segment!GivesUp
      <4>3. QED
        BY <4>2 DEF Segment!DNext
    <3>6. ASSUME InForce(i) = Segment!Nobody,
                 NEW o \in [dr : Routers, bdr : Routers],
                 Segment!IsElection(i, o), InForce(i)' = o
          PROVE  [Segment!DNext]_(Segment!dvars)
      <4>1. [k \in Routers |-> InForce(k)]'
              = [[k \in Routers |-> InForce(k)] EXCEPT ![i] = o]
        BY <3>3, <3>6
      <4>2. Segment!Elects(i)
        BY <3>2, <3>6, <4>1 DEF Segment!Elects
      <4>3. QED
        BY <4>2 DEF Segment!DNext
    <3>7. ElectionStep(i)
      BY <1>0, ElectionSteps
    <3>8. /\ Stays(i) \/ Stores(i) \/ Interrupted(i) => InForce(i)' = InForce(i)
          /\ Resets(i) => InForce(i)' = Segment!Nobody
          /\ Calculates(i) => /\ InForce(i) = Segment!Nobody
                              /\ \E o \in [dr : Routers, bdr : Routers] :
                                   Segment!IsElection(i, o) /\ InForce(i)' = o
      BY <1>0, InForceStep
    <3>9. QED
      BY <3>4, <3>5, <3>6, <3>7, <3>8 DEF ElectionStep
  <2>4. ASSUME NEW T \in SUBSET Routers, HelloDelivered(i, T)
        PROVE  \A k, j \in Routers : Bidirectional(k, j)' => Bidirectional(k, j)
    <3>1. PICK c : Creates(T, i, c)
      BY <2>4 DEF HelloDelivered
    <3>2. QED
      BY <1>0, <3>1 DEF Creates, NewTo, Bidirectional, ITypeOK
  <2>5. CASE nbr' = nbr
    BY <2>3, <2>5 DEF Bidirectional
  <2>6. QED
    BY <1>2, <2>1, <2>2, <2>3, <2>4, <2>5
       DEF IStep, Decides, HandlesHello, InterfaceUp, WaitTimerStarts, LinkLost, LinkBack,
           WaitElapses, WaitDecides, Calculate, StoreBDR, HelloElapses, BackupSeen,
           NeighborChange, HelloThrows, NothingToDecide
<1>3. QED
  BY <1>1, <1>2 DEF INext

\* The interfaces implement DesignatedRouter, with any number of routers: an
\* election that comes into force is what the candidates heard by then call for,
\* and gives way only to nobody (Interface.cs:221-287).
THEOREM InterfacesElectAsPromised ==
  ISpec => ElectsAsPromised
<1>1. IInit => Segment!DInit
  <2> SUFFICES ASSUME IInit PROVE Segment!DInit
    OBVIOUS
  <2>1. \A i \in Routers : Others(i) = {} /\ InForce(i) = NoClaim
    BY InterfaceAssumption DEF IInit, Others, Bidirectional, InForce
  <2>2. QED
    BY <2>1 DEF Segment!DInit, Segment!Nobody, NoClaim
<1>2. IInv /\ [INext]_ivars => [Segment!DNext]_(Segment!dvars)
  BY ElectionRefines
<1>3. QED
  BY <1>1, <1>2, IInvHolds, PTL DEF ISpec, ElectsAsPromised, Segment!DSpec

=============================================================================
