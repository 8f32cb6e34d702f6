-------------------------- MODULE RipNetworkProofs --------------------------
(***************************************************************************)
(* What the routers of a segment keep for one another, for every number of *)
(* routers and networks and every choice of the intervals that leaves room *)
(* for the floods that are lost (UpdateBeforeFlush).                       *)
(*                                                                         *)
(* AdvertisedIsKnown is not inductive: it says that a counter has not      *)
(* reached Flush, not why.  RoomLeft says why: since r last heard s, its   *)
(* counters have run for no longer than the floods of s it has missed and  *)
(* the time since the last of them.                                        *)
(***************************************************************************)
EXTENDS RipNetwork, TLAPS

\* A history entry is about two running routers and a network the teller still has.
HeardOfRunning ==
  \A r, s \in Routers : \A x \in heard[r][s] :
    r \in up /\ s \in up /\ r # s /\ Knows(s, x)

RoomLeft ==
  \A r, s \in Routers : \A x \in heard[r][s] :
    age[r][x] <= lost[r][s] * Update + since[s]

IInv == NetTypeOK /\ HeardOfRunning /\ RoomLeft

-----------------------------------------------------------------------------
\* Products are kept away from the provers: these are the facts about them.
LEMMA MissedTime ==
  ASSUME NEW m \in 0..MaxLost
  PROVE  /\ m * Update \in Nat
         /\ m * Update <= MaxLost * Update
         /\ (m + 1) * Update = m * Update + Update
         /\ MaxLost * Update \in Nat
BY RipNetworkAssumption, SMT DEF RipNetworkAssumption

\* The heart of the matter: an entry that RoomLeft bounds is not due.
LEMMA RoomIsEnough ==
  ASSUME IInv, NEW r \in Routers, NEW s \in Routers, NEW x \in heard[r][s]
  PROVE  Knows(r, x)
<1>1. x \in Networks /\ age[r][x] \in 0..Flush /\ since[s] \in 0..Update /\ lost[r][s] \in 0..MaxLost
  BY DEF IInv, NetTypeOK
<1>2. age[r][x] <= lost[r][s] * Update + since[s]
  BY DEF IInv, RoomLeft
<1>3. /\ lost[r][s] * Update \in Nat
      /\ lost[r][s] * Update <= MaxLost * Update
      /\ MaxLost * Update \in Nat
  BY <1>1, MissedTime
<1>4. Update \in Nat /\ Flush \in Nat /\ MaxLost * Update + Update < Flush
  BY RipNetworkAssumption, UpdateBeforeFlush DEF RipNetworkAssumption, UpdateBeforeFlush
<1> DEFINE missed == lost[r][s] * Update
           most == MaxLost * Update
<1>5. missed \in Nat /\ most \in Nat /\ missed <= most /\ most + Update < Flush /\ age[r][x] <= missed + since[s]
  BY <1>2, <1>3, <1>4
<1> HIDE DEF missed, most
<1> QED
  BY <1>1, <1>4, <1>5 DEF Knows

\* A counter stays between 0 and Flush.
LEMMA AgedInRange ==
  ASSUME NetTypeOK, NEW r \in Routers, NEW x \in Networks
  PROVE  Aged(r, x) \in 0..Flush
BY RipNetworkAssumption DEF RipNetworkAssumption, NetTypeOK, Aged, Knows

LEMMA SightedInRange ==
  ASSUME NetTypeOK, NEW r \in Routers, NEW s \in Routers
  PROVE  Sighted(r, s) \in [Networks -> 0..Flush]
BY RipNetworkAssumption DEF RipNetworkAssumption, NetTypeOK, Sighted

LEMMA InitInv == NetInit => IInv
BY RipNetworkAssumption DEF RipNetworkAssumption, NetInit, IInv, NetTypeOK, HeardOfRunning, RoomLeft

LEMMA TickInv == IInv /\ Tick => IInv'
<1> SUFFICES ASSUME IInv, Tick PROVE IInv'
  OBVIOUS
<1>1. NetTypeOK
  BY DEF IInv
<1>2. NetTypeOK'
  <2>1. age' \in [Routers -> [Networks -> 0..Flush]]
    BY <1>1, AgedInRange DEF Tick
  <2>2. since' \in [Routers -> 0..Update]
    BY <1>1, RipNetworkAssumption DEF RipNetworkAssumption, Tick, NetTypeOK
  <2>3. heard' \in [Routers -> [Routers -> SUBSET Networks]]
    BY <1>1 DEF Tick, NetTypeOK
  <2> QED
    BY <1>1, <2>1, <2>2, <2>3 DEF Tick, NetTypeOK
<1>3. HeardOfRunning'
  BY <1>1 DEF IInv, HeardOfRunning, Tick, NetTypeOK, Knows
<1>4. RoomLeft'
  <2> SUFFICES ASSUME NEW r \in Routers, NEW s \in Routers, NEW x \in heard'[r][s]
               PROVE  age'[r][x] <= lost'[r][s] * Update + since'[s]
    BY DEF RoomLeft
  <2>1. x \in heard[r][s] /\ x \in Networks /\ s \in up
    BY <1>1 DEF Tick, NetTypeOK, IInv, HeardOfRunning
  <2>2. age'[r][x] <= age[r][x] + 1 /\ since'[s] = since[s] + 1 /\ lost'[r][s] = lost[r][s]
    BY <1>1, <2>1 DEF Tick, NetTypeOK, Aged
  <2>3. age[r][x] <= lost[r][s] * Update + since[s]
    BY <2>1 DEF IInv, RoomLeft
  <2>4. age[r][x] \in Nat /\ age'[r][x] \in Nat /\ since[s] \in Nat /\ lost[r][s] * Update \in Nat
    BY <1>1, <1>2, <2>1, MissedTime DEF NetTypeOK
  <2> DEFINE missed == lost[r][s] * Update
  <2>5. age[r][x] <= missed + since[s] /\ missed \in Nat
    BY <2>3, <2>4
  <2> HIDE DEF missed
  <2>6. age'[r][x] <= missed + since'[s]
    BY <2>2, <2>4, <2>5
  <2> QED
    BY <2>2, <2>6 DEF missed
<1> QED
  BY <1>2, <1>3, <1>4 DEF IInv

\* What a flood of s does to what the routers in T know and have heard.
LEMMA ReceivesKeeps ==
  ASSUME IInv, NEW s \in up, NEW T \in SUBSET (up \ {s}), Receives(T, s), up' = up
  PROVE  /\ age' \in [Routers -> [Networks -> 0..Flush]]
         /\ heard' \in [Routers -> [Routers -> SUBSET Networks]]
         /\ HeardOfRunning'
         /\ \A r, q \in Routers : \A x \in heard'[r][q] :
              \/ age'[r][x] = 0
              \/ (r \notin T \/ q # s) /\ x \in heard[r][q] /\ age'[r][x] = age[r][x]
<1>1. NetTypeOK /\ s \in Routers /\ T \subseteq Routers
  BY DEF IInv, NetTypeOK
<1>2. age' \in [Routers -> [Networks -> 0..Flush]]
  BY <1>1, SightedInRange DEF Receives, NetTypeOK
<1>3. heard' \in [Routers -> [Routers -> SUBSET Networks]]
  BY <1>1 DEF Receives, NetTypeOK, Database
<1>4. \A r \in Routers : \A x \in Networks :
        age'[r][x] = age[r][x] \/ (age'[r][x] = 0 /\ r \in T)
  BY <1>1 DEF Receives, Sighted, NetTypeOK
<1>5. \A r \in Routers : \A x \in Networks : Knows(r, x) => Knows(r, x)'
  BY <1>4, <1>1, RipNetworkAssumption DEF Knows, RipNetworkAssumption
<1>6. HeardOfRunning'
  <2> SUFFICES ASSUME NEW r \in Routers, NEW q \in Routers, NEW x \in heard'[r][q]
               PROVE  r \in up /\ q \in up /\ r # q /\ Knows(q, x)'
    BY DEF HeardOfRunning
  <2>1. x \in Networks
    BY <1>3
  <2>2. CASE r \in T /\ q = s
    BY <1>5, <2>1, <2>2 DEF Receives, Database
  <2>3. CASE ~(r \in T /\ q = s)
    <3>1. x \in heard[r][q]
      BY <2>3 DEF Receives
    <3> QED
      BY <3>1, <1>5, <2>1 DEF IInv, HeardOfRunning
  <2> QED
    BY <2>2, <2>3
<1>7. ASSUME NEW r \in Routers, NEW q \in Routers, NEW x \in heard'[r][q]
      PROVE  \/ age'[r][x] = 0
             \/ (r \notin T \/ q # s) /\ x \in heard[r][q] /\ age'[r][x] = age[r][x]
  <2>1. x \in Networks
    BY <1>3, <1>7
  <2>2. CASE r \in T /\ q = s
    BY <1>1, <1>7, <2>1, <2>2 DEF Receives, Sighted, Database
  <2>3. CASE ~(r \in T /\ q = s)
    BY <1>4, <1>7, <2>1, <2>3 DEF Receives
  <2> QED
    BY <2>2, <2>3
<1> QED
  BY <1>2, <1>3, <1>6, <1>7

LEMMA SendFloodInv ==
  ASSUME IInv, NEW s \in Routers, NEW T \in SUBSET (up \ {s}), SendFlood(s, T)
  PROVE  IInv'
<1>1. NetTypeOK /\ s \in up /\ since[s] = Update /\ Receives(T, s) /\ up' = up /\ asked' = asked
  BY DEF IInv, SendFlood
<1>2. /\ age' \in [Routers -> [Networks -> 0..Flush]]
      /\ heard' \in [Routers -> [Routers -> SUBSET Networks]]
      /\ HeardOfRunning'
      /\ \A r, q \in Routers : \A x \in heard'[r][q] :
           \/ age'[r][x] = 0
           \/ (r \notin T \/ q # s) /\ x \in heard[r][q] /\ age'[r][x] = age[r][x]
  BY <1>1, ReceivesKeeps
<1>3. since' \in [Routers -> 0..Update]
  BY <1>1, RipNetworkAssumption DEF RipNetworkAssumption, SendFlood, NetTypeOK
<1>4. lost' \in [Routers -> [Routers -> 0..MaxLost]]
  BY <1>1, RipNetworkAssumption DEF RipNetworkAssumption, SendFlood, NetTypeOK
<1>5. NetTypeOK'
  BY <1>1, <1>2, <1>3, <1>4 DEF NetTypeOK
<1>6. RoomLeft'
  <2> SUFFICES ASSUME NEW r \in Routers, NEW q \in Routers, NEW x \in heard'[r][q]
               PROVE  age'[r][x] <= lost'[r][q] * Update + since'[q]
    BY DEF RoomLeft
  <2>1. lost'[r][q] * Update \in Nat /\ since'[q] \in Nat
    BY <1>3, <1>4, MissedTime
  <2>2. CASE age'[r][x] = 0
    <3> DEFINE missed == lost'[r][q] * Update
    <3> HIDE DEF missed
    <3>1. missed \in Nat
      BY <2>1 DEF missed
    <3>2. age'[r][x] <= missed + since'[q]
      BY <2>1, <2>2, <3>1
    <3> QED
      BY <3>2 DEF missed
  <2>3. CASE (r \notin T \/ q # s) /\ x \in heard[r][q] /\ age'[r][x] = age[r][x]
    <3>1. r \in up /\ r # q /\ age[r][x] <= lost[r][q] * Update + since[q]
      BY <2>3 DEF IInv, HeardOfRunning, RoomLeft
    <3>2. CASE q # s
      <4>1. lost'[r][q] = lost[r][q] /\ since'[q] = since[q]
        BY <1>1, <3>2 DEF SendFlood, NetTypeOK
      <4> QED
        BY <2>3, <3>1, <4>1
    <3>3. CASE q = s
      <4>1. lost'[r][q] = lost[r][q] + 1 /\ since'[q] = 0 /\ since[q] = Update
        BY <1>1, <2>3, <3>1, <3>3 DEF SendFlood, NetTypeOK
      <4>2. lost[r][q] \in 0..MaxLost
        BY <1>1 DEF NetTypeOK
      <4>3. (lost[r][q] + 1) * Update = lost[r][q] * Update + Update
        BY <4>2, MissedTime
      <4> DEFINE missed == lost[r][q] * Update
                 more == (lost[r][q] + 1) * Update
      <4>4. missed \in Nat /\ more = missed + Update /\ age[r][x] <= missed + Update
        BY <3>1, <4>1, <4>2, <4>3, MissedTime
      <4>5. lost'[r][q] * Update = more
        BY <4>1
      <4> HIDE DEF missed, more
      <4>6. age'[r][x] <= more + 0
        BY <2>3, <4>4, RipNetworkAssumption DEF RipNetworkAssumption
      <4> QED
        BY <4>1, <4>5, <4>6
    <3> QED
      BY <3>2, <3>3
  <2> QED
    BY <1>2, <2>2, <2>3
<1> QED
  BY <1>2, <1>5, <1>6 DEF IInv

LEMMA HandleRequestInv ==
  ASSUME IInv, NEW s \in Routers, NEW T \in SUBSET (up \ {s}), HandleRequest(s, T)
  PROVE  IInv'
<1>1. /\ NetTypeOK /\ s \in up /\ Receives(T, s)
      /\ up' = up /\ asked' = asked \ {s} /\ since' = since /\ lost' = lost
  BY DEF IInv, NetTypeOK, HandleRequest
<1>2. /\ age' \in [Routers -> [Networks -> 0..Flush]]
      /\ heard' \in [Routers -> [Routers -> SUBSET Networks]]
      /\ HeardOfRunning'
      /\ \A r, q \in Routers : \A x \in heard'[r][q] :
           \/ age'[r][x] = 0
           \/ (r \notin T \/ q # s) /\ x \in heard[r][q] /\ age'[r][x] = age[r][x]
  BY <1>1, ReceivesKeeps
<1>3. NetTypeOK'
  BY <1>1, <1>2 DEF NetTypeOK
<1>4. RoomLeft'
  <2> SUFFICES ASSUME NEW r \in Routers, NEW q \in Routers, NEW x \in heard'[r][q]
               PROVE  age'[r][x] <= lost[r][q] * Update + since[q]
    BY <1>1 DEF RoomLeft
  <2>1. lost[r][q] * Update \in Nat /\ since[q] \in Nat
    BY <1>1, MissedTime DEF NetTypeOK
  <2>2. CASE age'[r][x] = 0
    <3> DEFINE missed == lost[r][q] * Update
    <3> HIDE DEF missed
    <3>1. missed \in Nat
      BY <2>1 DEF missed
    <3>2. age'[r][x] <= missed + since[q]
      BY <2>1, <2>2, <3>1
    <3> QED
      BY <3>2 DEF missed
  <2>3. CASE x \in heard[r][q] /\ age'[r][x] = age[r][x]
    BY <2>3 DEF IInv, RoomLeft
  <2> QED
    BY <1>2, <2>2, <2>3
<1> QED
  BY <1>2, <1>3, <1>4 DEF IInv

LEMMA InitializeInv ==
  ASSUME IInv, NEW s \in Routers, NEW T \in SUBSET (up \ {s}), Initialize(s, T)
  PROVE  IInv'
<1>1. NetTypeOK /\ s \notin up
  BY DEF IInv, Initialize
<1>2. NetTypeOK'
  BY <1>1, RipNetworkAssumption DEF RipNetworkAssumption, Initialize, InitialDatabase, NetTypeOK
<1>3. \A r, q \in Routers : \A x \in heard'[r][q] :
        /\ x \in heard[r][q] /\ r \in up /\ q \in up /\ r # q /\ Knows(q, x)
        /\ r # s /\ q # s
  BY <1>1 DEF Initialize, IInv, HeardOfRunning
<1>4. HeardOfRunning'
  BY <1>1, <1>3 DEF Initialize, HeardOfRunning, NetTypeOK, Knows
<1>5. RoomLeft'
  <2> SUFFICES ASSUME NEW r \in Routers, NEW q \in Routers, NEW x \in heard'[r][q]
               PROVE  age'[r][x] <= lost'[r][q] * Update + since'[q]
    BY DEF RoomLeft
  <2>1. age'[r][x] = age[r][x] /\ since'[q] = since[q] /\ lost' = lost
    BY <1>1, <1>3 DEF Initialize, NetTypeOK
  <2>2. age[r][x] <= lost[r][q] * Update + since[q]
    BY <1>3 DEF IInv, RoomLeft
  <2> QED
    BY <2>1, <2>2
<1> QED
  BY <1>2, <1>4, <1>5 DEF IInv

LEMMA StopInv ==
  ASSUME IInv, NEW s \in Routers, Stop(s)
  PROVE  IInv'
<1>1. NetTypeOK /\ s \in up
  BY DEF IInv, Stop
<1>2. NetTypeOK'
  BY <1>1, RipNetworkAssumption DEF RipNetworkAssumption, Stop, NetTypeOK
<1>3. \A r, q \in Routers : \A x \in heard'[r][q] :
        /\ x \in heard[r][q] /\ r \in up /\ q \in up /\ r # q /\ Knows(q, x)
        /\ r # s /\ q # s
  BY <1>1 DEF Stop, IInv, HeardOfRunning, NetTypeOK
<1>4. HeardOfRunning'
  BY <1>1, <1>3 DEF Stop, HeardOfRunning, NetTypeOK, Knows
<1>5. RoomLeft'
  <2> SUFFICES ASSUME NEW r \in Routers, NEW q \in Routers, NEW x \in heard'[r][q]
               PROVE  age'[r][x] <= lost'[r][q] * Update + since'[q]
    BY DEF RoomLeft
  <2>1. age'[r][x] = age[r][x] /\ since'[q] = since[q] /\ lost'[r][q] = lost[r][q]
    BY <1>1, <1>3 DEF Stop, NetTypeOK
  <2>2. age[r][x] <= lost[r][q] * Update + since[q]
    BY <1>3 DEF IInv, RoomLeft
  <2> QED
    BY <2>1, <2>2
<1> QED
  BY <1>2, <1>4, <1>5 DEF IInv

LEMMA StutterInv == IInv /\ UNCHANGED netvars => IInv'
BY DEF IInv, NetTypeOK, HeardOfRunning, RoomLeft, Knows, netvars

LEMMA NextInv == IInv /\ [NetNext]_netvars => IInv'
<1> SUFFICES ASSUME IInv, [NetNext]_netvars PROVE IInv'
  OBVIOUS
<1>1. CASE Tick
  BY <1>1, TickInv
<1>2. ASSUME NEW s \in Routers, NEW T \in SUBSET (up \ {s}), SendFlood(s, T)
      PROVE  IInv'
  BY <1>2, SendFloodInv
<1>3. ASSUME NEW s \in Routers, NEW T \in SUBSET (up \ {s}), HandleRequest(s, T)
      PROVE  IInv'
  BY <1>3, HandleRequestInv
<1>4. ASSUME NEW s \in Routers, NEW T \in SUBSET (up \ {s}), Initialize(s, T)
      PROVE  IInv'
  BY <1>4, InitializeInv
<1>5. ASSUME NEW s \in Routers, Stop(s)
      PROVE  IInv'
  BY <1>5, StopInv
<1>6. CASE UNCHANGED netvars
  BY <1>6, StutterInv
<1> QED
  BY <1>1, <1>2, <1>3, <1>4, <1>5, <1>6 DEF NetNext

-----------------------------------------------------------------------------
\* Everything below rests on this.
THEOREM Inductive == NetSpec => []IInv
BY InitInv, NextInv, PTL DEF NetSpec

\* Every variable of RipNetwork keeps its type and no counter passes its
\* limit: _gcCounter of RipRoute never passes Flush.
THEOREM TypeCorrect == NetSpec => []NetTypeOK
<1>1. IInv => NetTypeOK
  BY DEF IInv
<1> QED
  BY <1>1, Inductive, PTL

\* A router has every network a running neighbour has told it of and still
\* has itself: the flush interval of RipRoute is not reached between the
\* floods of RipModule's update timer, MaxLost lost floods included.
THEOREM KeptWhileAdvertised == NetSpec => []AdvertisedIsKnown
<1>1. IInv => AdvertisedIsKnown
  BY RoomIsEnough DEF IInv, HeardOfRunning, AdvertisedIsKnown
<1> QED
  BY <1>1, Inductive, PTL

\* What two routers have told each other stays in both histories through any
\* step that neither is stopped by: the flooding of learned routes back to
\* where they came from (RipHandler.Build) makes each a source for the other.
LEMMA EchoStep ==
  ASSUME IInv, IInv', [NetNext]_netvars,
         NEW r \in up', NEW s \in up', NEW x \in heard[r][s] \cap heard[s][r]
  PROVE  x \in heard'[r][s] \cap heard'[s][r]
<1>1. /\ NetTypeOK /\ NetTypeOK'
      /\ r \in Routers /\ s \in Routers /\ x \in Networks
      /\ r \in up /\ s \in up /\ r # s
      /\ Knows(r, x) /\ Knows(s, x)
  BY DEF IInv, NetTypeOK, HeardOfRunning
<1>2. CASE Tick
  <2>1. Aged(r, x) < Flush /\ Aged(s, x) < Flush
    <3>1. \A q, p \in Routers :
            x \in heard[q][p] /\ p \in up /\ Knows(p, x) /\ Knows(q, x) => age[q][x] + 1 < Flush
      <4> SUFFICES ASSUME NEW q \in Routers, NEW p \in Routers, x \in heard[q][p], p \in up
                   PROVE  age[q][x] + 1 < Flush
        OBVIOUS
      <4>1. age[q][x] <= lost[q][p] * Update + since[p]
        BY DEF IInv, RoomLeft
      <4>2. lost[q][p] \in 0..MaxLost /\ since[p] \in Nat /\ since[p] < Update /\ age[q][x] \in Nat
        BY <1>1, <1>2 DEF NetTypeOK, Tick
      <4>3. /\ lost[q][p] * Update \in Nat /\ lost[q][p] * Update <= MaxLost * Update
            /\ MaxLost * Update \in Nat
        BY <4>2, MissedTime
      <4> DEFINE missed == lost[q][p] * Update
                 most == MaxLost * Update
      <4>4. /\ missed \in Nat /\ most \in Nat /\ missed <= most
            /\ most + Update < Flush /\ age[q][x] <= missed + since[p]
        BY <4>1, <4>3, UpdateBeforeFlush DEF UpdateBeforeFlush
      <4> HIDE DEF missed, most
      <4> QED
        BY <4>2, <4>4, RipNetworkAssumption DEF RipNetworkAssumption
    <3>2. age[r][x] + 1 < Flush /\ age[s][x] + 1 < Flush
      BY <1>1, <3>1
    <3>3. /\ age[r][x] \in Nat /\ age[s][x] \in Nat /\ Flush \in Nat
          /\ age[r][x] < Flush /\ age[s][x] < Flush
      BY <1>1, RipNetworkAssumption DEF NetTypeOK, Knows, RipNetworkAssumption
    <3> QED
      BY <3>2, <3>3 DEF Aged
  <2> QED
    BY <1>1, <1>2, <2>1 DEF Tick
<1>3. ASSUME NEW q \in Routers, NEW T \in SUBSET (up \ {q}), Receives(T, q)
      PROVE  x \in heard'[r][s] \cap heard'[s][r]
  BY <1>1, <1>3 DEF Receives, Database
<1>4. ASSUME NEW q \in Routers, NEW T \in SUBSET (up \ {q}), Initialize(q, T)
      PROVE  x \in heard'[r][s] \cap heard'[s][r]
  BY <1>4 DEF Initialize
<1>5. ASSUME NEW q \in Routers, Stop(q)
      PROVE  x \in heard'[r][s] \cap heard'[s][r]
  BY <1>1, <1>5 DEF Stop
<1>6. CASE UNCHANGED netvars
  BY <1>6 DEF netvars
<1> QED
  BY <1>2, <1>3, <1>4, <1>5, <1>6 DEF NetNext, SendFlood, HandleRequest

\* Two routers that have told each other of a network never forget it while
\* both run, attached to it or not.
THEOREM EchoIsForEver == NetSpec => EchoNeverDies
<1> DEFINE Stays == \A r, s \in up' : \A x \in heard[r][s] \cap heard[s][r] :
                      x \in heard'[r][s] \cap heard'[s][r]
<1>1. IInv /\ IInv' /\ [NetNext]_netvars => Stays
  BY EchoStep
<1>2. IInv /\ IInv' /\ [NetNext]_netvars => [Stays]_netvars
  BY <1>1
<1> QED
  BY <1>2, Inductive, PTL DEF NetSpec, EchoNeverDies
=============================================================================
