--------------------------- MODULE OspfAdjacency ----------------------------
(***************************************************************************)
(* Two routers that both run Neighbor.cs, on one segment.  Object n is     *)
(* what its router keeps of the other one; chan[n] holds the DBDs on their *)
(* way to it, in order, and may lose any of them.  A router may restart    *)
(* and forget everything.  DR and BDR are left free: whatever the election *)
(* of Interface.cs has decided when a hello arrives is covered.            *)
(***************************************************************************)
EXTENDS OspfNeighbor, Sequences

CONSTANTS
  Peer,         \* the object of the other router that describes this one's router
  ChanCap,      \* DBDs on their way to one router; the segment drops more
  MaxSeq,       \* bound on the sequence numbers explored
  MaxRestarts   \* bound on the restarts explored

ASSUME AdjacencyAssumption ==
  /\ Peer \in [Neighbors -> Neighbors]
  /\ \A n \in Neighbors : Peer[n] # n /\ Peer[Peer[n]] = n
  /\ ChanCap \in Nat /\ MaxSeq \in Nat /\ MaxRestarts \in Nat

\* DDSequenceNumber is 32 bits wide.
ASSUME EvenModulus == SeqMod % 2 = 0

VARIABLES
  known,     \* NeighborMap of the router has the object
  chan,      \* DBDs on their way to the object
  restarts,  \* restarts so far
  firsts     \* history: whether the first sequence numbers the object has begun
             \* a negotiation with, before and after restarts, were even or odd

avars == <<nvars, known, chan, restarts, firsts>>

\* Router ids are distinct and are known from the first hello on.
AInit ==
  /\ NInit
  /\ \A n \in Neighbors :
       /\ {stored[n].rid, stored[Peer[n]].rid} = {"lower", "higher"}
       /\ disc[n] = OwnOptions[Peer[n]]
  /\ known = [n \in Neighbors |-> FALSE]
  /\ chan = [n \in Neighbors |-> <<>>]
  /\ restarts = 0
  /\ firsts = [n \in Neighbors |-> {}]

\* Part of every action: the history of first sequence numbers.
Remembers ==
  firsts' = [n \in Neighbors |->
               IF attempted'[n] /\ ~attempted[n] THEN firsts[n] \cup {ddSeq'[n] % 2}
               ELSE firsts[n]]

\* What object n has just sent goes to the other router, or is lost.
Transmit(n, ch) ==
  LET to == Peer[n]
      full == Len(ch[to]) >= ChanCap
  IN  \/ /\ out'[n] # {} /\ ~full
         /\ \E d \in out'[n] : chan' = [ch EXCEPT ![to] = Append(@, d)]
      \/ chan' = ch

Bounded == \A n \in Neighbors : ddSeq'[n] <= MaxSeq

\* A hello of the peer arrives.  It lists us when the peer's NeighborMap does.
HelloArrives(n, c, isDR) ==
  /\ IF known[Peer[n]] THEN HelloTwoWay(n, c, isDR) ELSE HelloOneWay(n)
  /\ known' = [known EXCEPT ![n] = TRUE]
  /\ Transmit(n, chan)
  /\ UNCHANGED restarts
  /\ Remembers

\* DBDReceived: a DBD of a router that is not in NeighborMap is ignored.
DBDArrives(n, isDR) ==
  /\ chan[n] # <<>>
  /\ \/ /\ known[n]
        /\ OnDBDReceive(n, Head(chan[n]), isDR)
        /\ Transmit(n, [chan EXCEPT ![n] = Tail(@)])
     \/ /\ ~known[n]
        /\ chan' = [chan EXCEPT ![n] = Tail(@)]
        /\ UNCHANGED nvars
  /\ UNCHANGED <<known, restarts>>
  /\ Remembers

TimerFires(n) ==
  /\ known[n]
  /\ InactivityElapsed(n) \/ SendTimerElapsed(n)
  /\ Transmit(n, chan)
  /\ UNCHANGED <<known, restarts>>
  /\ Remembers

\* The process of the router that holds n is stopped and started again.
Restart(n) ==
  /\ restarts < MaxRestarts
  /\ restarts' = restarts + 1
  /\ known' = [known EXCEPT ![n] = FALSE]
  /\ nbrState' = [nbrState EXCEPT ![n] = "Down"]
  /\ ddSeq' = [ddSeq EXCEPT ![n] = 0]
  /\ ms' = [ms EXCEPT ![n] = "None"]
  /\ disc' = [disc EXCEPT ![n] = OwnOptions[Peer[n]]]
  /\ ClearCounts(n)
  /\ sendList' = [sendList EXCEPT ![n] = {}]
  /\ pending' = [pending EXCEPT ![n] = {}]
  /\ attempted' = [attempted EXCEPT ![n] = FALSE]
  /\ inactivity' = [inactivity EXCEPT ![n] = FALSE]
  /\ out' = [out EXCEPT ![n] = {}]
  /\ \E c \in HelloClaims :
       stored' = [stored EXCEPT ![n] = [dr |-> c.dr, bdr |-> c.bdr, rid |-> @.rid]]
  /\ UNCHANGED <<fault, chan>>
  /\ Remembers

AStep(n) ==
  \/ \E c \in HelloClaims, isDR \in BOOLEAN : HelloArrives(n, c, isDR)
  \/ \E isDR \in BOOLEAN : DBDArrives(n, isDR)
  \/ TimerFires(n)
  \/ Restart(n)

ANext == \E n \in Neighbors : AStep(n) /\ Bounded

ASpec == AInit /\ [][ANext]_avars

\* The timers of both routers keep running, hellos keep coming, and a segment
\* that loses packets does not lose all of them for ever.
Fairness ==
  \A n \in Neighbors :
    /\ WF_avars(\E c \in HelloClaims : HelloArrives(n, c, TRUE) /\ Bounded)
    /\ SF_avars(\E isDR \in BOOLEAN : DBDArrives(n, isDR) /\ Bounded)
    /\ SF_avars(TimerFires(n) /\ Bounded /\ chan' # chan)

AFairSpec == ASpec /\ Fairness

-----------------------------------------------------------------------------
\* No adjacency between two of these routers completes as it should: the master
\* never sends a second DBD (ProcessDBD, Neighbor.cs:603-610), so the slave never
\* sees the DBD that raises ExchangeDone; and the master, which adds two to its
\* number with each attempt and one more when it leads, takes none of the slave's
\* answers for the expected DBD.  Only an answer left over from before a restart
\* may pass for it, and only if the clock, which the first number is taken from,
\* was even one time and odd another.
OnlyLeftoversComplete ==
  \A n \in Neighbors :
    nbrState[n] = "Full" => stored[n].rid = "lower" /\ restarts > 0 /\ firsts[n] = {0, 1}

\* The two routers negotiate again and again, and Exchange does not last: the
\* slave's answer, never acknowledged, is sent again and takes the master back to
\* ExStart, and the master's new first DBD takes the slave back.
ExchangeFallsBack ==
  /\ []<>(\E n \in Neighbors : nbrState[n] = "Exchange")
  /\ \A n \in Neighbors : nbrState[n] = "Exchange" ~> nbrState[n] = "ExStart"
=============================================================================
