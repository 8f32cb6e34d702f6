----------------------------- MODULE RipNetwork -----------------------------
(***************************************************************************)
(* RIP among the routers of one segment: the floods of RipModule.cs and    *)
(* the counters of RipRoute.cs.  Module Rip looks at what one router's     *)
(* threads do to each other; here a header is handled at once and the      *)
(* question is what the routers tell each other.                           *)
(*                                                                         *)
(* A flood carries the whole database, the networks learned from the       *)
(* segment it goes to included: SendFlood selects the routes of the other  *)
(* interfaces (RipModule.cs:189), and RipHandler.Build then replaces its   *)
(* selection by all of them (RipHandler.cs:60).  Build also drops the      *)
(* increment of the metric, so that every metric is that of the origin and *)
(* is left out here, as is the invalid interval, which does not run out    *)
(* before the flush interval (180 and 60 seconds unless configured).       *)
(*                                                                         *)
(* Time is counted in the ticks of the one-second timers.  A router floods *)
(* every Update seconds; a flood that is due is sent, and answered         *)
(* requests are, before the next second is counted.                        *)
(***************************************************************************)
EXTENDS Naturals

CONSTANTS
  Routers,    \* the routers that run RIP on the segment
  Networks,   \* the networks that may be in a database
  Local,      \* the networks each router is attached to
  Update,     \* seconds between two floods
  Flush,      \* seconds a route lives without a sighting
  MaxLost     \* bound on the floods of one router that another misses in a row

ASSUME RipNetworkAssumption ==
  /\ Local \in [Routers -> SUBSET Networks]
  /\ Update \in Nat \ {0}
  /\ Flush \in Nat \ {0}
  /\ MaxLost \in Nat

\* The intervals leave room for the floods that are lost.
ASSUME UpdateBeforeFlush == MaxLost * Update + Update < Flush

VARIABLES
  up,       \* the routers that are running
  age,      \* _gcCounter of the route each has for each network; Flush: it has none
  since,    \* seconds since each flooded; 0 when it is stopped and may start
  asked,    \* the routers that have a request to answer
  lost,     \* floods of the second that the first has missed in a row
  heard     \* history: the networks the first had from the second, which the
            \* second has kept since, in the present run of both

netvars == <<up, age, since, asked, lost, heard>>

Knows(r, x) == age[r][x] < Flush
Database(r) == {x \in Networks : Knows(r, x)}

\* The database of a router that has just started.
InitialDatabase(r) == [x \in Networks |-> IF x \in Local[r] THEN 0 ELSE Flush]

\* Slip: a flood that does not reset the counter of a network already known.
SightedOnce(r, s) ==
  [x \in Networks |-> IF Knows(s, x) /\ ~Knows(r, x) THEN 0 ELSE age[r][x]]

\* Slip: only the networks the sender is attached to count as sighted, as a
\* flood with split horizon would have it.
SightedFromOwner(r, s) ==
  [x \in Networks |-> IF x \in Local[s] \/ (Knows(s, x) /\ ~Knows(r, x)) THEN 0 ELSE age[r][x]]

\* Slip: a network that is not in the database is not added.
SightedIfKnown(r, s) ==
  [x \in Networks |-> IF Knows(s, x) /\ Knows(r, x) THEN 0 ELSE age[r][x]]

\* HandleResponse at r for a flood of s: every network of s is sighted or added.
Sighted(r, s) == [x \in Networks |-> IF Knows(s, x) THEN 0 ELSE age[r][x]]

\* The routers in T get a flood of s.
Receives(T, s) ==
  /\ age' = [r \in Routers |-> IF r \in T THEN Sighted(r, s) ELSE age[r]]
  /\ heard' = [r \in Routers |-> [q \in Routers |->
                 IF r \in T /\ q = s THEN Database(s) ELSE heard[r][q]]]

\* The counter of a route after one more second; local routes do not count.
Aged(r, x) ==
  IF Knows(r, x) /\ r \in up /\ x \notin Local[r] THEN age[r][x] + 1 ELSE age[r][x]

-----------------------------------------------------------------------------
\* One second: every timer counts, and routes that reach Flush are removed.
Tick ==
  /\ asked = {}
  /\ \A s \in up : since[s] < Update
  /\ since' = [s \in Routers |-> IF s \in up THEN since[s] + 1 ELSE 0]
  /\ age' = [r \in Routers |-> [x \in Networks |-> Aged(r, x)]]
  /\ heard' = [r \in Routers |-> [s \in Routers |->
                 {x \in heard[r][s] : Aged(s, x) < Flush}]]
  /\ UNCHANGED <<up, asked, lost>>

\* The update timer of s; T are the routers its flood reaches.
SendFlood(s, T) ==
  /\ s \in up /\ since[s] = Update
  /\ \A r \in up \ (T \cup {s}) : lost[r][s] < MaxLost
  /\ Receives(T, s)
  /\ lost' = [r \in Routers |-> [q \in Routers |->
                IF q # s \/ r = s \/ r \notin up THEN lost[r][q]
                ELSE IF r \in T THEN 0 ELSE lost[r][s] + 1]]
  /\ since' = [since EXCEPT ![s] = 0]
  /\ UNCHANGED <<up, asked>>

\* HandleRequest: a request is answered with a flood.
HandleRequest(s, T) ==
  /\ s \in asked
  /\ asked' = asked \ {s}
  /\ Receives(T, s)
  /\ UNCHANGED <<up, since, lost>>

\* Initialize: a router starts with its own networks and sends a request,
\* which reaches the routers in T, and a flood, which it owes from the start.
Initialize(s, T) ==
  /\ s \notin up /\ since[s] = 0
  /\ up' = up \cup {s}
  /\ age' = [age EXCEPT ![s] = InitialDatabase(s)]
  /\ since' = [since EXCEPT ![s] = Update]
  /\ asked' = asked \cup T
  /\ UNCHANGED <<lost, heard>>

\* A router goes away, and with it all it has learned.  It does not come back
\* within the second.
Stop(s) ==
  /\ s \in up
  /\ up' = up \ {s}
  /\ age' = [age EXCEPT ![s] = [x \in Networks |-> Flush]]
  /\ asked' = asked \ {s}
  /\ lost' = [r \in Routers |-> [q \in Routers |-> IF s \in {r, q} THEN 0 ELSE lost[r][q]]]
  /\ heard' = [r \in Routers |-> [q \in Routers |-> IF s \in {r, q} THEN {} ELSE heard[r][q]]]
  /\ since' = [since EXCEPT ![s] = Update]

-----------------------------------------------------------------------------
NetInit ==
  /\ up = {}
  /\ age = [r \in Routers |-> [x \in Networks |-> Flush]]
  /\ since = [r \in Routers |-> 0]
  /\ asked = {}
  /\ lost = [r \in Routers |-> [s \in Routers |-> 0]]
  /\ heard = [r \in Routers |-> [s \in Routers |-> {}]]

NetNext ==
  \/ Tick
  \/ \E s \in Routers : \E T \in SUBSET (up \ {s}) :
       SendFlood(s, T) \/ HandleRequest(s, T) \/ Initialize(s, T)
  \/ \E s \in Routers : Stop(s)

NetSpec == NetInit /\ [][NetNext]_netvars

\* Each router's timer fires and its requests are answered; time passes,
\* however many routers start and stop.  Which floods arrive is open.
NetFairSpec ==
  /\ NetSpec
  /\ SF_netvars(Tick)
  /\ \A s \in Routers :
       /\ WF_netvars(\E T \in SUBSET (up \ {s}) : SendFlood(s, T))
       /\ WF_netvars(\E T \in SUBSET (up \ {s}) : HandleRequest(s, T))

-----------------------------------------------------------------------------
(* Properties *)

\* Every variable has its type, and no counter passes its limit.
NetTypeOK ==
  /\ up \subseteq Routers
  /\ age \in [Routers -> [Networks -> 0..Flush]]
  /\ since \in [Routers -> 0..Update]
  /\ asked \subseteq up
  /\ lost \in [Routers -> [Routers -> 0..MaxLost]]
  /\ heard \in [Routers -> [Routers -> SUBSET Networks]]

\* A router has every network a running neighbour has told it of and still
\* has itself: floods that come every Update seconds, MaxLost of them lost in
\* a row, leave no route time to count to Flush.
AdvertisedIsKnown ==
  \A r, s \in Routers : \A x \in heard[r][s] : Knows(r, x) /\ Knows(s, x)

\* Two routers that have told each other of a network never forget it while
\* both run, whether or not anyone is still attached to it: each takes the
\* other's flood of what it learned from it for a sighting.
EchoNeverDies ==
  [][\A r, s \in up' : \A x \in heard[r][s] \cap heard[s][r] :
       x \in heard'[r][s] \cap heard'[s][r]]_netvars

\* A router that stays alone forgets all but its own networks.
LoneRouterForgets ==
  \A r \in Routers : <>[](up = {r}) => <>[](Database(r) = Local[r])

\* Two routers that keep running learn each other's networks.
RoutesAreLearned ==
  \A r, s \in Routers : \A x \in Local[s] :
    r \in up /\ s \in up ~> Knows(r, x) \/ r \notin up \/ s \notin up

\* The databases settle: what a running neighbour is attached to is learned
\* through losses, restarts and stops of others, and what only echoes told of is
\* forgotten once no echo is left (RipModule.cs:95-208, RipRoute.cs:48-59).
RoutesSettle == RoutesAreLearned /\ LoneRouterForgets
=============================================================================
