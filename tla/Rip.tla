-------------------------------- MODULE Rip ---------------------------------
(***************************************************************************)
(* The RIP database of one router and the routing table it feeds:          *)
(* RipModule.cs, RipRoute.cs and the two subscriptions of SystemModule.cs  *)
(* (RouteDiscovered, RouteRemoved).                                        *)
(*                                                                         *)
(* Packets are handled one at a time (RoutingController.Begin holds a      *)
(* static lock), but every RipRoute has a one-second timer whose callback  *)
(* runs on a pool thread and takes no lock: it advances three counters,    *)
(* one after the other, and acts on each that has reached its interval;    *)
(* the last takes the route's network out of both tables.  The model       *)
(* interleaves the threads at each point where one can see another: the    *)
(* lookup, the comparison and the sighting of the handler; the read and    *)
(* the write of each counter (counter++), its second read (counter ==      *)
(* interval), and each action of a callback.                               *)
(*                                                                         *)
(* A System.Timers.Timer raises Elapsed whether or not the last callback   *)
(* has returned, so two callbacks of one route may be under way at once.   *)
(*                                                                         *)
(* A RipRoute is an object: its timer outlives its place in the database,  *)
(* because nothing ever stops it.  Only networks learned from others are   *)
(* modelled here: the callbacks return at once for a local route, whose    *)
(* metric, 1, no header undercuts.                                         *)
(***************************************************************************)
EXTENDS Naturals

CONSTANTS
  Networks,   \* the networks other routers advertise
  Routes,     \* the RipRoute objects: a bound on how many are in use at once
  Callbacks,  \* a bound on how many Elapsed callbacks of one timer are under way
  MaxLate,    \* a bound on how many seconds of a network begin too early for them
  None,       \* no route: a key a Map does not have
  MaskBits,   \* the mask lengths an advertisement may carry
  Metrics,    \* the metrics an advertisement may carry
  Flush, Invalid, Holddown,  \* the intervals of RipSection, in seconds
  Unreachable                \* the metric of a route that is no longer valid, 16

ASSUME RipAssumption ==
  /\ None \notin Routes
  /\ MaskBits \subseteq Nat
  /\ Unreachable \in Nat
  /\ Metrics \subseteq 1..Unreachable
  /\ MaxLate \in Nat
  /\ Flush \in Nat \ {0} /\ Invalid \in Nat \ {0} /\ Holddown \in Nat \ {0}

VARIABLES
  route,        \* the fields of every RipRoute object but its counters
  count,        \* its three counters
  callback,     \* how far the Elapsed callbacks of its timer have got
  counted,      \* the counter value such a callback has read and not yet written
  ripDatabase,  \* RipDatabase: the route of each network
  routeList,    \* RouteList, the routing table: the route of each network
  at,           \* how far HandleResponse has got with the header it is handling
  header,       \* that header
  seen,         \* its local variable: the route it found or created
  silent,       \* history: seconds since each network was created or last sighted
  overlapped,   \* history: the networks a packet and a timer have once met on
  late          \* history: the seconds that began on each network before the last was counted

timerVars == <<callback, counted>>
handlerVars == <<at, header, seen>>
rvars == <<route, count, timerVars, ripDatabase, routeList, handlerVars, silent, overlapped, late>>

\* A data section of a response; `own` says that its NextHop is its sender.
Header == [net : Networks, mask : MaskBits, metric : Metrics, own : BOOLEAN]
NoHeader == [net |-> None]

\* The three delegates on Elapsed, in the order of their subscription.
Timers == {"hold", "invalid", "gc"}
Interval(t) == CASE t = "hold" -> Holddown [] t = "invalid" -> Invalid [] OTHER -> Flush
NoCount == [t \in Timers |-> 0]

\* What a callback does next, and on which counter.
Stage == [does : {"Nothing", "Reads", "Writes", "Compares", "Acts", "Withdraws"}, timer : Timers]
On(t, what) == [does |-> what, timer |-> t]
Idle == On("gc", "Nothing")
NextTimer(t) == CASE t = "hold" -> On("invalid", "Reads") [] t = "invalid" -> On("gc", "Reads") [] OTHER -> Idle

\* The counters are compared with = and never stopped: beyond the largest
\* value that matters they are all alike.
Lesser(a, b) == IF a < b THEN a ELSE b
Next1(n, interval) == Lesser(n + 1, interval + 1)

\* An object not created yet.
Blank == [net |-> None, mask |-> 0, metric |-> Unreachable, accept |-> FALSE]

Busy(r) == \E c \in Callbacks : callback[r][c] # Idle

\* An object no table, no thread and no timer will come back to.
Forgotten(r) ==
  /\ count[r]["gc"] >= Flush
  /\ ~Busy(r)
  /\ seen # r
  /\ \A x \in Networks : ripDatabase[x] # r /\ routeList[x] # r
Fresh == CHOOSE r \in Routes : Forgotten(r)

\* A callback of a route to x is still under way.
Counting(x) == \E r \in Routes : Busy(r) /\ route[r].net = x

\* The handler is at a header for x meanwhile.
Overlaps(x) == at # "Idle" /\ header.net = x /\ Counting(x)

\* Part of every action: the history of such meetings.
Meets == overlapped' = overlapped \cup {x \in Networks : Overlaps(x)'}

-----------------------------------------------------------------------------
(* RipRoute *)

Create(h) == [net |-> h.net, mask |-> h.mask, metric |-> h.metric, accept |-> FALSE]

\* UpdateRipHeaderData.
UpdateRipHeaderData(r, h) == [r EXCEPT !.mask = h.mask, !.metric = h.metric]

\* Slip: a sighting that resets only the invalid counter.
SightedStillValid(n) == [n EXCEPT !["invalid"] = 0]

\* RaiseEvent(Sighted), of the counters n of the route.
Sighted(n) == [n EXCEPT !["invalid"] = 0, !["gc"] = 0]

\* BeginHoldDownTime: PotentialNewMetric is not recorded and stays 0.
BeginHoldDownTime(r) ==
  /\ route' = [route EXCEPT ![r].accept = FALSE]
  /\ count' = [count EXCEPT ![r]["hold"] = 0]

\* Slip: the potential metric is the one of the header that began the hold-down.
PotentialNewMetricKept(r, h) == h.metric
PotentialNewMetric(r, h) == 0

\* AcceptPotentialNewMetric.
AcceptPotentialNewMetric(r, h) ==
  /\ route' = [route EXCEPT ![r].metric = PotentialNewMetric(r, h)]
  /\ UNCHANGED count

\* What HandleResponse makes of a header that is no better than its route r.
Worse(r, h) ==
  IF h.metric = route[r].metric \/ ~h.own THEN UNCHANGED <<route, count>>
  ELSE IF route[r].accept /\ PotentialNewMetric(r, h) = h.metric
  THEN AcceptPotentialNewMetric(r, h)
  ELSE BeginHoldDownTime(r)

-----------------------------------------------------------------------------
(* SystemModule: the routing table.  No module assigns an administrative   *)
(* distance, so the one comparison left between two routes to a network is *)
(* the length of their masks.                                              *)

RouteDiscovered(r) ==
  LET x == route[r].net IN
  routeList' = [routeList EXCEPT ![x] =
                  IF @ = None \/ route[r].mask > route[@].mask THEN r ELSE @]

\* Slip: a subscription that does nothing.
RouteRemovedNever(x) == UNCHANGED routeList

RouteRemoved(x) == routeList' = [routeList EXCEPT ![x] = None]

-----------------------------------------------------------------------------
(* The packet thread: HandleResponse, one data section at a time *)

\* Bound: a header comes only when there is an object left to create.
ResponseArrives ==
  /\ at = "Idle"
  /\ \E r \in Routes : Forgotten(r)
  /\ \E h \in Header :
       /\ header' = h
       /\ at' = IF ripDatabase[h.net] = None THEN "Unknown" ELSE "Known"
  /\ UNCHANGED <<route, count, timerVars, ripDatabase, routeList, seen, silent, late>>
  /\ Meets

\* The network was there and is not any more: the handler ends in a null
\* reference, on a thread that nobody guards, and the process with it.
RouteIsGone ==
  /\ at \in {"Known", "Better"} /\ ripDatabase[header.net] = None
  /\ at' = "Down"
  /\ UNCHANGED <<route, count, timerVars, ripDatabase, routeList, header, seen, silent, late>>
  /\ Meets

\* A better metric is written to whatever a second lookup finds.
Compare ==
  /\ at = "Known" /\ ripDatabase[header.net] # None
  /\ LET r == ripDatabase[header.net] IN
       /\ seen' = r
       /\ \/ header.metric < route[r].metric /\ at' = "Better" /\ UNCHANGED <<route, count>>
          \/ ~(header.metric < route[r].metric) /\ at' = "Compared" /\ Worse(r, header)
  /\ UNCHANGED <<timerVars, ripDatabase, routeList, header, silent, late>>
  /\ Meets

Improve ==
  /\ at = "Better" /\ ripDatabase[header.net] # None
  /\ route' = [route EXCEPT ![ripDatabase[header.net]] = UpdateRipHeaderData(@, header)]
  /\ at' = "Compared"
  /\ UNCHANGED <<count, timerVars, ripDatabase, routeList, header, seen, silent, late>>
  /\ Meets

Sight ==
  /\ at = "Compared"
  /\ count' = [count EXCEPT ![seen] = Sighted(@)]
  /\ silent' = [silent EXCEPT ![header.net] = 0]
  /\ at' = "Idle" /\ header' = NoHeader /\ seen' = None
  /\ UNCHANGED <<route, timerVars, ripDatabase, routeList, late>>
  /\ Meets

AddRoute ==
  /\ at = "Unknown"
  /\ route' = [route EXCEPT ![Fresh] = Create(header)]
  /\ count' = [count EXCEPT ![Fresh] = NoCount]
  /\ ripDatabase' = [ripDatabase EXCEPT ![header.net] = Fresh]
  /\ seen' = Fresh
  /\ silent' = [silent EXCEPT ![header.net] = 0]
  /\ at' = "Added"
  /\ UNCHANGED <<timerVars, routeList, header, late>>
  /\ Meets

RegisterRoute ==
  /\ at = "Added"
  /\ RouteDiscovered(seen)
  /\ at' = "Idle" /\ header' = NoHeader /\ seen' = None
  /\ UNCHANGED <<route, count, timerVars, ripDatabase, silent, late>>
  /\ Meets

-----------------------------------------------------------------------------
(* The timers.  A second may begin before the callbacks of the last one    *)
(* are through, but not within a header: one that did would be no          *)
(* different from one that begins just before the header and whose         *)
(* callbacks wait for a thread of the pool.                                *)

\* Bounds: a timer has a callback to spare for the second that begins, and there
\* have been fewer than MaxLate such seconds.
Second ==
  /\ at = "Idle"
  /\ \A r \in Routes : ~Forgotten(r) => \E c \in Callbacks : callback[r][c] = Idle
  /\ \A x \in Networks : Counting(x) => late[x] < MaxLate
  /\ callback' = [r \in Routes |->
       IF Forgotten(r) THEN callback[r]
       ELSE [callback[r] EXCEPT ![CHOOSE c \in Callbacks : callback[r][c] = Idle] = On("hold", "Reads")]]
  /\ silent' = [x \in Networks |-> Next1(silent[x], Flush + Invalid)]
  /\ late' = [x \in Networks |-> IF Counting(x) THEN late[x] + 1 ELSE late[x]]
  /\ UNCHANGED <<route, count, counted, ripDatabase, routeList, handlerVars>>
  /\ Meets

Goes(r, c, stage) == callback' = [callback EXCEPT ![r][c] = stage]

\* counter++ reads the counter and writes it,
Reads(r, c) ==
  LET t == callback[r][c].timer IN
  /\ callback[r][c].does = "Reads"
  /\ counted' = [counted EXCEPT ![r][c] = count[r][t]]
  /\ Goes(r, c, On(t, "Writes"))
  /\ UNCHANGED <<route, count, ripDatabase, routeList, handlerVars, silent, late>>
  /\ Meets

Writes(r, c) ==
  LET t == callback[r][c].timer IN
  /\ callback[r][c].does = "Writes"
  /\ count' = [count EXCEPT ![r][t] = Next1(counted[r][c], Interval(t))]
  /\ counted' = [counted EXCEPT ![r][c] = 0]
  /\ Goes(r, c, On(t, "Compares"))
  /\ UNCHANGED <<route, ripDatabase, routeList, handlerVars, silent, late>>
  /\ Meets

\* Slip: the interval has to be exceeded.
DueLate(n, t) == n > Interval(t)
Due(n, t) == n = Interval(t)

\* and the comparison reads it again.
Compares(r, c) ==
  LET t == callback[r][c].timer IN
  /\ callback[r][c].does = "Compares"
  /\ Goes(r, c, IF Due(count[r][t], t) THEN On(t, "Acts") ELSE NextTimer(t))
  /\ UNCHANGED <<route, count, counted, ripDatabase, routeList, handlerVars, silent, late>>
  /\ Meets

\* The hold-down and the invalid interval are over.
Marks(r, c) ==
  /\ callback[r][c].does = "Acts"
  /\ \/ callback[r][c].timer = "hold" /\ route' = [route EXCEPT ![r].accept = TRUE]
     \/ callback[r][c].timer = "invalid" /\ route' = [route EXCEPT ![r].metric = Unreachable]
  /\ Goes(r, c, NextTimer(callback[r][c].timer))
  /\ UNCHANGED <<count, counted, ripDatabase, routeList, handlerVars, silent, late>>
  /\ Meets

\* The GCCollect handler removes by network: whichever route has it.
Collect(r, c) ==
  /\ callback[r][c] = On("gc", "Acts")
  /\ ripDatabase' = [ripDatabase EXCEPT ![route[r].net] = None]
  /\ Goes(r, c, On("gc", "Withdraws"))
  /\ UNCHANGED <<route, count, counted, routeList, handlerVars, silent, late>>
  /\ Meets

Withdraw(r, c) ==
  /\ callback[r][c] = On("gc", "Withdraws")
  /\ RouteRemoved(route[r].net)
  /\ Goes(r, c, Idle)
  /\ UNCHANGED <<route, count, counted, ripDatabase, handlerVars, silent, late>>
  /\ Meets

-----------------------------------------------------------------------------
RInit ==
  /\ route = [r \in Routes |-> Blank]
  /\ count = [r \in Routes |-> [NoCount EXCEPT !["gc"] = Flush + 1]]
  /\ callback = [r \in Routes |-> [c \in Callbacks |-> Idle]]
  /\ counted = [r \in Routes |-> [c \in Callbacks |-> 0]]
  /\ ripDatabase = [x \in Networks |-> None]
  /\ routeList = [x \in Networks |-> None]
  /\ at = "Idle" /\ header = NoHeader /\ seen = None
  /\ silent = [x \in Networks |-> 0]
  /\ overlapped = {} /\ late = [x \in Networks |-> 0]

Handles ==
  ResponseArrives \/ RouteIsGone \/ Compare \/ Improve \/ Sight \/ AddRoute \/ RegisterRoute
Elapses(r, c) ==
  Reads(r, c) \/ Writes(r, c) \/ Compares(r, c) \/ Marks(r, c) \/ Collect(r, c) \/ Withdraw(r, c)

RNext == Handles \/ Second \/ (at # "Down" /\ \E r \in Routes, c \in Callbacks : Elapses(r, c))

RSpec == RInit /\ [][RNext]_rvars

-----------------------------------------------------------------------------
(* Properties *)

RouteRecord == [net : Networks, mask : MaskBits, metric : 1..Unreachable, accept : BOOLEAN]

\* Every field has its type, and the two tables file a route under its network.
RTypeOK ==
  /\ route \in [Routes -> RouteRecord \cup {Blank}]
  /\ count \in [Routes -> [Timers -> Nat]]
  /\ callback \in [Routes -> [Callbacks -> Stage]]
  /\ counted \in [Routes -> [Callbacks -> Nat]]
  /\ at \in {"Idle", "Known", "Unknown", "Better", "Compared", "Added", "Down"}
  /\ header \in Header \cup {NoHeader}
  /\ seen \in Routes \cup {None}
  /\ \A table \in {ripDatabase, routeList} : \A x \in Networks :
       table[x] # None => table[x] \in Routes /\ route[table[x]].net = x

\* A route that has been sighted within the flush interval keeps its place in
\* the database, unless on its network a packet has met a callback (HandleResponse
\* takes no lock the callbacks of RipRoute take) or one second the next.
KeptWhileSighted ==
  [][\A x \in Networks \ overlapped' :
       ripDatabase[x] # None /\ ripDatabase'[x] = None /\ late[x] = 0 => silent[x] >= Flush]_rvars

\* However late the callbacks, between two packets and two callbacks the routing
\* table has exactly the routes of the database, unless the two have met on the
\* network: a removal that starts before and ends after a route is added takes it
\* from the routing table alone.
RibAgreesAtRest ==
  \A x \in Networks \ overlapped :
    at = "Idle" /\ (\A r \in Routes : ~Busy(r)) => routeList[x] = ripDatabase[x]

\* However packets and callbacks interleave, the timer of a route in the
\* routing table has still to count to Flush or is about to find that it has, or
\* to withdraw it: nothing is left there that no timer would remove.  Only where
\* two callbacks of one timer run at once can a counter step over Flush between
\* its increment and its comparison, and the entry stay for good.
RibEntryExpires ==
  \A x \in Networks :
    LET r == routeList[x] IN
    r # None /\ late[x] = 0 =>
      \/ count[r]["gc"] < Flush
      \/ \E c \in Callbacks :
           \/ callback[r][c] = On("gc", "Compares") /\ count[r]["gc"] = Flush
           \/ callback[r][c] \in {On("gc", "Acts"), On("gc", "Withdraws")}

\* The metric of a route in use rises only to Unreachable, and there only when
\* its invalid interval has passed without a sighting, unless packets or seconds
\* have met on its network: a worse metric from the route's own next hop begins a
\* hold-down, and no hold-down is ever followed by its acceptance.
WorseMetricIsHeldDown ==
  [][\A x \in Networks :
       LET r == ripDatabase[x] IN
       r # None /\ ripDatabase'[x] = r /\ route'[r].metric > route[r].metric
         => /\ route'[r].metric = Unreachable
            /\ x \notin overlapped' /\ late[x] = 0 => silent[x] >= Invalid]_rvars
=============================================================================
