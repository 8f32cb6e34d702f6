------------------------------ MODULE RipProofs ------------------------------
(***************************************************************************)
(* The two tables of a RIP router against its timers, for every number of  *)
(* networks, RipRoute objects and callbacks and every choice of the        *)
(* intervals.                                                              *)
(*                                                                         *)
(* The inductive invariants, one on top of the other: the types, and where *)
(* the handler is (HandlerInv); for the networks whose seconds are counted *)
(* in time, that every entry of a table has a timer still to run out       *)
(* (EntryInv); for those that no packet has met a callback on, that the    *)
(* tables agree (AgreeInv); and, where both hold, that only the object in  *)
(* the database counts, and no further than the network is silent          *)
(* (CalmInv).                                                              *)
(***************************************************************************)
EXTENDS Rip, TLAPS

-----------------------------------------------------------------------------
(* The inductive invariants.  *)

\* Only objects that have been created can still be touched.
Types ==
  /\ RTypeOK
  /\ silent \in [Networks -> Nat] /\ late \in [Networks -> Nat]
  /\ ripDatabase \in [Networks -> Routes \cup {None}]
  /\ routeList \in [Networks -> Routes \cup {None}]
  /\ \A r \in Routes : ~Forgotten(r) => route[r] \in RouteRecord
  /\ \A r \in Routes, t \in Timers : count[r][t] <= Interval(t) + 1

\* Where the handler is, and what it holds there.
HandlerInv ==
  /\ at # "Idle" => header \in Header
  /\ at \in {"Idle", "Known", "Unknown"} => seen = None
  /\ at \in {"Better", "Compared", "Added"} => seen \in Routes /\ route[seen].net = header.net
  /\ at = "Unknown" => ripDatabase[header.net] = None /\ \E r \in Routes : Forgotten(r)
  /\ at = "Better" =>
       ripDatabase[header.net] \in {None, seen} /\ header.metric < route[seen].metric
  /\ at = "Added" => count[seen]["gc"] = 0 /\ ~Busy(seen)

RipInv == Types /\ HandlerInv

\* At most one callback of a route to x is under way.
Single(x) ==
  \A r \in Routes : route[r].net = x =>
    \A c, d \in Callbacks : callback[r][c] # Idle /\ callback[r][d] # Idle => c = d

\* The timer of an object in a table has not counted to Flush, is about to find
\* that it has, or to take the object from there, and the count it has read, if
\* any, is short of Flush.
Expires(r, last) ==
  /\ \/ count[r]["gc"] < Flush
     \/ \E c \in Callbacks : \/ callback[r][c] = On("gc", "Compares") /\ count[r]["gc"] = Flush
                             \/ callback[r][c] \in last
  /\ \A c \in Callbacks : callback[r][c] = On("gc", "Writes") => counted[r][c] < Flush

Collecting == {On("gc", "Acts")}
Removing == {On("gc", "Acts"), On("gc", "Withdraws")}

Entries(x) ==
  /\ ripDatabase[x] # None => Expires(ripDatabase[x], Collecting)
  /\ routeList[x] # None => Expires(routeList[x], Removing)

EntryInv == \A x \in Networks : late[x] = 0 => Single(x) /\ Entries(x)

\* No callback of the network runs while the handler is at a header for it.
Held(x) ==
  at # "Idle" /\ header.net = x =>
    /\ \A r \in Routes : route[r].net = x => ~Busy(r)
    /\ at \in {"Better", "Compared", "Added"} => ripDatabase[x] = seen
    /\ at = "Added" => routeList[x] = None

Withdrawing(x) ==
  \E r \in Routes, c \in Callbacks : callback[r][c] = On("gc", "Withdraws") /\ route[r].net = x

Agrees(x) ==
  /\ routeList[x] = ripDatabase[x] \/ (at = "Added" /\ header.net = x) \/ Withdrawing(x)
  /\ Withdrawing(x) => ripDatabase[x] = None

AgreeInv == \A x \in Networks \ overlapped : Held(x) /\ Agrees(x)

\* No object but the one in the database counts for network x.
Alone(x) ==
  \A r \in Routes : route[r].net = x =>
    /\ count[r]["gc"] < Flush \/ Busy(r) =>
         ripDatabase[x] = r \/ \E c \in Callbacks : callback[r][c] = On("gc", "Withdraws")
    /\ \A c \in Callbacks : callback[r][c] \in Removing => count[r]["gc"] = Flush

\* A callback that has still to write counter t.
Before(stage, t) == stage = On(t, "Reads") \/ stage.timer = "hold" \/ (t = "gc" /\ stage.timer = "invalid")

\* Neither counter of that object has counted further than x has been silent.
Timely(x) ==
  LET r == ripDatabase[x] IN
  r # None =>
    \A t \in {"invalid", "gc"} :
      /\ count[r][t] <= silent[x]
      /\ \A c \in Callbacks :
           /\ Before(callback[r][c], t) => count[r][t] < silent[x]
           /\ callback[r][c] = On(t, "Writes") => counted[r][c] < silent[x]
           /\ callback[r][c] = On("invalid", "Acts") => Invalid <= silent[x]

CalmInv == \A x \in Networks \ overlapped : late[x] = 0 => Alone(x) /\ Timely(x)

-----------------------------------------------------------------------------
(* The counters and the fields of a route.  *)

LEMMA CountType ==
  ASSUME NEW n \in Nat, NEW i \in Nat
  PROVE  /\ Next1(n, i) \in Nat /\ Next1(n, i) <= i + 1 /\ Next1(n, i) <= n + 1
         /\ n < i => Next1(n, i) = n + 1
         /\ n >= i => Next1(n, i) = i + 1
BY DEF Next1, Lesser

LEMMA Intervals ==
  /\ Flush \in Nat /\ Flush > 0 /\ Invalid \in Nat /\ Invalid > 0
  /\ Holddown \in Nat /\ Holddown > 0
  /\ \A t \in Timers : Interval(t) \in Nat
  /\ Interval("gc") = Flush /\ Interval("invalid") = Invalid
BY RipAssumption DEF Timers, Interval

LEMMA Stages ==
  /\ Idle \in Stage
  /\ \A t \in Timers : /\ NextTimer(t) \in Stage
                       /\ On(t, "Reads") \in Stage /\ On(t, "Writes") \in Stage
                       /\ On(t, "Compares") \in Stage /\ On(t, "Acts") \in Stage
  /\ On("gc", "Withdraws") \in Stage
  /\ \A t \in Timers : NextTimer(t) = Idle \/ NextTimer(t).does = "Reads"
  /\ NextTimer("hold") = On("invalid", "Reads") /\ NextTimer("invalid") = On("gc", "Reads")
  /\ NextTimer("gc") = Idle
BY DEF Stage, Timers, NextTimer, On, Idle

LEMMA HeaderFields ==
  ASSUME NEW h \in Header
  PROVE  /\ h.net \in Networks /\ h.mask \in MaskBits
         /\ h.metric \in 1..Unreachable /\ h.metric # 0
<1>1. h.net \in Networks /\ h.mask \in MaskBits /\ h.metric \in Metrics
  BY DEF Header
<1>2. h.metric \in 1..Unreachable
  BY <1>1, RipAssumption
<1>3. QED
  BY <1>1, <1>2, RipAssumption

LEMMA CreateType ==
  ASSUME NEW h \in Header
  PROVE  Create(h) \in RouteRecord /\ Create(h).net = h.net
BY Intervals, HeaderFields DEF Create, RouteRecord

LEMMA UpdateType ==
  ASSUME NEW r \in RouteRecord, NEW h \in Header
  PROVE  /\ UpdateRipHeaderData(r, h) \in RouteRecord
         /\ UpdateRipHeaderData(r, h).net = r.net
         /\ UpdateRipHeaderData(r, h).metric = h.metric
BY HeaderFields DEF UpdateRipHeaderData, RouteRecord

LEMMA SightedType ==
  ASSUME NEW n \in [Timers -> Nat]
  PROVE  /\ Sighted(n) \in [Timers -> Nat]
         /\ Sighted(n)["gc"] = 0 /\ Sighted(n)["invalid"] = 0 /\ Sighted(n)["hold"] = n["hold"]
BY DEF Sighted, Timers

-----------------------------------------------------------------------------
(* Types. *)

\* What a table holds for a network is an object of that network.
LEMMA EntryObject ==
  ASSUME Types, NEW x \in Networks
  PROVE  /\ ripDatabase[x] # None => ripDatabase[x] \in Routes /\ route[ripDatabase[x]].net = x
         /\ routeList[x] # None => routeList[x] \in Routes /\ route[routeList[x]].net = x
BY DEF Types, RTypeOK

\* The objects that a table, a thread or a timer holds have been created.
LEMMA HeldIsMade ==
  ASSUME Types, NEW r \in Routes,
         \/ count[r]["gc"] < Flush \/ Busy(r) \/ seen = r
         \/ \E x \in Networks : ripDatabase[x] = r \/ routeList[x] = r
  PROVE  route[r] \in RouteRecord /\ ~Forgotten(r)
<1>1. count[r]["gc"] \in Nat
  BY DEF Types, RTypeOK, Timers
<1>2. ~Forgotten(r)
  BY <1>1, RipAssumption DEF Forgotten
<1>3. QED
  BY <1>2 DEF Types

LEMMA TypesStep ==
  ASSUME Types,
         route' \in [Routes -> RouteRecord \cup {Blank}],
         \A r \in Routes : \/ route'[r] = route[r]
                           \/ route'[r] \in RouteRecord /\ route'[r].net = route[r].net,
         count' \in [Routes -> [Timers -> Nat]],
         \A r \in Routes, t \in Timers : count'[r][t] <= Interval(t) + 1,
         callback' \in [Routes -> [Callbacks -> Stage]],
         counted' \in [Routes -> [Callbacks -> Nat]],
         at' \in {"Idle", "Known", "Unknown", "Better", "Compared", "Added", "Down"},
         header' \in Header \cup {NoHeader}, seen' \in Routes \cup {None},
         silent' \in [Networks -> Nat], late' \in [Networks -> Nat],
         ripDatabase' \in [Networks -> Routes \cup {None}],
         routeList' \in [Networks -> Routes \cup {None}],
         \A x \in Networks : /\ ripDatabase'[x] \in {None, ripDatabase[x]}
                             /\ routeList'[x] \in {None, routeList[x]},
         \A r \in Routes : Forgotten(r) =>
           count'[r]["gc"] >= Flush /\ ~Busy(r)' /\ seen' # r
  PROVE  Types'
<1>1. \A r \in Routes : route'[r].net = route[r].net
  OBVIOUS
<1>2. RTypeOK'
  <2>1. ASSUME NEW x \in Networks, ripDatabase'[x] # None
        PROVE  ripDatabase'[x] \in Routes /\ route'[ripDatabase'[x]].net = x
    <3>1. ripDatabase'[x] = ripDatabase[x]
      BY <2>1
    <3>2. QED
      BY <1>1, <2>1, <3>1, EntryObject
  <2>2. ASSUME NEW x \in Networks, routeList'[x] # None
        PROVE  routeList'[x] \in Routes /\ route'[routeList'[x]].net = x
    <3>1. routeList'[x] = routeList[x]
      BY <2>2
    <3>2. QED
      BY <1>1, <2>2, <3>1, EntryObject
  <2>3. QED
    BY <2>1, <2>2 DEF RTypeOK
<1>3. ASSUME NEW r \in Routes, ~Forgotten(r)' PROVE route'[r] \in RouteRecord
  <2>1. ~Forgotten(r)
    BY <1>3, RipAssumption DEF Forgotten
  <2>2. QED
    BY <2>1 DEF Types
<1>4. QED
  BY <1>2, <1>3 DEF Types

\* One object is written to.
LEMMA OneWritten ==
  ASSUME Types, NEW r \in Routes, NEW new \in RouteRecord, new.net = route[r].net,
         route' = [route EXCEPT ![r] = new]
  PROVE  /\ route' \in [Routes -> RouteRecord \cup {Blank}]
         /\ route'[r] = new
         /\ \A k \in Routes : \/ route'[k] = route[k]
                              \/ route'[k] \in RouteRecord /\ route'[k].net = route[k].net
         /\ \A k \in Routes \ {r} : route'[k] = route[k]
         /\ \A k \in Routes : route'[k].net = route[k].net
<1>1. route \in [Routes -> RouteRecord \cup {Blank}]
  BY DEF Types, RTypeOK
<1>2. QED
  BY <1>1

\* One counter is written to.
LEMMA OneCounted ==
  ASSUME Types, NEW r \in Routes, NEW t \in Timers, NEW n \in Nat, n <= Interval(t) + 1,
         count' = [count EXCEPT ![r][t] = n]
  PROVE  /\ count' \in [Routes -> [Timers -> Nat]]
         /\ count'[r][t] = n
         /\ \A k \in Routes \ {r} : count'[k] = count[k]
         /\ \A u \in Timers \ {t} : count'[r][u] = count[r][u]
         /\ \A k \in Routes, u \in Timers : count'[k][u] <= Interval(u) + 1
<1>1. count \in [Routes -> [Timers -> Nat]]
  BY DEF Types, RTypeOK
<1>2. /\ count' \in [Routes -> [Timers -> Nat]] /\ count'[r][t] = n
      /\ \A k \in Routes \ {r} : count'[k] = count[k]
      /\ \A u \in Timers \ {t} : count'[r][u] = count[r][u]
  BY <1>1
<1>3. ASSUME NEW k \in Routes, NEW u \in Timers PROVE count'[k][u] <= Interval(u) + 1
  <2>1. count'[k][u] = count[k][u] \/ (k = r /\ u = t)
    BY <1>2
  <2>2. count[k][u] <= Interval(u) + 1
    BY DEF Types
  <2>3. QED
    BY <1>2, <2>1, <2>2
<1>4. QED
  BY <1>2, <1>3

\* What is known when the handler is at a header.
LEMMA AtHeader ==
  ASSUME Types, HandlerInv, at # "Idle"
  PROVE  /\ header \in Header /\ header.net \in Networks /\ header \in Header \cup {NoHeader}
         /\ ripDatabase[header.net] # None =>
              /\ ripDatabase[header.net] \in Routes
              /\ route[ripDatabase[header.net]] \in RouteRecord
              /\ route[ripDatabase[header.net]].net = header.net
              /\ ~Forgotten(ripDatabase[header.net])
         /\ at \in {"Better", "Compared", "Added"} =>
              /\ seen \in Routes /\ route[seen] \in RouteRecord /\ route[seen].net = header.net
              /\ ~Forgotten(seen)
<1>1. header \in Header /\ header.net \in Networks
  BY HeaderFields DEF HandlerInv
<1>2. ASSUME ripDatabase[header.net] # None
      PROVE  /\ ripDatabase[header.net] \in Routes
             /\ route[ripDatabase[header.net]] \in RouteRecord
             /\ route[ripDatabase[header.net]].net = header.net
             /\ ~Forgotten(ripDatabase[header.net])
  BY <1>1, <1>2, HeldIsMade DEF Types, RTypeOK
<1>3. ASSUME at \in {"Better", "Compared", "Added"}
      PROVE  /\ seen \in Routes /\ route[seen] \in RouteRecord /\ route[seen].net = header.net
             /\ ~Forgotten(seen)
  BY <1>3, HeldIsMade DEF HandlerInv
<1>4. QED
  BY <1>1, <1>2, <1>3

LEMMA FreshIsForgotten ==
  ASSUME \E r \in Routes : Forgotten(r)
  PROVE  Fresh \in Routes /\ Forgotten(Fresh)
BY DEF Fresh

-----------------------------------------------------------------------------
(* What the steps of a callback do. *)

NetsKept == \A r \in Routes : route'[r].net = route[r].net
KeptBut(r) == \A k \in Routes \ {r} : route'[k] = route[k] /\ count'[k] = count[k]
\* A timer's step leaves the callbacks of other timers and its own others alone.
SlotsKept(r, c) ==
  /\ \A k \in Routes \ {r} : callback'[k] = callback[k] /\ counted'[k] = counted[k]
  /\ \A d \in Callbacks \ {c} : callback'[r][d] = callback[r][d] /\ counted'[r][d] = counted[r][d]

LEMMA GoesTo ==
  ASSUME Types, NEW r \in Routes, NEW c \in Callbacks, NEW s \in Stage, Goes(r, c, s)
  PROVE  /\ callback' \in [Routes -> [Callbacks -> Stage]]
         /\ callback'[r][c] = s
         /\ \A k \in Routes \ {r} : callback'[k] = callback[k]
         /\ \A d \in Callbacks \ {c} : callback'[r][d] = callback[r][d]
<1>1. callback \in [Routes -> [Callbacks -> Stage]]
  BY DEF Types, RTypeOK
<1>2. QED
  BY <1>1 DEF Goes

LEMMA OneHeld ==
  ASSUME Types, NEW r \in Routes, NEW c \in Callbacks, NEW n \in Nat,
         counted' = [counted EXCEPT ![r][c] = n]
  PROVE  /\ counted' \in [Routes -> [Callbacks -> Nat]]
         /\ counted'[r][c] = n
         /\ \A k \in Routes \ {r} : counted'[k] = counted[k]
         /\ \A d \in Callbacks \ {c} : counted'[r][d] = counted[r][d]
<1>1. counted \in [Routes -> [Callbacks -> Nat]]
  BY DEF Types, RTypeOK
<1>2. QED
  BY <1>1

\* The types of a callback and of the counters it works on.
LEMMA StageType ==
  ASSUME Types, NEW r \in Routes, NEW c \in Callbacks
  PROVE  /\ callback[r][c] \in Stage /\ callback[r][c].timer \in Timers
         /\ counted[r][c] \in Nat
         /\ \A t \in Timers : count[r][t] \in Nat /\ count[r][t] <= Interval(t) + 1
         /\ callback[r][c].does # "Nothing" => callback[r][c] # Idle
         /\ callback[r][c] # Idle => Busy(r)
<1>1. callback[r][c] \in Stage /\ counted[r][c] \in Nat
      /\ \A t \in Timers : count[r][t] \in Nat /\ count[r][t] <= Interval(t) + 1
  BY DEF Types, RTypeOK
<1>2. callback[r][c].timer \in Timers
  BY <1>1 DEF Stage
<1>3. callback[r][c].does # "Nothing" => callback[r][c] # Idle
  BY DEF Idle, On
<1>4. QED
  BY <1>1, <1>2, <1>3 DEF Busy

LEMMA ReadsDoes ==
  ASSUME Types, NEW r \in Routes, NEW c \in Callbacks, Reads(r, c)
  PROVE  \E t \in Timers :
           /\ callback[r][c] = On(t, "Reads") /\ callback'[r][c] = On(t, "Writes")
           /\ counted'[r][c] = count[r][t] /\ SlotsKept(r, c)
           /\ callback' \in [Routes -> [Callbacks -> Stage]]
           /\ counted' \in [Routes -> [Callbacks -> Nat]]
           /\ UNCHANGED <<route, count, ripDatabase, routeList, at, header, seen, silent, late>>
<1> DEFINE t == callback[r][c].timer
<1>1. /\ t \in Timers /\ callback[r][c] = On(t, "Reads") /\ count[r][t] \in Nat
  BY StageType DEF Reads, Stage, On
<1>2. /\ counted' = [counted EXCEPT ![r][c] = count[r][t]] /\ Goes(r, c, On(t, "Writes"))
      /\ UNCHANGED <<route, count, ripDatabase, routeList, at, header, seen, silent, late>>
  BY DEF Reads, handlerVars
<1> HIDE DEF t
<1>3. On(t, "Writes") \in Stage
  BY <1>1, Stages
<1>4. /\ callback' \in [Routes -> [Callbacks -> Stage]] /\ callback'[r][c] = On(t, "Writes")
      /\ \A k \in Routes \ {r} : callback'[k] = callback[k]
      /\ \A d \in Callbacks \ {c} : callback'[r][d] = callback[r][d]
  BY <1>2, <1>3, GoesTo
<1>5. /\ counted' \in [Routes -> [Callbacks -> Nat]] /\ counted'[r][c] = count[r][t]
      /\ \A k \in Routes \ {r} : counted'[k] = counted[k]
      /\ \A d \in Callbacks \ {c} : counted'[r][d] = counted[r][d]
  BY <1>1, <1>2, OneHeld
<1>6. QED
  BY <1>1, <1>2, <1>4, <1>5 DEF SlotsKept

LEMMA WritesDoes ==
  ASSUME Types, NEW r \in Routes, NEW c \in Callbacks, Writes(r, c)
  PROVE  \E t \in Timers :
           /\ callback[r][c] = On(t, "Writes") /\ callback'[r][c] = On(t, "Compares")
           /\ count'[r][t] = Next1(counted[r][c], Interval(t)) /\ counted'[r][c] = 0
           /\ \A u \in Timers \ {t} : count'[r][u] = count[r][u]
           /\ \A k \in Routes \ {r} : count'[k] = count[k]
           /\ \A k \in Routes, u \in Timers : count'[k][u] <= Interval(u) + 1
           /\ SlotsKept(r, c)
           /\ count' \in [Routes -> [Timers -> Nat]]
           /\ callback' \in [Routes -> [Callbacks -> Stage]]
           /\ counted' \in [Routes -> [Callbacks -> Nat]]
           /\ UNCHANGED <<route, ripDatabase, routeList, at, header, seen, silent, late>>
<1> DEFINE t == callback[r][c].timer
           n == Next1(counted[r][c], Interval(t))
<1>1. /\ t \in Timers /\ callback[r][c] = On(t, "Writes") /\ n \in Nat /\ n <= Interval(t) + 1
  <2>1. t \in Timers /\ counted[r][c] \in Nat /\ callback[r][c] = On(t, "Writes")
    BY StageType DEF Writes, Stage, On
  <2>2. QED
    BY <2>1, CountType, Intervals
<1>2. /\ count' = [count EXCEPT ![r][t] = n] /\ counted' = [counted EXCEPT ![r][c] = 0]
      /\ Goes(r, c, On(t, "Compares"))
      /\ UNCHANGED <<route, ripDatabase, routeList, at, header, seen, silent, late>>
  BY DEF Writes, handlerVars
<1> HIDE DEF t, n
<1>3. On(t, "Compares") \in Stage
  BY <1>1, Stages
<1>4. /\ callback' \in [Routes -> [Callbacks -> Stage]] /\ callback'[r][c] = On(t, "Compares")
      /\ \A k \in Routes \ {r} : callback'[k] = callback[k]
      /\ \A d \in Callbacks \ {c} : callback'[r][d] = callback[r][d]
  BY <1>2, <1>3, GoesTo
<1>5. /\ counted' \in [Routes -> [Callbacks -> Nat]] /\ counted'[r][c] = 0
      /\ \A k \in Routes \ {r} : counted'[k] = counted[k]
      /\ \A d \in Callbacks \ {c} : counted'[r][d] = counted[r][d]
  BY <1>1, <1>2, OneHeld
<1>6. /\ count' \in [Routes -> [Timers -> Nat]] /\ count'[r][t] = n
      /\ \A k \in Routes \ {r} : count'[k] = count[k]
      /\ \A u \in Timers \ {t} : count'[r][u] = count[r][u]
      /\ \A k \in Routes, u \in Timers : count'[k][u] <= Interval(u) + 1
  BY <1>1, <1>2, OneCounted
<1>7. QED
  BY <1>1, <1>2, <1>4, <1>5, <1>6 DEF SlotsKept, n

LEMMA ComparesDoes ==
  ASSUME Types, NEW r \in Routes, NEW c \in Callbacks, Compares(r, c)
  PROVE  \E t \in Timers :
           /\ callback[r][c] = On(t, "Compares")
           /\ callback'[r][c] = IF count[r][t] = Interval(t) THEN On(t, "Acts") ELSE NextTimer(t)
           /\ SlotsKept(r, c)
           /\ callback' \in [Routes -> [Callbacks -> Stage]]
           /\ UNCHANGED <<route, count, counted, ripDatabase, routeList, at, header, seen, silent, late>>
<1> DEFINE t == callback[r][c].timer
           s == IF count[r][t] = Interval(t) THEN On(t, "Acts") ELSE NextTimer(t)
<1>1. t \in Timers /\ callback[r][c] = On(t, "Compares")
  BY StageType DEF Compares, Stage, On
<1>2. /\ Goes(r, c, s)
      /\ UNCHANGED <<route, count, counted, ripDatabase, routeList, at, header, seen, silent, late>>
  BY DEF Compares, Due, handlerVars
<1>3. s \in Stage
  BY <1>1, Stages
<1> HIDE DEF t, s
<1>4. /\ callback' \in [Routes -> [Callbacks -> Stage]] /\ callback'[r][c] = s
      /\ \A k \in Routes \ {r} : callback'[k] = callback[k]
      /\ \A d \in Callbacks \ {c} : callback'[r][d] = callback[r][d]
  BY <1>2, <1>3, GoesTo
<1>5. QED
  BY <1>1, <1>2, <1>4 DEF SlotsKept, s

LEMMA MarksDoes ==
  ASSUME Types, NEW r \in Routes, NEW c \in Callbacks, Marks(r, c)
  PROVE  \E t \in {"hold", "invalid"} :
           /\ callback[r][c] = On(t, "Acts") /\ callback'[r][c] = NextTimer(t)
           /\ SlotsKept(r, c)
           /\ \A k \in Routes \ {r} : route'[k] = route[k]
           /\ \A k \in Routes : \/ route'[k] = route[k]
                                \/ route'[k] \in RouteRecord /\ route'[k].net = route[k].net
           /\ route' \in [Routes -> RouteRecord \cup {Blank}]
           /\ \/ route'[r].metric = route[r].metric
              \/ route'[r].metric = Unreachable /\ t = "invalid"
           /\ callback' \in [Routes -> [Callbacks -> Stage]]
           /\ UNCHANGED <<count, counted, ripDatabase, routeList, at, header, seen, silent, late>>
<1> DEFINE t == callback[r][c].timer
           new == IF t = "hold" THEN [route[r] EXCEPT !.accept = TRUE]
                                ELSE [route[r] EXCEPT !.metric = Unreachable]
<1>1. t \in {"hold", "invalid"} /\ t \in Timers /\ callback[r][c] = On(t, "Acts") /\ Busy(r)
  <2>1. callback[r][c].does = "Acts" /\ t \in {"hold", "invalid"}
    BY DEF Marks
  <2>2. callback[r][c] \in Stage /\ Busy(r)
    BY <2>1, StageType
  <2>3. QED
    BY <2>1, <2>2 DEF Stage, On
<1>2. /\ Goes(r, c, NextTimer(t))
      /\ UNCHANGED <<count, counted, ripDatabase, routeList, at, header, seen, silent, late>>
  BY DEF Marks, handlerVars
<1>3. route[r] \in RouteRecord
  BY <1>1, HeldIsMade
<1>4. /\ new \in RouteRecord /\ new.net = route[r].net
      /\ new.metric = route[r].metric \/ (new.metric = Unreachable /\ t = "invalid")
  <2>1. Unreachable \in 1..Unreachable
    BY <1>3, RipAssumption DEF RouteRecord
  <2>2. QED
    BY <1>1, <1>3, <2>1 DEF RouteRecord
<1>5. route' = [route EXCEPT ![r] = new]
  BY <1>1 DEF Marks, Types, RTypeOK
<1>6. NextTimer(t) \in Stage
  BY <1>1, Stages
<1> HIDE DEF t, new
<1>7. /\ callback' \in [Routes -> [Callbacks -> Stage]] /\ callback'[r][c] = NextTimer(t)
      /\ \A k \in Routes \ {r} : callback'[k] = callback[k]
      /\ \A d \in Callbacks \ {c} : callback'[r][d] = callback[r][d]
  BY <1>2, <1>6, GoesTo
<1>8. /\ route' \in [Routes -> RouteRecord \cup {Blank}] /\ route'[r] = new
      /\ \A k \in Routes : \/ route'[k] = route[k]
                           \/ route'[k] \in RouteRecord /\ route'[k].net = route[k].net
      /\ \A k \in Routes \ {r} : route'[k] = route[k]
  BY <1>4, <1>5, OneWritten
<1>9. QED
  BY <1>1, <1>2, <1>4, <1>7, <1>8 DEF SlotsKept

LEMMA RemovesDoes ==
  ASSUME Types, NEW r \in Routes, NEW c \in Callbacks, Collect(r, c) \/ Withdraw(r, c)
  PROVE  /\ callback[r][c] \in Removing /\ callback[r][c] # Idle /\ route[r].net \in Networks
         /\ SlotsKept(r, c) /\ callback' \in [Routes -> [Callbacks -> Stage]]
         /\ Collect(r, c) => /\ callback[r][c] = On("gc", "Acts")
                             /\ callback'[r][c] = On("gc", "Withdraws")
                             /\ ripDatabase'[route[r].net] = None /\ UNCHANGED routeList
         /\ Withdraw(r, c) => /\ callback[r][c] = On("gc", "Withdraws")
                              /\ callback'[r][c] = Idle
                              /\ routeList'[route[r].net] = None /\ UNCHANGED ripDatabase
         /\ ripDatabase' \in [Networks -> Routes \cup {None}]
         /\ routeList' \in [Networks -> Routes \cup {None}]
         /\ \A x \in Networks : /\ ripDatabase'[x] \in {None, ripDatabase[x]}
                                /\ routeList'[x] \in {None, routeList[x]}
         /\ \A x \in Networks \ {route[r].net} :
              ripDatabase'[x] = ripDatabase[x] /\ routeList'[x] = routeList[x]
         /\ UNCHANGED <<route, count, counted, at, header, seen, silent, late>>
<1>1. /\ callback[r][c] \in Removing /\ callback[r][c] # Idle
      /\ UNCHANGED <<route, count, counted, at, header, seen, silent, late>>
  BY DEF Collect, Withdraw, Removing, handlerVars, Idle, On
<1>2. route[r].net \in Networks
  BY <1>1, StageType, HeldIsMade DEF RouteRecord
<1>3. /\ Collect(r, c) => callback[r][c] = On("gc", "Acts") /\ Goes(r, c, On("gc", "Withdraws"))
      /\ Withdraw(r, c) => callback[r][c] = On("gc", "Withdraws") /\ Goes(r, c, Idle)
  BY DEF Collect, Withdraw
<1>4. /\ SlotsKept(r, c) /\ callback' \in [Routes -> [Callbacks -> Stage]]
      /\ Collect(r, c) => callback'[r][c] = On("gc", "Withdraws")
      /\ Withdraw(r, c) => callback'[r][c] = Idle
  BY <1>1, <1>3, GoesTo, Stages DEF SlotsKept
<1>5. /\ Collect(r, c) => ripDatabase' = [ripDatabase EXCEPT ![route[r].net] = None] /\ UNCHANGED routeList
      /\ Withdraw(r, c) => routeList' = [routeList EXCEPT ![route[r].net] = None] /\ UNCHANGED ripDatabase
  BY DEF Collect, Withdraw, RouteRemoved
<1>6. QED
  BY <1>1, <1>2, <1>3, <1>4, <1>5 DEF Types

\* What every step of a callback has in common.
LEMMA ElapseDoes ==
  ASSUME Types, NEW r \in Routes, NEW c \in Callbacks, Elapses(r, c)
  PROVE  /\ SlotsKept(r, c) /\ KeptBut(r) /\ NetsKept
         /\ UNCHANGED <<at, header, seen, silent, late>>
         /\ callback[r][c] # Idle /\ Busy(r) /\ route[r].net \in Networks
         /\ route'[r].metric = route[r].metric \/ route'[r].metric = Unreachable
         /\ \A x \in Networks : /\ ripDatabase'[x] \in {None, ripDatabase[x]}
                                /\ routeList'[x] \in {None, routeList[x]}
         /\ \A x \in Networks \ {route[r].net} :
              ripDatabase'[x] = ripDatabase[x] /\ routeList'[x] = routeList[x]
         /\ Types'
<1>1. callback[r][c].does # "Nothing"
  BY DEF Elapses, Reads, Writes, Compares, Marks, Collect, Withdraw, On
<1>2. callback[r][c] # Idle /\ Busy(r) /\ ~Forgotten(r) /\ route[r].net \in Networks
  BY <1>1, StageType, HeldIsMade DEF RouteRecord
<1>3. /\ route \in [Routes -> RouteRecord \cup {Blank}] /\ count \in [Routes -> [Timers -> Nat]]
      /\ counted \in [Routes -> [Callbacks -> Nat]]
      /\ at \in {"Idle", "Known", "Unknown", "Better", "Compared", "Added", "Down"}
      /\ header \in Header \cup {NoHeader} /\ seen \in Routes \cup {None}
      /\ silent \in [Networks -> Nat] /\ late \in [Networks -> Nat]
      /\ ripDatabase \in [Networks -> Routes \cup {None}]
      /\ routeList \in [Networks -> Routes \cup {None}]
      /\ \A k \in Routes, u \in Timers : count[k][u] <= Interval(u) + 1
  BY DEF Types, RTypeOK
<1>4. /\ SlotsKept(r, c) /\ KeptBut(r)
      /\ UNCHANGED <<at, header, seen, silent, late>>
      /\ callback' \in [Routes -> [Callbacks -> Stage]] /\ counted' \in [Routes -> [Callbacks -> Nat]]
      /\ count' \in [Routes -> [Timers -> Nat]]
      /\ \A k \in Routes, u \in Timers : count'[k][u] <= Interval(u) + 1
      /\ route' \in [Routes -> RouteRecord \cup {Blank}]
      /\ \A k \in Routes : \/ route'[k] = route[k]
                           \/ route'[k] \in RouteRecord /\ route'[k].net = route[k].net
      /\ route'[r].metric = route[r].metric \/ route'[r].metric = Unreachable
      /\ ripDatabase' \in [Networks -> Routes \cup {None}]
      /\ routeList' \in [Networks -> Routes \cup {None}]
      /\ \A x \in Networks : /\ ripDatabase'[x] \in {None, ripDatabase[x]}
                             /\ routeList'[x] \in {None, routeList[x]}
      /\ \A x \in Networks \ {route[r].net} :
           ripDatabase'[x] = ripDatabase[x] /\ routeList'[x] = routeList[x]
  <2>1. CASE Reads(r, c)
    BY <1>3, <2>1, ReadsDoes DEF KeptBut
  <2>2. CASE Writes(r, c)
    BY <1>3, <2>2, WritesDoes DEF KeptBut
  <2>3. CASE Compares(r, c)
    BY <1>3, <2>3, ComparesDoes DEF KeptBut
  <2>4. CASE Marks(r, c)
    BY <1>3, <2>4, MarksDoes DEF KeptBut
  <2>5. CASE Collect(r, c) \/ Withdraw(r, c)
    BY <1>3, <2>5, RemovesDoes DEF KeptBut
  <2>6. QED
    BY <2>1, <2>2, <2>3, <2>4, <2>5 DEF Elapses
<1>5. ASSUME NEW k \in Routes, Forgotten(k)
      PROVE  count'[k]["gc"] >= Flush /\ ~Busy(k)' /\ seen' # k
  BY <1>2, <1>4, <1>5 DEF Forgotten, Busy, KeptBut, SlotsKept
<1>6. Types'
  BY <1>3, <1>4, <1>5, TypesStep
<1>7. NetsKept
  BY <1>4 DEF NetsKept
<1>8. QED
  BY <1>2, <1>4, <1>6, <1>7

-----------------------------------------------------------------------------
(* What the steps of the handler do. *)

\* The fields that no step of the handler but its own writes.
LEMMA Kept ==
  ASSUME Types
  PROVE  /\ route \in [Routes -> RouteRecord \cup {Blank}]
         /\ count \in [Routes -> [Timers -> Nat]]
         /\ \A k \in Routes, u \in Timers : count[k][u] <= Interval(u) + 1
         /\ callback \in [Routes -> [Callbacks -> Stage]]
         /\ counted \in [Routes -> [Callbacks -> Nat]]
         /\ at \in {"Idle", "Known", "Unknown", "Better", "Compared", "Added", "Down"}
         /\ header \in Header \cup {NoHeader} /\ seen \in Routes \cup {None}
         /\ silent \in [Networks -> Nat] /\ late \in [Networks -> Nat]
         /\ ripDatabase \in [Networks -> Routes \cup {None}]
         /\ routeList \in [Networks -> Routes \cup {None}]
         /\ \A r \in Routes : Forgotten(r) => count[r]["gc"] >= Flush /\ ~Busy(r) /\ seen # r
BY DEF Types, RTypeOK, Forgotten

LEMMA LooksDoes ==
  ASSUME Types, ResponseArrives \/ RouteIsGone
  PROVE  /\ Types'
         /\ UNCHANGED <<route, count, callback, counted, ripDatabase, routeList, seen, silent, late>>
<1>1. /\ UNCHANGED <<route, count, callback, counted, ripDatabase, routeList, seen, silent, late>>
      /\ header' \in Header \cup {NoHeader} /\ at' \in {"Unknown", "Known", "Down"}
  BY Kept DEF ResponseArrives, RouteIsGone, timerVars
<1>2. \A r \in Routes : Busy(r)' = Busy(r)
  BY <1>1 DEF Busy
<1>3. QED
  BY <1>1, <1>2, Kept, TypesStep

\* No metric is 0, so no potential metric is ever accepted.
LEMMA WorseDoes ==
  ASSUME Types, NEW r \in Routes, route[r] \in RouteRecord, NEW h \in Header, Worse(r, h)
  PROVE  /\ route' \in [Routes -> RouteRecord \cup {Blank}]
         /\ \A k \in Routes : \/ route'[k] = route[k]
                              \/ route'[k] \in RouteRecord /\ route'[k].net = route[k].net
         /\ \A k \in Routes : route'[k].metric = route[k].metric
         /\ count' \in [Routes -> [Timers -> Nat]]
         /\ \A k \in Routes : \A u \in Timers \ {"hold"} : count'[k][u] = count[k][u]
         /\ \A k \in Routes, u \in Timers : count'[k][u] <= Interval(u) + 1
<1>1. CASE UNCHANGED <<route, count>>
  BY <1>1, Kept
<1>2. CASE BeginHoldDownTime(r)
  <2> DEFINE new == [route[r] EXCEPT !.accept = FALSE]
  <2>1. new \in RouteRecord /\ new.net = route[r].net /\ new.metric = route[r].metric
    BY DEF RouteRecord
  <2>2. route' = [route EXCEPT ![r] = new]
    BY <1>2, Kept DEF BeginHoldDownTime
  <2> HIDE DEF new
  <2>3. /\ route' \in [Routes -> RouteRecord \cup {Blank}] /\ route'[r] = new
        /\ \A k \in Routes : \/ route'[k] = route[k]
                             \/ route'[k] \in RouteRecord /\ route'[k].net = route[k].net
        /\ \A k \in Routes \ {r} : route'[k] = route[k]
    BY <2>1, <2>2, OneWritten
  <2>4. \A k \in Routes : route'[k].metric = route[k].metric
    BY <2>1, <2>3
  <2>5. "hold" \in Timers /\ 0 \in Nat /\ 0 <= Interval("hold") + 1
    BY Intervals DEF Timers
  <2>6. count' = [count EXCEPT ![r]["hold"] = 0]
    BY <1>2 DEF BeginHoldDownTime
  <2>7. /\ count' \in [Routes -> [Timers -> Nat]]
        /\ \A k \in Routes \ {r} : count'[k] = count[k]
        /\ \A u \in Timers \ {"hold"} : count'[r][u] = count[r][u]
        /\ \A k \in Routes, u \in Timers : count'[k][u] <= Interval(u) + 1
    BY <2>5, <2>6, OneCounted
  <2>8. QED
    BY <2>3, <2>4, <2>7
<1>3. QED
  BY <1>1, <1>2, HeaderFields DEF Worse, PotentialNewMetric

LEMMA CompareDoes ==
  ASSUME Types, HandlerInv, Compare
  PROVE  /\ Types' /\ NetsKept
         /\ \A k \in Routes : /\ route'[k].metric = route[k].metric
                              /\ count'[k]["gc"] = count[k]["gc"]
                              /\ count'[k]["invalid"] = count[k]["invalid"]
         /\ ripDatabase[header.net] \in Routes /\ seen' = ripDatabase[header.net]
         /\ UNCHANGED <<callback, counted, ripDatabase, routeList, header, silent, late>>
         /\ \/ at' = "Better" /\ header.metric < route[seen'].metric
            \/ at' = "Compared"
<1>1. /\ at = "Known" /\ ripDatabase[header.net] # None /\ seen' = ripDatabase[header.net]
      /\ UNCHANGED <<callback, counted, ripDatabase, routeList, header, silent, late>>
      /\ \/ at' = "Better" /\ header.metric < route[seen'].metric /\ UNCHANGED <<route, count>>
         \/ at' = "Compared" /\ Worse(ripDatabase[header.net], header)
  BY DEF Compare, timerVars
<1>2. /\ ripDatabase[header.net] \in Routes /\ route[ripDatabase[header.net]] \in RouteRecord
      /\ header \in Header /\ ~Forgotten(ripDatabase[header.net])
  BY <1>1, AtHeader
<1>3. /\ route' \in [Routes -> RouteRecord \cup {Blank}]
      /\ \A k \in Routes : \/ route'[k] = route[k]
                           \/ route'[k] \in RouteRecord /\ route'[k].net = route[k].net
      /\ \A k \in Routes : route'[k].metric = route[k].metric
      /\ count' \in [Routes -> [Timers -> Nat]]
      /\ \A k \in Routes : \A u \in Timers \ {"hold"} : count'[k][u] = count[k][u]
      /\ \A k \in Routes, u \in Timers : count'[k][u] <= Interval(u) + 1
  <2>1. CASE UNCHANGED <<route, count>>
    BY <2>1, Kept
  <2>2. CASE Worse(ripDatabase[header.net], header)
    BY <1>2, <2>2, WorseDoes
  <2>3. QED
    BY <1>1, <2>1, <2>2
<1>4. \A k \in Routes : count'[k]["gc"] = count[k]["gc"] /\ count'[k]["invalid"] = count[k]["invalid"]
  BY <1>3 DEF Timers
<1>5. \A r \in Routes : Forgotten(r) => count'[r]["gc"] >= Flush /\ ~Busy(r)' /\ seen' # r
  BY <1>1, <1>2, <1>4, Kept DEF Busy
<1>6. Types'
  BY <1>1, <1>2, <1>3, <1>5, Kept, TypesStep
<1>7. QED
  BY <1>1, <1>2, <1>3, <1>4, <1>6 DEF NetsKept

LEMMA ImproveDoes ==
  ASSUME Types, HandlerInv, Improve
  PROVE  /\ Types' /\ NetsKept /\ KeptBut(seen)
         /\ ripDatabase[header.net] = seen /\ seen \in Routes
         /\ route'[seen].metric = header.metric /\ header.metric < route[seen].metric
         /\ UNCHANGED <<count, callback, counted, ripDatabase, routeList, header, seen, silent, late>>
<1>1. /\ at = "Better" /\ at' = "Compared"
      /\ ripDatabase[header.net] = seen /\ header.metric < route[seen].metric
      /\ UNCHANGED <<count, callback, counted, ripDatabase, routeList, header, seen, silent, late>>
  BY DEF Improve, HandlerInv, timerVars
<1>2. seen \in Routes /\ route[seen] \in RouteRecord /\ ~Forgotten(seen) /\ header \in Header
  BY <1>1, AtHeader
<1>3. PICK new \in RouteRecord :
        /\ new = UpdateRipHeaderData(route[seen], header)
        /\ new.net = route[seen].net /\ new.metric = header.metric
  BY <1>2, UpdateType
<1>4. route' = [route EXCEPT ![seen] = new]
  BY <1>1, <1>2, <1>3, Kept DEF Improve
<1>5. /\ route' \in [Routes -> RouteRecord \cup {Blank}]
      /\ route'[seen] = new
      /\ \A k \in Routes : \/ route'[k] = route[k]
                           \/ route'[k] \in RouteRecord /\ route'[k].net = route[k].net
      /\ KeptBut(seen) /\ NetsKept
  BY <1>1, <1>2, <1>3, <1>4, OneWritten DEF KeptBut, NetsKept
<1>6. \A r \in Routes : Forgotten(r) => count'[r]["gc"] >= Flush /\ ~Busy(r)' /\ seen' # r
  BY <1>1, Kept DEF Busy
<1>7. Types'
  BY <1>1, <1>2, <1>5, <1>6, Kept, TypesStep
<1>8. QED
  BY <1>1, <1>2, <1>3, <1>5, <1>7

LEMMA SightDoes ==
  ASSUME Types, HandlerInv, Sight
  PROVE  /\ Types' /\ KeptBut(seen) /\ seen \in Routes /\ route' = route
         /\ at = "Compared" /\ at' = "Idle" /\ seen' = None
         /\ route[seen].net = header.net /\ header.net \in Networks
         /\ count'[seen]["gc"] = 0 /\ count'[seen]["invalid"] = 0
         /\ silent' = [silent EXCEPT ![header.net] = 0]
         /\ UNCHANGED <<callback, counted, ripDatabase, routeList, late>>
<1>1. /\ at = "Compared" /\ at' = "Idle" /\ seen' = None /\ header' = NoHeader
      /\ count' = [count EXCEPT ![seen] = Sighted(@)]
      /\ silent' = [silent EXCEPT ![header.net] = 0]
      /\ UNCHANGED <<route, callback, counted, ripDatabase, routeList, late>>
  BY DEF Sight, timerVars
<1>2. /\ seen \in Routes /\ ~Forgotten(seen) /\ header.net \in Networks
      /\ route[seen].net = header.net /\ count[seen] \in [Timers -> Nat]
  BY <1>1, AtHeader, Kept
<1>3. PICK new \in [Timers -> Nat] :
        new = Sighted(count[seen]) /\ new["gc"] = 0 /\ new["invalid"] = 0 /\ new["hold"] = count[seen]["hold"]
  BY <1>2, SightedType
<1>4. /\ count' \in [Routes -> [Timers -> Nat]] /\ count'[seen] = new
      /\ \A k \in Routes \ {seen} : count'[k] = count[k]
  BY <1>1, <1>2, <1>3, Kept
<1>5. \A k \in Routes, u \in Timers : count'[k][u] <= Interval(u) + 1
  <2>1. ASSUME NEW u \in Timers PROVE new[u] <= Interval(u) + 1
    <3>1. count[seen][u] <= Interval(u) + 1 /\ Interval(u) \in Nat
      BY <1>2, Kept, Intervals
    <3>2. new[u] = 0 \/ new[u] = count[seen][u]
      BY <1>3 DEF Timers
    <3>3. QED
      BY <3>1, <3>2
  <2>2. QED
    BY <1>4, <2>1, Kept
<1>6. \A r \in Routes : Forgotten(r) => count'[r]["gc"] >= Flush /\ ~Busy(r)' /\ seen' # r
  BY <1>1, <1>2, <1>4, Kept, RipAssumption DEF Busy
<1>7. silent' \in [Networks -> Nat]
  BY <1>1, Kept
<1>8. Types'
  BY <1>1, <1>4, <1>5, <1>6, <1>7, Kept, TypesStep
<1>9. QED
  BY <1>1, <1>2, <1>3, <1>4, <1>8 DEF KeptBut

\* A route is created in an object that nothing uses.
LEMMA AddRouteDoes ==
  ASSUME Types, HandlerInv, AddRoute
  PROVE  /\ Types' /\ \E f \in Routes :
              /\ KeptBut(f) /\ ~Busy(f) /\ f # None /\ seen' = f /\ route'[f].net = header.net
              /\ count'[f]["gc"] = 0 /\ count'[f]["invalid"] = 0
              /\ ripDatabase' = [ripDatabase EXCEPT ![header.net] = f]
              /\ \A x \in Networks : ripDatabase[x] # f /\ routeList[x] # f
         /\ at = "Unknown" /\ at' = "Added" /\ header \in Header /\ header.net \in Networks
         /\ ripDatabase[header.net] = None
         /\ silent' = [silent EXCEPT ![header.net] = 0]
         /\ UNCHANGED <<callback, counted, routeList, header, late>>
<1>1. /\ at = "Unknown" /\ at' = "Added" /\ seen' = Fresh
      /\ route' = [route EXCEPT ![Fresh] = Create(header)]
      /\ count' = [count EXCEPT ![Fresh] = NoCount]
      /\ ripDatabase' = [ripDatabase EXCEPT ![header.net] = Fresh]
      /\ silent' = [silent EXCEPT ![header.net] = 0]
      /\ UNCHANGED <<callback, counted, routeList, header, late>>
  BY DEF AddRoute, timerVars
<1>2. Fresh \in Routes /\ Forgotten(Fresh) /\ Fresh # None /\ ripDatabase[header.net] = None
  BY <1>1, FreshIsForgotten, RipAssumption DEF HandlerInv
<1> DEFINE f == Fresh
<1> HIDE DEF f
<1>3. header \in Header /\ header.net \in Networks
  BY <1>1, AtHeader
<1>4. PICK new \in RouteRecord : new = Create(header) /\ new.net = header.net
  BY <1>3, CreateType
<1>5. PICK none \in [Timers -> Nat] : none = NoCount /\ \A t \in Timers : none[t] = 0
  <2>1. NoCount \in [Timers -> Nat] /\ \A t \in Timers : NoCount[t] = 0
    BY DEF NoCount
  <2>2. QED
    BY <2>1
<1>6. /\ route' = [route EXCEPT ![f] = new] /\ count' = [count EXCEPT ![f] = none]
      /\ f \in Routes /\ Forgotten(f) /\ f # None /\ seen' = f
      /\ ripDatabase' = [ripDatabase EXCEPT ![header.net] = f]
  BY <1>1, <1>2, <1>4, <1>5 DEF f
<1>7. /\ route' \in [Routes -> RouteRecord \cup {Blank}] /\ route'[f] = new
      /\ \A k \in Routes \ {f} : route'[k] = route[k]
      /\ count' \in [Routes -> [Timers -> Nat]] /\ count'[f] = none
      /\ \A k \in Routes \ {f} : count'[k] = count[k]
  BY <1>6, Kept
<1>8. /\ ripDatabase' \in [Networks -> Routes \cup {None}]
      /\ silent' \in [Networks -> Nat]
      /\ \A x \in Networks : ripDatabase'[x] = IF x = header.net THEN f ELSE ripDatabase[x]
  BY <1>1, <1>3, <1>6, Kept
<1>9. \A x \in Networks : routeList[x] # f /\ ripDatabase[x] # f
  BY <1>6 DEF Forgotten
<1>10. RTypeOK'
  <2>1. ASSUME NEW x \in Networks, ripDatabase'[x] # None
        PROVE  ripDatabase'[x] \in Routes /\ route'[ripDatabase'[x]].net = x
    <3>1. CASE x = header.net
      BY <1>4, <1>6, <1>7, <1>8, <3>1
    <3>2. CASE x # header.net
      <4>1. ripDatabase[x] # None => ripDatabase[x] \in Routes \ {f} /\ route[ripDatabase[x]].net = x
        BY <1>9, EntryObject
      <4>2. QED
        BY <1>7, <1>8, <2>1, <3>2, <4>1
    <3>3. QED
      BY <3>1, <3>2
  <2>2. ASSUME NEW x \in Networks, routeList'[x] # None
        PROVE  routeList'[x] \in Routes /\ route'[routeList'[x]].net = x
    BY <1>1, <1>7, <1>9, <2>2, EntryObject
  <2>3. QED
    BY <1>1, <1>3, <1>6, <1>7, <2>1, <2>2, Kept DEF RTypeOK
<1>11. ASSUME NEW k \in Routes, ~Forgotten(k)' PROVE route'[k] \in RouteRecord
  <2>1. CASE k = f
    BY <1>7, <2>1
  <2>2. CASE k # f
    <3>1. (seen # k /\ Busy(k)' = Busy(k) /\ count'[k] = count[k]) \/ ~Forgotten(k)
      BY <1>1, <1>7, <2>2 DEF Busy, Forgotten
    <3>2. ~Forgotten(k)
      BY <1>1, <1>6, <1>8, <1>11, <2>2, <3>1, RipAssumption DEF Forgotten
    <3>3. route[k] \in RouteRecord
      BY <3>2 DEF Types
    <3>4. QED
      BY <1>7, <2>2, <3>3
  <2>3. QED
    BY <2>1, <2>2
<1>12. \A k \in Routes, u \in Timers : count'[k][u] <= Interval(u) + 1
  <2>1. \A u \in Timers : 0 <= Interval(u) + 1
    BY Intervals
  <2>2. QED
    BY <1>5, <1>7, <2>1, Kept
<1>13. Types'
  BY <1>1, <1>8, <1>10, <1>11, <1>12, Kept DEF Types
<1>14. /\ KeptBut(f) /\ ~Busy(f) /\ route'[f].net = header.net
       /\ count'[f]["gc"] = 0 /\ count'[f]["invalid"] = 0
  BY <1>4, <1>5, <1>6, <1>7 DEF Forgotten, Timers, KeptBut
<1>15. QED
  BY <1>1, <1>2, <1>3, <1>6, <1>9, <1>13, <1>14

LEMMA RegisterRouteDoes ==
  ASSUME Types, HandlerInv, RegisterRoute
  PROVE  /\ Types' /\ seen \in Routes /\ header.net \in Networks
         /\ at = "Added" /\ at' = "Idle" /\ seen' = None
         /\ route[seen].net = header.net
         /\ \A x \in Networks \ {header.net} : routeList'[x] = routeList[x]
         /\ routeList'[header.net] \in {seen, routeList[header.net]}
         /\ routeList[header.net] = None => routeList'[header.net] = seen
         /\ UNCHANGED <<route, count, callback, counted, ripDatabase, silent, late>>
<1>1. /\ at = "Added" /\ at' = "Idle" /\ seen' = None
      /\ header' = NoHeader /\ RouteDiscovered(seen)
      /\ UNCHANGED <<route, count, callback, counted, ripDatabase, silent, late>>
  BY DEF RegisterRoute, timerVars
<1>2. /\ seen \in Routes /\ route[seen] \in RouteRecord /\ ~Forgotten(seen)
      /\ header.net \in Networks /\ route[seen].net = header.net
  BY <1>1, AtHeader
<1>3. /\ routeList' \in [Networks -> Routes \cup {None}]
      /\ \A x \in Networks \ {header.net} : routeList'[x] = routeList[x]
      /\ routeList'[header.net] \in {seen, routeList[header.net]}
      /\ routeList[header.net] = None => routeList'[header.net] = seen
  BY <1>1, <1>2, Kept DEF RouteDiscovered
<1>4. RTypeOK'
  <2>1. ASSUME NEW x \in Networks, routeList'[x] # None
        PROVE  routeList'[x] \in Routes /\ route[routeList'[x]].net = x
    BY <1>2, <1>3, <2>1, EntryObject
  <2>2. ASSUME NEW x \in Networks, ripDatabase[x] # None
        PROVE  ripDatabase[x] \in Routes /\ route[ripDatabase[x]].net = x
    BY <2>2, EntryObject
  <2>3. QED
    BY <1>1, <2>1, <2>2, Kept DEF RTypeOK
<1>5. ASSUME NEW k \in Routes, ~Forgotten(k)' PROVE route'[k] \in RouteRecord
  <2>1. CASE k = seen
    BY <1>1, <1>2, <2>1
  <2>2. CASE k # seen
    <3>1. Busy(k)' = Busy(k)
      BY <1>1 DEF Busy
    <3>2. ~Forgotten(k)
      BY <1>1, <1>2, <1>3, <1>5, <2>2, <3>1, RipAssumption DEF Forgotten
    <3>3. QED
      BY <1>1, <3>2 DEF Types
  <2>3. QED
    BY <2>1, <2>2
<1>6. Types'
  BY <1>1, <1>3, <1>4, <1>5, Kept DEF Types
<1>7. QED
  BY <1>1, <1>2, <1>3, <1>6

\* A second: every timer in use has one callback more under way.
LEMMA SecondDoes ==
  ASSUME Types, Second
  PROVE  /\ Types' /\ at = "Idle" /\ at' = "Idle"
         /\ UNCHANGED <<route, count, counted, ripDatabase, routeList, header, seen>>
         /\ \A r \in Routes, c \in Callbacks :
              \/ callback'[r][c] = callback[r][c]
              \/ ~Forgotten(r) /\ callback[r][c] = Idle /\ callback'[r][c] = On("hold", "Reads")
         /\ \A r \in Routes : ~Busy(r) =>
              \A c, d \in Callbacks : callback'[r][c] # Idle /\ callback'[r][d] # Idle => c = d
         /\ silent' = [x \in Networks |-> Next1(silent[x], Flush + Invalid)]
         /\ late \in [Networks -> Nat]
         /\ late' = [x \in Networks |-> IF Counting(x) THEN late[x] + 1 ELSE late[x]]
<1> DEFINE Spare(r) == CHOOSE c \in Callbacks : callback[r][c] = Idle
<1>1. /\ at = "Idle" /\ at' = "Idle"
      /\ UNCHANGED <<route, count, counted, ripDatabase, routeList, header, seen>>
      /\ callback' = [r \in Routes |->
           IF Forgotten(r) THEN callback[r]
           ELSE [callback[r] EXCEPT ![Spare(r)] = On("hold", "Reads")]]
      /\ \A r \in Routes : ~Forgotten(r) => \E c \in Callbacks : callback[r][c] = Idle
      /\ silent' = [x \in Networks |-> Next1(silent[x], Flush + Invalid)]
      /\ late' = [x \in Networks |-> IF Counting(x) THEN late[x] + 1 ELSE late[x]]
  BY DEF Second, handlerVars
<1>2. ASSUME NEW r \in Routes, ~Forgotten(r)
      PROVE  Spare(r) \in Callbacks /\ callback[r][Spare(r)] = Idle
  BY <1>1, <1>2
<1> HIDE DEF Spare
<1>3. On("hold", "Reads") \in Stage /\ On("hold", "Reads") # Idle
  BY DEF Stage, On, Timers, Idle
<1>4. ASSUME NEW r \in Routes
      PROVE  /\ callback'[r] \in [Callbacks -> Stage]
             /\ \A c \in Callbacks : callback'[r][c] =
                  IF ~Forgotten(r) /\ c = Spare(r) THEN On("hold", "Reads") ELSE callback[r][c]
  <2>1. callback[r] \in [Callbacks -> Stage]
    BY Kept
  <2>2. callback'[r] = IF Forgotten(r) THEN callback[r]
                       ELSE [callback[r] EXCEPT ![Spare(r)] = On("hold", "Reads")]
    BY <1>1
  <2>3. QED
    BY <1>3, <2>1, <2>2
<1>5. callback' \in [Routes -> [Callbacks -> Stage]]
  BY <1>1, <1>4
<1>6. ASSUME NEW r \in Routes, ~Busy(r), NEW c \in Callbacks, NEW d \in Callbacks,
             callback'[r][c] # Idle, callback'[r][d] # Idle
      PROVE  c = d
  BY <1>4, <1>6 DEF Busy
<1>7. \A r \in Routes : Forgotten(r) => count'[r]["gc"] >= Flush /\ ~Busy(r)' /\ seen' # r
  BY <1>1, <1>4, Kept DEF Busy
<1>8. silent' \in [Networks -> Nat] /\ late' \in [Networks -> Nat]
  <2>1. \A x \in Networks : silent[x] \in Nat /\ late[x] \in Nat
    BY Kept
  <2>2. Flush + Invalid \in Nat
    BY Intervals
  <2>3. \A x \in Networks : Next1(silent[x], Flush + Invalid) \in Nat
    BY <2>1, <2>2, CountType
  <2>4. \A x \in Networks : (IF Counting(x) THEN late[x] + 1 ELSE late[x]) \in Nat
    <3>1. TAKE x \in Networks
    <3>2. late[x] \in Nat /\ late[x] + 1 \in Nat
      BY <2>1
    <3>3. CASE Counting(x)
      BY <3>2, <3>3
    <3>4. CASE ~Counting(x)
      BY <3>2, <3>4
    <3>5. QED
      BY <3>3, <3>4
  <2>5. QED
    BY <1>1, <2>3, <2>4
<1>9. Types'
  BY <1>1, <1>5, <1>7, <1>8, Kept, TypesStep
<1>10. \A r \in Routes, c \in Callbacks :
         \/ callback'[r][c] = callback[r][c]
         \/ ~Forgotten(r) /\ callback[r][c] = Idle /\ callback'[r][c] = On("hold", "Reads")
  BY <1>2, <1>4
<1>11. QED
  BY <1>1, <1>6, <1>9, <1>10, Kept

LEMMA TypesInv ==
  ASSUME RipInv, RNext
  PROVE  Types'
<1>1. Types /\ HandlerInv
  BY DEF RipInv
<1>2. QED
  BY <1>1, LooksDoes, CompareDoes, ImproveDoes, SightDoes, AddRouteDoes, RegisterRouteDoes,
     SecondDoes, ElapseDoes DEF RNext, Handles

-----------------------------------------------------------------------------
(* The handler. *)

LEMMA HandlerStep ==
  ASSUME RipInv, Types', Handles
  PROVE  HandlerInv'
<1>1. HandlerInv /\ Types
  BY DEF RipInv
<1>2. CASE ResponseArrives
  <2>1. PICK h \in Header : header' = h /\ at' = IF ripDatabase[h.net] = None THEN "Unknown" ELSE "Known"
    BY <1>2 DEF ResponseArrives
  <2>2. PICK r \in Routes : Forgotten(r)
    BY <1>2 DEF ResponseArrives
  <2>3. UNCHANGED <<route, count, callback, ripDatabase, routeList, seen>> /\ at = "Idle"
    BY <1>2 DEF ResponseArrives, timerVars
  <2>4. Forgotten(r)'
    BY <2>2, <2>3 DEF Forgotten, Busy
  <2>5. QED
    BY <1>1, <2>1, <2>3, <2>4 DEF HandlerInv
<1>3. CASE RouteIsGone
  BY <1>1, <1>3 DEF RouteIsGone, HandlerInv
<1>4. CASE Compare
  <2>1. /\ at = "Known" /\ at' \in {"Better", "Compared"} /\ UNCHANGED <<header, ripDatabase>>
        /\ seen' = ripDatabase[header.net] /\ seen' \in Routes /\ NetsKept
        /\ at' = "Better" => header.metric < route[seen'].metric
        /\ route'[seen'].metric = route[seen'].metric
    BY <1>1, <1>4, CompareDoes DEF Compare
  <2>2. ripDatabase[header.net] # None
    BY <1>4 DEF Compare
  <2>3. header \in Header /\ route'[seen'].net = header.net
    BY <1>1, <2>1, <2>2, AtHeader DEF NetsKept
  <2>4. QED
    BY <2>1, <2>2, <2>3 DEF HandlerInv
<1>5. CASE Improve
  <2>1. at = "Better" /\ at' = "Compared" /\ UNCHANGED <<header, seen>> /\ NetsKept
    BY <1>1, <1>5, ImproveDoes DEF Improve
  <2>2. QED
    BY <1>1, <2>1 DEF HandlerInv, NetsKept
<1>6. CASE Sight \/ RegisterRoute
  <2>1. at' = "Idle" /\ seen' = None
    BY <1>6 DEF Sight, RegisterRoute
  <2>2. QED
    BY <2>1 DEF HandlerInv
<1>7. CASE AddRoute
  BY <1>1, <1>7, AddRouteDoes DEF HandlerInv, Busy
<1>8. QED
  BY <1>2, <1>3, <1>4, <1>5, <1>6, <1>7 DEF Handles

\* The timers leave the handler where it is.
LEMMA TimerHandler ==
  ASSUME RipInv, Types', NEW r \in Routes, NEW c \in Callbacks, Elapses(r, c)
  PROVE  HandlerInv'
<1>1. /\ HandlerInv /\ Types /\ UNCHANGED <<at, header, seen>>
      /\ NetsKept /\ KeptBut(r) /\ SlotsKept(r, c) /\ Busy(r)
      /\ route'[r].metric = route[r].metric \/ route'[r].metric = Unreachable
      /\ \A x \in Networks : /\ ripDatabase'[x] \in {None, ripDatabase[x]}
                             /\ routeList'[x] \in {None, routeList[x]}
  BY ElapseDoes DEF RipInv
<1>2. \A k \in Routes \ {r} : Busy(k)' = Busy(k)
  BY <1>1 DEF Busy, SlotsKept
<1>3. ASSUME at = "Unknown"
      PROVE  ripDatabase'[header.net] = None /\ \E k \in Routes : Forgotten(k)'
  <2>1. header.net \in Networks /\ ripDatabase[header.net] = None
    BY <1>1, <1>3, AtHeader DEF HandlerInv
  <2>2. PICK k \in Routes : Forgotten(k)
    BY <1>1, <1>3 DEF HandlerInv
  <2>3. k # r
    BY <1>1, <2>2 DEF Forgotten
  <2>4. Forgotten(k)'
    BY <1>1, <1>2, <2>2, <2>3, RipAssumption DEF Forgotten, KeptBut
  <2>5. QED
    BY <1>1, <2>1, <2>4
<1>4. ASSUME at = "Better"
      PROVE  ripDatabase'[header.net] \in {None, seen} /\ header.metric < route'[seen].metric
  <2>1. /\ header.net \in Networks /\ header.metric \in 1..Unreachable /\ seen \in Routes
        /\ route[seen].metric \in 1..Unreachable /\ header.metric < route[seen].metric
        /\ ripDatabase[header.net] \in {None, seen}
    BY <1>1, <1>4, AtHeader, HeaderFields DEF HandlerInv, RouteRecord
  <2>2. route'[seen].metric = route[seen].metric \/ route'[seen].metric = Unreachable
    BY <1>1, <2>1 DEF KeptBut
  <2>3. header.metric < route'[seen].metric
    BY <2>1, <2>2, RipAssumption
  <2>4. QED
    BY <1>1, <2>1, <2>3
<1>5. ASSUME at = "Added" PROVE count'[seen]["gc"] = 0 /\ ~Busy(seen)'
  <2>1. seen \in Routes /\ ~Busy(seen) /\ count[seen]["gc"] = 0
    BY <1>1, <1>5 DEF HandlerInv
  <2>2. seen # r
    BY <1>1, <2>1
  <2>3. QED
    BY <1>1, <1>2, <2>1, <2>2 DEF KeptBut
<1>6. QED
  BY <1>1, <1>3, <1>4, <1>5 DEF HandlerInv, NetsKept

LEMMA HandlerSecond ==
  ASSUME RipInv, Second
  PROVE  HandlerInv'
<1>1. HandlerInv /\ at = "Idle" /\ UNCHANGED <<at, header, seen>>
  BY SecondDoes DEF RipInv
<1>2. QED
  BY <1>1 DEF HandlerInv

-----------------------------------------------------------------------------
(* The entries of the tables. *)

\* The stages are all different.
LEMMA StagesDiffer ==
  ASSUME NEW t, NEW u, NEW d, NEW e
  PROVE  (On(t, d) = On(u, e)) <=> (t = u /\ d = e)
BY DEF On

\* Counters that stand still or are reset, and callbacks that stand still.
LEMMA EntryKept ==
  ASSUME RipInv, EntryInv,
         UNCHANGED <<callback, counted, late>>,
         \A r \in Routes : count'[r]["gc"] = count[r]["gc"] \/ count'[r]["gc"] = 0,
         NetsKept, UNCHANGED <<ripDatabase, routeList>>
  PROVE  EntryInv'
<1>1. ASSUME NEW r \in Routes, NEW last, Expires(r, last) PROVE Expires(r, last)'
  BY <1>1, Intervals DEF Expires
<1>2. ASSUME NEW x \in Networks, late[x] = 0 PROVE Single(x)' /\ Entries(x)'
  <2>1. Single(x) /\ Entries(x)
    BY <1>2 DEF EntryInv
  <2>2. Single(x)'
    BY <2>1 DEF Single, NetsKept
  <2>3. Entries(x)'
    BY <1>1, <2>1, EntryObject DEF RipInv, Entries
  <2>4. QED
    BY <2>2, <2>3
<1>3. QED
  BY <1>2 DEF EntryInv

LEMMA EntryAdd ==
  ASSUME RipInv, EntryInv, AddRoute
  PROVE  EntryInv'
<1>1. Types /\ HandlerInv
  BY DEF RipInv
<1>2. PICK f \in Routes :
        /\ KeptBut(f) /\ ~Busy(f) /\ f # None /\ count'[f]["gc"] = 0
        /\ ripDatabase' = [ripDatabase EXCEPT ![header.net] = f]
        /\ \A x \in Networks : ripDatabase[x] # f /\ routeList[x] # f
  BY <1>1, AddRouteDoes
<1>3. header.net \in Networks /\ UNCHANGED <<callback, counted, routeList, late>>
  BY <1>1, AddRouteDoes
<1>4. ASSUME NEW r \in Routes \ {f}, NEW last, Expires(r, last) PROVE Expires(r, last)'
  BY <1>2, <1>3, <1>4 DEF Expires, KeptBut
<1>5. ASSUME NEW last PROVE Expires(f, last)'
  <2>1. \A c \in Callbacks : callback'[f][c] # On("gc", "Writes")
    BY <1>2, <1>3 DEF Busy, Idle, On
  <2>2. QED
    BY <1>2, <2>1, Intervals DEF Expires
<1>6. ASSUME NEW x \in Networks, late[x] = 0 PROVE Single(x)' /\ Entries(x)'
  <2>1. Single(x) /\ Entries(x)
    BY <1>6 DEF EntryInv
  <2>2. Single(x)'
    BY <1>2, <1>3, <2>1 DEF Single, KeptBut, Busy
  <2>3. routeList'[x] # None => Expires(routeList[x], Removing)'
    <3>1. ASSUME routeList[x] # None PROVE Expires(routeList[x], Removing)'
      <4>1. routeList[x] \in Routes \ {f} /\ Expires(routeList[x], Removing)
        BY <1>1, <1>2, <2>1, <3>1, EntryObject DEF Entries
      <4>2. PICK r \in Routes \ {f} : r = routeList[x]
        BY <4>1
      <4>3. Expires(r, Removing)'
        BY <1>4, <4>1, <4>2
      <4>4. QED
        BY <1>3, <4>2, <4>3 DEF Expires
    <3>2. QED
      BY <1>3, <3>1
  <2>4. ripDatabase'[x] # None => Expires(ripDatabase[x], Collecting)'
    <3>1. CASE x = header.net
      <4>1. ripDatabase'[x] = f
        BY <1>1, <1>2, <1>3, <3>1, Kept
      <4>2. QED
        BY <1>5, <4>1 DEF Expires
    <3>2. CASE x # header.net
      <4>1. ripDatabase'[x] = ripDatabase[x]
        BY <1>1, <1>2, <1>3, <3>2, Kept
      <4>2. ASSUME ripDatabase[x] # None PROVE Expires(ripDatabase[x], Collecting)'
        <5>1. ripDatabase[x] \in Routes \ {f} /\ Expires(ripDatabase[x], Collecting)
          BY <1>1, <1>2, <2>1, <4>2, EntryObject DEF Entries
        <5>2. PICK r \in Routes \ {f} : r = ripDatabase[x]
          BY <5>1
        <5>3. Expires(r, Collecting)'
          BY <1>4, <5>1, <5>2
        <5>4. QED
          BY <4>1, <5>2, <5>3 DEF Expires
      <4>3. QED
        BY <4>1, <4>2
    <3>3. QED
      BY <3>1, <3>2
  <2>5. QED
    BY <2>2, <2>3, <2>4 DEF Entries
<1>7. QED
  BY <1>3, <1>6 DEF EntryInv

LEMMA EntryRegister ==
  ASSUME RipInv, EntryInv, RegisterRoute
  PROVE  EntryInv'
<1>1. Types /\ HandlerInv
  BY DEF RipInv
<1>2. /\ UNCHANGED <<route, count, callback, counted, ripDatabase, late>> /\ at = "Added"
      /\ seen \in Routes
      /\ \A x \in Networks : routeList'[x] \in {seen, routeList[x]}
  BY <1>1, RegisterRouteDoes
<1>3. ASSUME NEW r, NEW last, Expires(r, last) PROVE Expires(r, last)'
  BY <1>2, <1>3 DEF Expires
<1>4. Expires(seen, Removing)
  <2>1. count[seen]["gc"] = 0 /\ ~Busy(seen)
    BY <1>1, <1>2 DEF HandlerInv
  <2>2. \A c \in Callbacks : callback[seen][c] # On("gc", "Writes")
    BY <2>1 DEF Busy, Idle, On
  <2>3. QED
    BY <2>1, <2>2, Intervals DEF Expires
<1>5. ASSUME NEW x \in Networks, late[x] = 0 PROVE Single(x)' /\ Entries(x)'
  <2>1. Single(x) /\ Entries(x)
    BY <1>5 DEF EntryInv
  <2>2. Single(x)'
    BY <1>2, <2>1 DEF Single
  <2>3. ASSUME routeList'[x] # None PROVE Expires(routeList[x], Removing)'
    <3>1. PICK r : r = routeList'[x]
      OBVIOUS
    <3>2. Expires(r, Removing)
      BY <1>2, <1>4, <2>1, <2>3, <3>1 DEF Entries
    <3>3. Expires(r, Removing)'
      BY <1>3, <3>2
    <3>4. QED
      BY <3>1, <3>3 DEF Expires
  <2>4. ASSUME ripDatabase'[x] # None PROVE Expires(ripDatabase[x], Collecting)'
    <3>1. PICK r : r = ripDatabase[x]
      OBVIOUS
    <3>2. Expires(r, Collecting)
      BY <1>2, <2>1, <2>4, <3>1 DEF Entries
    <3>3. Expires(r, Collecting)'
      BY <1>3, <3>2
    <3>4. QED
      BY <1>2, <3>1, <3>3 DEF Expires
  <2>5. QED
    BY <2>2, <2>3, <2>4 DEF Entries
<1>6. QED
  BY <1>2, <1>5 DEF EntryInv

LEMMA EntryHandler ==
  ASSUME RipInv, EntryInv, Handles
  PROVE  EntryInv'
<1>1. Types /\ HandlerInv
  BY DEF RipInv
<1>2. CASE ResponseArrives \/ RouteIsGone
  BY <1>1, <1>2, LooksDoes, EntryKept DEF NetsKept
<1>3. CASE Compare
  BY <1>1, <1>3, CompareDoes, EntryKept
<1>4. CASE Improve
  BY <1>1, <1>4, ImproveDoes, EntryKept
<1>5. CASE Sight
  BY <1>1, <1>5, SightDoes, EntryKept DEF NetsKept, KeptBut
<1>6. QED
  BY <1>2, <1>3, <1>4, <1>5, EntryAdd, EntryRegister DEF Handles

LEMMA EntrySecond ==
  ASSUME RipInv, EntryInv, Second
  PROVE  EntryInv'
<1>1. Types
  BY DEF RipInv
<1>2. ASSUME NEW x \in Networks, late'[x] = 0 PROVE Single(x)' /\ Entries(x)'
  <2>1. /\ UNCHANGED <<route, count, counted, ripDatabase, routeList>>
        /\ \A r \in Routes, c \in Callbacks :
             callback'[r][c] = callback[r][c] \/ callback'[r][c] = On("hold", "Reads")
        /\ \A r \in Routes : ~Busy(r) =>
             \A c, d \in Callbacks : callback'[r][c] # Idle /\ callback'[r][d] # Idle => c = d
        /\ late[x] \in Nat
        /\ late'[x] = IF Counting(x) THEN late[x] + 1 ELSE late[x]
    BY <1>1, SecondDoes
  <2>2. late[x] = 0 /\ ~Counting(x)
    <3>1. CASE Counting(x)
      BY <1>2, <2>1, <3>1
    <3>2. CASE ~Counting(x)
      BY <1>2, <2>1, <3>2
    <3>3. QED
      BY <3>1, <3>2
  <2>3. Single(x) /\ Entries(x) /\ \A r \in Routes : route[r].net = x => ~Busy(r)
    BY <2>2 DEF EntryInv, Counting
  <2>4. Single(x)'
    BY <2>1, <2>3 DEF Single
  <2>5. ASSUME NEW r \in Routes, route[r].net = x, NEW last \in {Collecting, Removing}, Expires(r, last)
        PROVE  Expires(r, last)'
    <3>1. \A c \in Callbacks : callback[r][c] = Idle
      BY <2>3, <2>5 DEF Busy
    <3>2. \A c \in Callbacks : /\ callback[r][c] \notin last
                               /\ callback[r][c] # On("gc", "Compares")
                               /\ callback'[r][c] # On("gc", "Writes")
      BY <2>1, <2>5, <3>1 DEF Collecting, Removing, Idle, On
    <3>3. QED
      BY <2>1, <2>5, <3>2 DEF Expires
  <2>6. Entries(x)'
    BY <1>1, <2>1, <2>3, <2>5, EntryObject DEF Entries, Expires
  <2>7. QED
    BY <2>4, <2>6
<1>3. QED
  BY <1>2 DEF EntryInv

\* The object of a callback, as long as it is in a table.
LEMMA ExpiresStep ==
  ASSUME Types, NEW r \in Routes, NEW c \in Callbacks, NEW last \in {Collecting, Removing},
         \A d \in Callbacks : callback[r][d] # Idle => c = d,
         Expires(r, last),
         Reads(r, c) \/ Writes(r, c) \/ Compares(r, c) \/ Marks(r, c) \/ (Collect(r, c) /\ last = Removing)
  PROVE  Expires(r, last)'
<1>1. \A d \in Callbacks \ {c} : callback[r][d] = Idle
  OBVIOUS
<1>2. /\ \/ count[r]["gc"] < Flush
         \/ callback[r][c] = On("gc", "Compares") /\ count[r]["gc"] = Flush
         \/ callback[r][c] \in last
      /\ callback[r][c] = On("gc", "Writes") => counted[r][c] < Flush
  BY <1>1 DEF Expires, Collecting, Removing, Idle, On
<1>3. SUFFICES /\ \/ count'[r]["gc"] < Flush
                  \/ callback'[r][c] = On("gc", "Compares") /\ count'[r]["gc"] = Flush
                  \/ callback'[r][c] \in last
               /\ callback'[r][c] = On("gc", "Writes") => counted'[r][c] < Flush
               /\ SlotsKept(r, c)
  BY <1>1 DEF Expires, SlotsKept, Idle, On
<1>4. "gc" \in Timers /\ Flush \in Nat /\ Interval("gc") = Flush /\ counted[r][c] \in Nat
  BY Intervals, StageType DEF Timers
<1>5. CASE Reads(r, c)
  <2>1. PICK t \in Timers :
          /\ callback[r][c] = On(t, "Reads") /\ callback'[r][c] = On(t, "Writes")
          /\ counted'[r][c] = count[r][t] /\ SlotsKept(r, c) /\ count' = count
    BY <1>5, ReadsDoes
  <2>2. count[r]["gc"] < Flush
    BY <1>2, <2>1 DEF Collecting, Removing, On
  <2>3. QED
    BY <2>1, <2>2, StagesDiffer
<1>6. CASE Writes(r, c)
  <2>1. PICK t \in Timers :
          /\ callback[r][c] = On(t, "Writes") /\ callback'[r][c] = On(t, "Compares")
          /\ count'[r][t] = Next1(counted[r][c], Interval(t)) /\ SlotsKept(r, c)
          /\ \A u \in Timers \ {t} : count'[r][u] = count[r][u]
    BY <1>6, WritesDoes
  <2>2. CASE t = "gc"
    <3>1. counted[r][c] < Flush
      BY <1>2, <2>1, <2>2
    <3>2. count'[r]["gc"] = counted[r][c] + 1
      BY <1>4, <2>1, <2>2, <3>1, CountType
    <3>3. count'[r]["gc"] < Flush \/ count'[r]["gc"] = Flush
      BY <1>4, <3>1, <3>2
    <3>4. QED
      BY <2>1, <2>2, <3>3, StagesDiffer
  <2>3. CASE t # "gc"
    <3>1. count[r]["gc"] < Flush
      BY <1>2, <2>1 DEF Collecting, Removing, On
    <3>2. QED
      BY <1>4, <2>1, <2>3, <3>1, StagesDiffer
  <2>4. QED
    BY <2>2, <2>3
<1>7. CASE Compares(r, c)
  <2>1. PICK t \in Timers :
          /\ callback[r][c] = On(t, "Compares") /\ SlotsKept(r, c) /\ UNCHANGED <<count, counted>>
          /\ callback'[r][c] = IF count[r][t] = Interval(t) THEN On(t, "Acts") ELSE NextTimer(t)
    BY <1>7, ComparesDoes
  <2>2. callback'[r][c] # On("gc", "Writes")
    BY <2>1, Stages DEF On, Idle
  <2>3. count[r]["gc"] < Flush \/ (t = "gc" /\ count[r]["gc"] = Flush)
    BY <1>2, <2>1 DEF Collecting, Removing, On
  <2>4. On("gc", "Acts") \in last
    BY DEF Collecting, Removing
  <2>5. QED
    BY <1>4, <2>1, <2>2, <2>3, <2>4
<1>8. CASE Marks(r, c)
  <2>1. PICK t \in {"hold", "invalid"} :
          /\ callback[r][c] = On(t, "Acts") /\ callback'[r][c] = NextTimer(t)
          /\ SlotsKept(r, c) /\ UNCHANGED <<count, counted>>
    BY <1>8, MarksDoes
  <2>2. count[r]["gc"] < Flush
    BY <1>2, <2>1 DEF Collecting, Removing, On
  <2>3. callback'[r][c] # On("gc", "Writes")
    BY <2>1, Stages DEF On
  <2>4. QED
    BY <2>1, <2>2, <2>3
<1>9. CASE Collect(r, c) /\ last = Removing
  <2>1. /\ callback'[r][c] = On("gc", "Withdraws") /\ SlotsKept(r, c)
    BY <1>9, RemovesDoes
  <2>2. callback'[r][c] \in last /\ callback'[r][c] # On("gc", "Writes")
    BY <1>9, <2>1 DEF Removing, On
  <2>3. QED
    BY <2>1, <2>2
<1>10. QED
  BY <1>5, <1>6, <1>7, <1>8, <1>9

LEMMA EntryElapse ==
  ASSUME RipInv, EntryInv, NEW r \in Routes, NEW c \in Callbacks, Elapses(r, c)
  PROVE  EntryInv'
<1>1. /\ Types /\ SlotsKept(r, c) /\ KeptBut(r) /\ NetsKept /\ late' = late
      /\ callback[r][c] # Idle /\ route[r].net \in Networks
      /\ \A x \in Networks : /\ ripDatabase'[x] \in {None, ripDatabase[x]}
                             /\ routeList'[x] \in {None, routeList[x]}
  BY ElapseDoes DEF RipInv
<1>2. ASSUME NEW x \in Networks, late[x] = 0 PROVE Single(x)' /\ Entries(x)'
  <2>1. Single(x) /\ Entries(x)
    BY <1>2 DEF EntryInv
  <2>2. Single(x)'
    BY <1>1, <2>1 DEF Single, SlotsKept, NetsKept
  <2>3. ASSUME NEW k \in Routes \ {r}, NEW last, Expires(k, last) PROVE Expires(k, last)'
    BY <1>1, <2>3 DEF Expires, SlotsKept, KeptBut
  <2>4. ASSUME route[r].net = x, NEW last \in {Collecting, Removing}, Expires(r, last),
               Reads(r, c) \/ Writes(r, c) \/ Compares(r, c) \/ Marks(r, c) \/ (Collect(r, c) /\ last = Removing)
        PROVE  Expires(r, last)'
    <3>1. \A d \in Callbacks : callback[r][d] # Idle => c = d
      BY <1>1, <2>1, <2>4 DEF Single
    <3>2. QED
      BY <1>1, <2>4, <3>1, ExpiresStep
  <2>5. ASSUME NEW k, k = ripDatabase'[x], k # None PROVE Expires(k, Collecting)'
    <3>1. k \in Routes /\ route[k].net = x /\ Expires(k, Collecting) /\ k = ripDatabase[x]
      BY <1>1, <2>1, <2>5, EntryObject DEF Entries
    <3>2. CASE k # r
      BY <2>3, <3>1, <3>2
    <3>3. CASE k = r
      <4>1. ~Collect(r, c)
        BY <1>1, <2>5, <3>1, <3>3, RemovesDoes
      <4>2. CASE Withdraw(r, c)
        <5>1. /\ callback[r][c] = On("gc", "Withdraws") /\ callback'[r][c] = Idle
              /\ UNCHANGED <<count, counted>>
          BY <1>1, <4>2, RemovesDoes
        <5>2. \A d \in Callbacks : callback[r][d] # Idle => c = d
          BY <1>1, <2>1, <3>1, <3>3 DEF Single
        <5>3. count[r]["gc"] < Flush
          BY <3>1, <3>3, <5>1, <5>2 DEF Expires, Collecting, On, Idle
        <5>4. \A d \in Callbacks : callback'[r][d] # On("gc", "Writes")
          BY <1>1, <5>1, <5>2 DEF SlotsKept, On, Idle
        <5>5. QED
          BY <3>3, <5>1, <5>3, <5>4 DEF Expires
      <4>3. QED
        BY <2>4, <3>1, <3>3, <4>1, <4>2 DEF Elapses
    <3>4. QED
      BY <3>2, <3>3
  <2>6. ASSUME NEW k, k = routeList'[x], k # None PROVE Expires(k, Removing)'
    <3>1. k \in Routes /\ route[k].net = x /\ Expires(k, Removing) /\ k = routeList[x]
      BY <1>1, <2>1, <2>6, EntryObject DEF Entries
    <3>2. CASE k # r
      BY <2>3, <3>1, <3>2
    <3>3. CASE k = r
      <4>1. ~Withdraw(r, c)
        BY <1>1, <2>6, <3>1, <3>3, RemovesDoes
      <4>2. QED
        BY <2>4, <3>1, <3>3, <4>1 DEF Elapses
    <3>4. QED
      BY <3>2, <3>3
  <2>7. Entries(x)'
    <3>1. ASSUME ripDatabase'[x] # None PROVE Expires(ripDatabase[x], Collecting)'
      <4>1. PICK k : k = ripDatabase'[x]
        OBVIOUS
      <4>2. Expires(k, Collecting)'
        BY <2>5, <3>1, <4>1
      <4>3. QED
        BY <4>1, <4>2 DEF Expires
    <3>2. ASSUME routeList'[x] # None PROVE Expires(routeList[x], Removing)'
      <4>1. PICK k : k = routeList'[x]
        OBVIOUS
      <4>2. Expires(k, Removing)'
        BY <2>6, <3>2, <4>1
      <4>3. QED
        BY <4>1, <4>2 DEF Expires
    <3>3. QED
      BY <3>1, <3>2 DEF Entries
  <2>8. QED
    BY <2>2, <2>7
<1>3. QED
  BY <1>1, <1>2 DEF EntryInv

-----------------------------------------------------------------------------
(* Networks on which no packet and no timer have met. *)

\* Where the handler is at a header and no meeting has been recorded, the timers
\* of the network rest.
LEMMA Apart ==
  ASSUME RNext, NEW x \in Networks \ overlapped'
  PROVE  /\ x \notin overlapped
         /\ at' # "Idle" /\ header'.net = x =>
              \A r \in Routes : route'[r].net = x => ~Busy(r)'
<1>1. Meets
  BY DEF RNext, Handles, ResponseArrives, RouteIsGone, Compare, Improve, Sight, AddRoute,
         RegisterRoute, Second, Elapses, Reads, Writes, Compares, Marks, Collect, Withdraw
<1>2. QED
  BY <1>1 DEF Meets, Overlaps, Counting

LEMMA AgreeLooks ==
  ASSUME RipInv, RNext, NEW x \in Networks \ overlapped', Held(x), Agrees(x),
         ResponseArrives \/ RouteIsGone \/ Compare \/ Improve
  PROVE  Held(x)' /\ Agrees(x)'
<1>1. /\ UNCHANGED <<callback, ripDatabase, routeList>> /\ NetsKept
      /\ Types /\ HandlerInv
  BY LooksDoes, CompareDoes, ImproveDoes DEF RipInv, NetsKept
<1>2. at # "Added" /\ at' # "Added"
  BY DEF ResponseArrives, RouteIsGone, Compare, Improve
<1>3. Agrees(x)'
  BY <1>1, <1>2 DEF Agrees, Withdrawing, NetsKept
<1>4. Held(x)'
  <2>1. SUFFICES ASSUME at' # "Idle", header'.net = x, at' \in {"Better", "Compared"}
                 PROVE  ripDatabase'[x] = seen'
    BY <1>2, Apart DEF Held
  <2>2. CASE ResponseArrives \/ RouteIsGone
    BY <2>1, <2>2 DEF ResponseArrives, RouteIsGone
  <2>3. CASE Compare
    BY <1>1, <2>1, <2>3, CompareDoes
  <2>4. CASE Improve
    BY <1>1, <2>1, <2>4, ImproveDoes
  <2>5. QED
    BY <2>2, <2>3, <2>4
<1>5. QED
  BY <1>3, <1>4

LEMMA AgreeSight ==
  ASSUME RipInv, NEW x \in Networks, Agrees(x), Sight
  PROVE  Held(x)' /\ Agrees(x)'
<1>1. /\ UNCHANGED <<callback, route, ripDatabase, routeList>>
      /\ at = "Compared" /\ at' = "Idle"
  BY SightDoes DEF RipInv
<1>2. QED
  BY <1>1 DEF Held, Agrees, Withdrawing

LEMMA AgreeAdd ==
  ASSUME RipInv, RNext, NEW x \in Networks \ overlapped', Held(x), Agrees(x), AddRoute
  PROVE  Held(x)' /\ Agrees(x)'
<1>1. Types /\ HandlerInv
  BY DEF RipInv
<1>2. PICK f \in Routes :
        /\ KeptBut(f) /\ ~Busy(f) /\ f # None /\ seen' = f /\ route'[f].net = header.net
        /\ ripDatabase' = [ripDatabase EXCEPT ![header.net] = f]
        /\ \A y \in Networks : ripDatabase[y] # f /\ routeList[y] # f
  BY <1>1, AddRouteDoes
<1>3. /\ at = "Unknown" /\ at' = "Added" /\ header.net \in Networks
      /\ ripDatabase[header.net] = None
      /\ UNCHANGED <<callback, routeList, header>>
  BY <1>1, AddRouteDoes
<1>4. Withdrawing(x)' => Withdrawing(x) /\ header.net # x
  <2>1. SUFFICES ASSUME NEW r \in Routes, NEW c \in Callbacks,
                        callback[r][c] = On("gc", "Withdraws"), route'[r].net = x
                 PROVE  Withdrawing(x) /\ header.net # x
    BY <1>3 DEF Withdrawing
  <2>2. Busy(r)
    BY <2>1 DEF Busy, On, Idle
  <2>3. r # f /\ route[r].net = x
    BY <1>2, <2>1, <2>2 DEF KeptBut
  <2>4. header.net # x
    BY <1>3, <2>2, <2>3 DEF Held
  <2>5. QED
    BY <2>1, <2>3, <2>4 DEF Withdrawing
<1>5. CASE header.net # x
  <2>1. ripDatabase'[x] = ripDatabase[x]
    BY <1>1, <1>2, <1>3, <1>5, Kept
  <2>2. Withdrawing(x) => Withdrawing(x)'
    <3>1. SUFFICES ASSUME NEW r \in Routes, NEW c \in Callbacks,
                          callback[r][c] = On("gc", "Withdraws"), route[r].net = x
                   PROVE  Withdrawing(x)'
      BY DEF Withdrawing
    <3>2. r # f
      BY <1>2, <3>1 DEF Busy, On, Idle
    <3>3. QED
      BY <1>2, <1>3, <3>1, <3>2 DEF Withdrawing, KeptBut
  <2>3. Held(x)'
    BY <1>3, <1>5 DEF Held
  <2>4. QED
    BY <1>3, <1>4, <1>5, <2>1, <2>2, <2>3 DEF Agrees
<1>6. CASE header.net = x
  <2>1. ripDatabase'[x] = f /\ ripDatabase[x] = None
    BY <1>1, <1>2, <1>3, <1>6, Kept
  <2>2. ~Withdrawing(x)
    <3>1. SUFFICES ASSUME NEW r \in Routes, NEW c \in Callbacks,
                          callback[r][c] = On("gc", "Withdraws"), route[r].net = x
                   PROVE  FALSE
      BY DEF Withdrawing
    <3>2. Busy(r)
      BY <3>1 DEF Busy, On, Idle
    <3>3. QED
      BY <1>3, <1>6, <3>1, <3>2 DEF Held
  <2>3. routeList[x] = None
    BY <1>3, <2>1, <2>2 DEF Agrees
  <2>4. Held(x)'
    BY <1>2, <1>3, <2>1, <2>3, Apart DEF Held
  <2>5. QED
    BY <1>3, <1>4, <1>6, <2>4 DEF Agrees
<1>7. QED
  BY <1>5, <1>6

LEMMA AgreeRegister ==
  ASSUME RipInv, NEW x \in Networks, Held(x), Agrees(x), RegisterRoute
  PROVE  Held(x)' /\ Agrees(x)'
<1>1. /\ UNCHANGED <<route, callback, ripDatabase>> /\ at = "Added" /\ at' = "Idle"
      /\ \A y \in Networks \ {header.net} : routeList'[y] = routeList[y]
      /\ routeList[header.net] = None => routeList'[header.net] = seen
  BY RegisterRouteDoes DEF RipInv
<1>2. Withdrawing(x)' <=> Withdrawing(x)
  BY <1>1 DEF Withdrawing
<1>3. CASE header.net = x
  BY <1>1, <1>2, <1>3 DEF Held, Agrees
<1>4. CASE header.net # x
  BY <1>1, <1>2, <1>4 DEF Held, Agrees
<1>5. QED
  BY <1>3, <1>4

LEMMA AgreeSecond ==
  ASSUME RipInv, NEW x \in Networks, Agrees(x), Second
  PROVE  Held(x)' /\ Agrees(x)'
<1>1. /\ UNCHANGED <<route, ripDatabase, routeList>> /\ at = "Idle" /\ at' = "Idle"
      /\ \A r \in Routes, c \in Callbacks :
           \/ callback'[r][c] = callback[r][c]
           \/ callback[r][c] = Idle /\ callback'[r][c] = On("hold", "Reads")
  BY SecondDoes DEF RipInv
<1>2. ASSUME NEW r \in Routes, NEW c \in Callbacks
      PROVE  callback'[r][c] = On("gc", "Withdraws") <=> callback[r][c] = On("gc", "Withdraws")
  BY <1>1 DEF On, Idle
<1>3. Withdrawing(x)' <=> Withdrawing(x)
  BY <1>1, <1>2 DEF Withdrawing
<1>4. QED
  BY <1>1, <1>3 DEF Held, Agrees

LEMMA AgreeElapse ==
  ASSUME RipInv, NEW x \in Networks, Held(x), Agrees(x),
         NEW r \in Routes, NEW c \in Callbacks, Elapses(r, c)
  PROVE  Held(x)' /\ Agrees(x)'
<1>1. /\ Types /\ HandlerInv /\ SlotsKept(r, c) /\ NetsKept /\ UNCHANGED <<at, header, seen>>
      /\ callback[r][c] # Idle /\ Busy(r)
      /\ \A k \in Networks \ {route[r].net} :
           ripDatabase'[k] = ripDatabase[k] /\ routeList'[k] = routeList[k]
      /\ \A y \in Networks : ripDatabase'[y] \in {None, ripDatabase[y]}
  BY ElapseDoes DEF RipInv
<1>2. \A k \in Routes : Busy(k)' => Busy(k)
  BY <1>1 DEF Busy, SlotsKept
<1>3. Held(x)'
  <2>1. SUFFICES ASSUME at # "Idle", header.net = x PROVE Held(x)'
    BY <1>1 DEF Held
  <2>2. route[r].net # x
    BY <1>1, <2>1 DEF Held
  <2>3. QED
    BY <1>1, <1>2, <2>1, <2>2 DEF Held, NetsKept
<1>4. CASE Reads(r, c) \/ Writes(r, c) \/ Compares(r, c) \/ Marks(r, c)
  <2>1. /\ UNCHANGED <<ripDatabase, routeList>>
        /\ callback[r][c] # On("gc", "Withdraws") /\ callback'[r][c] # On("gc", "Withdraws")
    <3>1. CASE Reads(r, c)
      BY <1>1, <3>1, ReadsDoes, StagesDiffer
    <3>2. CASE Writes(r, c)
      BY <1>1, <3>2, WritesDoes, StagesDiffer
    <3>3. CASE Compares(r, c)
      <4>1. PICK t \in Timers :
              /\ callback[r][c] = On(t, "Compares") /\ UNCHANGED <<ripDatabase, routeList>>
              /\ callback'[r][c] = IF count[r][t] = Interval(t) THEN On(t, "Acts") ELSE NextTimer(t)
        BY <1>1, <3>3, ComparesDoes
      <4>2. QED
        BY <4>1, Stages DEF On, Idle
    <3>4. CASE Marks(r, c)
      <4>1. PICK t \in {"hold", "invalid"} :
              /\ callback[r][c] = On(t, "Acts") /\ callback'[r][c] = NextTimer(t)
              /\ UNCHANGED <<ripDatabase, routeList>>
        BY <1>1, <3>4, MarksDoes
      <4>2. QED
        BY <4>1, Stages DEF On
    <3>5. QED
      BY <1>4, <3>1, <3>2, <3>3, <3>4
  <2>2. Withdrawing(x)' <=> Withdrawing(x)
    BY <1>1, <2>1 DEF Withdrawing, SlotsKept, NetsKept
  <2>3. QED
    BY <1>1, <1>3, <2>1, <2>2 DEF Agrees
<1>5. CASE Collect(r, c)
  <2>1. /\ callback[r][c] # On("gc", "Withdraws") /\ callback'[r][c] = On("gc", "Withdraws")
        /\ ripDatabase'[route[r].net] = None /\ UNCHANGED <<route, routeList>>
    BY <1>1, <1>5, RemovesDoes, StagesDiffer
  <2>2. CASE route[r].net = x
    <3>1. Withdrawing(x)'
      BY <2>1, <2>2 DEF Withdrawing
    <3>2. QED
      BY <1>3, <2>1, <2>2, <3>1 DEF Agrees
  <2>3. CASE route[r].net # x
    <3>1. Withdrawing(x)' <=> Withdrawing(x)
      BY <1>1, <2>1, <2>3 DEF Withdrawing, SlotsKept
    <3>2. QED
      BY <1>1, <1>3, <2>1, <2>3, <3>1 DEF Agrees
  <2>4. QED
    BY <2>2, <2>3
<1>6. CASE Withdraw(r, c)
  <2>1. /\ callback[r][c] = On("gc", "Withdraws") /\ callback'[r][c] = Idle
        /\ routeList'[route[r].net] = None /\ UNCHANGED <<route, ripDatabase>>
    BY <1>1, <1>6, RemovesDoes
  <2>2. Withdrawing(x)' => Withdrawing(x)
    BY <1>1, <2>1 DEF Withdrawing, SlotsKept, On, Idle
  <2>3. CASE route[r].net = x
    <3>1. Withdrawing(x)
      BY <2>1, <2>3 DEF Withdrawing
    <3>2. QED
      BY <1>3, <2>1, <2>2, <2>3, <3>1 DEF Agrees
  <2>4. CASE route[r].net # x
    <3>1. Withdrawing(x) => Withdrawing(x)'
      BY <1>1, <2>1, <2>4 DEF Withdrawing, SlotsKept
    <3>2. QED
      BY <1>1, <1>3, <2>1, <2>2, <2>4, <3>1 DEF Agrees
  <2>5. QED
    BY <2>3, <2>4
<1>7. QED
  BY <1>4, <1>5, <1>6 DEF Elapses

-----------------------------------------------------------------------------
(* Networks that no packet has met a timer on and whose seconds are counted *)
(* in time.                                                                 *)

\* What is known of such a network.
Known(x) ==
  /\ Single(x) /\ Entries(x) /\ Held(x) /\ Agrees(x) /\ Alone(x) /\ Timely(x)

\* A callback that rests has nothing still to write.
LEMMA AtRest ==
  ASSUME Types, NEW r \in Routes, ~Busy(r), NEW c \in Callbacks
  PROVE  /\ \A t \in {"invalid", "gc"} :
              ~Before(callback[r][c], t) /\ callback[r][c] # On(t, "Writes")
         /\ callback[r][c] # On("invalid", "Acts") /\ callback[r][c] \notin Removing
BY DEF Busy, Before, Idle, On, Removing

LEMMA CalmLooks ==
  ASSUME RipInv, NEW x \in Networks, Known(x),
         ResponseArrives \/ RouteIsGone \/ Compare \/ Improve
  PROVE  Alone(x)' /\ Timely(x)'
<1>1. /\ UNCHANGED <<callback, counted, ripDatabase, silent>> /\ NetsKept /\ Types
      /\ \A r \in Routes : /\ count'[r]["gc"] = count[r]["gc"]
                           /\ count'[r]["invalid"] = count[r]["invalid"]
  BY LooksDoes, CompareDoes, ImproveDoes DEF RipInv, NetsKept
<1>2. Alone(x)'
  BY <1>1 DEF Known, Alone, NetsKept, Busy
<1>3. Timely(x)'
  BY <1>1, EntryObject DEF Known, Timely
<1>4. QED
  BY <1>2, <1>3

LEMMA CalmSight ==
  ASSUME RipInv, NEW x \in Networks, Known(x), Sight
  PROVE  Alone(x)' /\ Timely(x)'
<1>1. /\ UNCHANGED <<route, callback, counted, ripDatabase>> /\ Types
      /\ at = "Compared" /\ KeptBut(seen) /\ seen \in Routes
      /\ count'[seen]["gc"] = 0 /\ count'[seen]["invalid"] = 0
      /\ route[seen].net = header.net /\ silent' = [silent EXCEPT ![header.net] = 0]
      /\ silent \in [Networks -> Nat]
  BY SightDoes, Kept DEF RipInv
<1>2. CASE header.net # x
  <2>1. /\ \A r \in Routes : route[r].net = x => count'[r] = count[r]
        /\ silent'[x] = silent[x]
    BY <1>1, <1>2 DEF KeptBut
  <2>2. Alone(x)'
    BY <1>1, <2>1 DEF Known, Alone, Busy
  <2>3. Timely(x)'
    BY <1>1, <2>1, EntryObject DEF Known, Timely
  <2>4. QED
    BY <2>2, <2>3
<1>3. CASE header.net = x
  <2>1. /\ ripDatabase[x] = seen /\ silent'[x] = 0
        /\ \A r \in Routes : route[r].net = x => ~Busy(r)
    BY <1>1, <1>3 DEF Known, Held
  <2>2. Alone(x)'
    <3>1. SUFFICES ASSUME NEW r \in Routes, route[r].net = x
                   PROVE  /\ count'[r]["gc"] < Flush \/ Busy(r)' =>
                               ripDatabase'[x] = r \/ \E c \in Callbacks : callback'[r][c] = On("gc", "Withdraws")
                          /\ \A c \in Callbacks : callback'[r][c] \in Removing => count'[r]["gc"] = Flush
      BY <1>1 DEF Alone
    <3>2. ~Busy(r) /\ ~Busy(r)' /\ \A c \in Callbacks : callback'[r][c] \notin Removing
      BY <1>1, <2>1, <3>1, AtRest DEF Busy
    <3>3. r # seen => count'[r] = count[r]
      BY <1>1, <3>1 DEF KeptBut
    <3>4. QED
      BY <1>1, <2>1, <3>1, <3>2, <3>3 DEF Known, Alone
  <2>3. Timely(x)'
    <3>1. \A c \in Callbacks : /\ \A t \in {"invalid", "gc"} : ~Before(callback[seen][c], t)
                                                              /\ callback[seen][c] # On(t, "Writes")
                               /\ callback[seen][c] # On("invalid", "Acts")
      BY <1>1, <1>3, <2>1, AtRest
    <3>2. QED
      BY <1>1, <2>1, <3>1 DEF Timely
  <2>4. QED
    BY <2>2, <2>3
<1>4. QED
  BY <1>2, <1>3

LEMMA CalmAdd ==
  ASSUME RipInv, NEW x \in Networks, Known(x), AddRoute
  PROVE  Alone(x)' /\ Timely(x)'
<1>1. Types /\ HandlerInv
  BY DEF RipInv
<1>2. PICK f \in Routes :
        /\ KeptBut(f) /\ ~Busy(f) /\ f # None /\ route'[f].net = header.net
        /\ count'[f]["gc"] = 0 /\ count'[f]["invalid"] = 0
        /\ ripDatabase' = [ripDatabase EXCEPT ![header.net] = f]
        /\ \A y \in Networks : ripDatabase[y] # f /\ routeList[y] # f
  BY <1>1, AddRouteDoes
<1>3. /\ at = "Unknown" /\ header.net \in Networks /\ ripDatabase[header.net] = None
      /\ silent' = [silent EXCEPT ![header.net] = 0]
      /\ UNCHANGED <<callback, counted, routeList>>
  BY <1>1, AddRouteDoes
<1>4. CASE header.net # x
  <2>1. ripDatabase'[x] = ripDatabase[x] /\ silent'[x] = silent[x]
    BY <1>1, <1>2, <1>3, <1>4, Kept
  <2>2. \A r \in Routes : route'[r].net = x => r # f /\ route'[r] = route[r] /\ count'[r] = count[r]
    BY <1>2, <1>4 DEF KeptBut
  <2>3. Alone(x)'
    BY <1>3, <2>1, <2>2 DEF Known, Alone, Busy
  <2>4. Timely(x)'
    <3>1. ripDatabase[x] # None => ripDatabase[x] \in Routes /\ count'[ripDatabase[x]] = count[ripDatabase[x]]
      BY <1>1, <1>2, EntryObject DEF KeptBut
    <3>2. QED
      BY <1>3, <2>1, <3>1 DEF Known, Timely
  <2>5. QED
    BY <2>3, <2>4
<1>5. CASE header.net = x
  <2>1. /\ ripDatabase'[x] = f /\ silent'[x] = 0 /\ ripDatabase[x] = None
        /\ \A r \in Routes : route[r].net = x => ~Busy(r)
    BY <1>1, <1>2, <1>3, <1>5, Kept DEF Known, Held
  <2>2. Alone(x)'
    <3>1. SUFFICES ASSUME NEW r \in Routes, route'[r].net = x
                   PROVE  /\ count'[r]["gc"] < Flush => ripDatabase'[x] = r
                          /\ ~Busy(r)' /\ \A c \in Callbacks : callback'[r][c] \notin Removing
      BY DEF Alone
    <3>2. CASE r = f
      BY <1>1, <1>2, <1>3, <2>1, <3>2, AtRest DEF Busy
    <3>3. CASE r # f
      <4>1. route'[r] = route[r] /\ count'[r] = count[r] /\ ~Busy(r)
        BY <1>2, <2>1, <3>1, <3>3 DEF KeptBut
      <4>2. \A c \in Callbacks : callback[r][c] # On("gc", "Withdraws") /\ callback[r][c] \notin Removing
        BY <1>1, <4>1, AtRest DEF Removing
      <4>3. r # None
        BY RipAssumption
      <4>4. ~(count[r]["gc"] < Flush)
        BY <2>1, <3>1, <4>1, <4>2, <4>3 DEF Known, Alone
      <4>5. QED
        BY <1>3, <4>1, <4>2, <4>4 DEF Busy
    <3>4. QED
      BY <3>2, <3>3
  <2>3. Timely(x)'
    <3>1. \A c \in Callbacks : /\ \A t \in {"invalid", "gc"} : ~Before(callback[f][c], t)
                                                              /\ callback[f][c] # On(t, "Writes")
                               /\ callback[f][c] # On("invalid", "Acts")
      BY <1>1, <1>2, AtRest
    <3>2. QED
      BY <1>2, <1>3, <2>1, <3>1 DEF Timely
  <2>4. QED
    BY <2>2, <2>3
<1>6. QED
  BY <1>4, <1>5

LEMMA CalmRegister ==
  ASSUME RipInv, NEW x \in Networks, Known(x), RegisterRoute
  PROVE  Alone(x)' /\ Timely(x)'
<1>1. UNCHANGED <<route, count, callback, counted, ripDatabase, silent>>
  BY RegisterRouteDoes DEF RipInv
<1>2. QED
  BY <1>1 DEF Known, Alone, Timely, Busy

LEMMA SilentLonger ==
  ASSUME NEW s \in Nat, NEW n \in Nat, NEW i \in Nat, n <= s, n < i + 1
  PROVE  n < Next1(s, i)
BY DEF Next1, Lesser

LEMMA CalmSecond ==
  ASSUME RipInv, NEW x \in Networks, Known(x), late'[x] = 0, Second
  PROVE  Alone(x)' /\ Timely(x)'
<1>1. /\ UNCHANGED <<route, count, counted, ripDatabase, routeList>> /\ at = "Idle"
      /\ \A r \in Routes, c \in Callbacks :
           \/ callback'[r][c] = callback[r][c]
           \/ ~Forgotten(r) /\ callback'[r][c] = On("hold", "Reads")
      /\ silent' = [y \in Networks |-> Next1(silent[y], Flush + Invalid)]
      /\ late[x] \in Nat
      /\ late'[x] = IF Counting(x) THEN late[x] + 1 ELSE late[x]
      /\ Types /\ HandlerInv
  BY SecondDoes DEF RipInv
<1>2. ~Counting(x)
  <2>1. CASE Counting(x)
    BY <1>1, <2>1
  <2>2. QED
    BY <2>1
<1>3. \A r \in Routes : route[r].net = x => ~Busy(r) /\ \A c \in Callbacks : callback[r][c] = Idle
  BY <1>2 DEF Counting, Busy
<1>4. routeList[x] = ripDatabase[x]
  <2>1. ~Withdrawing(x)
    BY <1>3 DEF Withdrawing, On, Idle
  <2>2. QED
    BY <1>1, <2>1 DEF Known, Agrees
<1>5. ASSUME NEW r \in Routes, route[r].net = x, NEW c \in Callbacks
      PROVE  callback'[r][c] = Idle \/ (~Forgotten(r) /\ callback'[r][c] = On("hold", "Reads"))
  BY <1>1, <1>3, <1>5
<1>6. Alone(x)'
  <2>1. ASSUME NEW r \in Routes, route[r].net = x, count[r]["gc"] < Flush \/ Busy(r)'
        PROVE  ripDatabase[x] = r
    <3>1. CASE count[r]["gc"] < Flush
      BY <1>3, <2>1, <3>1 DEF Known, Alone, On, Idle
    <3>2. CASE ~(count[r]["gc"] < Flush)
      <4>1. ~Forgotten(r)
        BY <1>5, <2>1, <3>2 DEF Busy
      <4>2. count[r]["gc"] >= Flush
        BY <1>1, <3>2, StageType, Kept, Intervals DEF Timers
      <4>3. seen # r /\ ~Busy(r)
        BY <1>1, <1>3, <2>1, RipAssumption DEF HandlerInv
      <4>4. PICK y \in Networks : ripDatabase[y] = r \/ routeList[y] = r
        BY <4>1, <4>2, <4>3 DEF Forgotten
      <4>5. y = x
        BY <1>1, <2>1, <4>4, EntryObject, RipAssumption
      <4>6. QED
        BY <1>4, <4>4, <4>5
    <3>3. QED
      BY <3>1, <3>2
  <2>2. ASSUME NEW r \in Routes, route[r].net = x, NEW c \in Callbacks
        PROVE  callback'[r][c] \notin Removing
    BY <1>5, <2>2 DEF Removing, On, Idle
  <2>3. QED
    BY <1>1, <2>1, <2>2 DEF Alone
<1>7. Timely(x)'
  <2>1. SUFFICES ASSUME ripDatabase[x] # None PROVE Timely(x)'
    BY <1>1 DEF Timely
  <2>2. PICK r \in Routes : r = ripDatabase[x] /\ route[r].net = x
    BY <1>1, <2>1, EntryObject
  <2>3. silent[x] \in Nat /\ silent'[x] = Next1(silent[x], Flush + Invalid)
    BY <1>1, Kept
  <2>4. count[r]["gc"] < Flush
    <3>1. Expires(r, Collecting)
      BY <2>1, <2>2 DEF Known, Entries
    <3>2. QED
      BY <1>3, <2>2, <3>1 DEF Expires, Collecting, On, Idle
  <2>5. ASSUME NEW t \in {"invalid", "gc"}
        PROVE  /\ count[r][t] \in Nat /\ count[r][t] <= silent[x]
               /\ count[r][t] < Flush + Invalid + 1
    <3>1. count[r][t] \in Nat /\ count[r][t] <= Interval(t) + 1
      BY <1>1, Kept DEF Timers
    <3>2. count[r][t] <= silent[x]
      BY <2>1, <2>2 DEF Known, Timely
    <3>3. t = "invalid" => Interval(t) = Invalid
      BY Intervals
    <3>4. count[r][t] < Flush + Invalid + 1
      BY <2>4, <3>1, <3>3, Intervals
    <3>5. QED
      BY <3>1, <3>2, <3>4
  <2>6. ASSUME NEW t \in {"invalid", "gc"} PROVE count[r][t] < silent'[x] /\ count[r][t] <= silent'[x]
    <3>1. Flush + Invalid \in Nat
      BY Intervals
    <3>2. count[r][t] < silent'[x]
      BY <2>3, <2>5, <3>1, SilentLonger
    <3>3. silent'[x] \in Nat
      BY <2>3, <3>1, CountType
    <3>4. QED
      BY <2>5, <3>2, <3>3
  <2>7. ASSUME NEW c \in Callbacks
        PROVE  /\ callback'[r][c] # On("invalid", "Acts")
               /\ \A t \in {"invalid", "gc"} : callback'[r][c] # On(t, "Writes")
    BY <1>5, <2>2, <2>7 DEF On, Idle
  <2>8. QED
    BY <1>1, <2>2, <2>6, <2>7 DEF Timely
<1>8. QED
  BY <1>6, <1>7

\* A callback for another network.
LEMMA CalmAside ==
  ASSUME RipInv, NEW x \in Networks, Known(x),
         NEW r \in Routes, NEW c \in Callbacks, Elapses(r, c), route[r].net # x
  PROVE  Alone(x)' /\ Timely(x)'
<1>1. /\ Types /\ NetsKept /\ KeptBut(r) /\ SlotsKept(r, c) /\ silent' = silent
      /\ ripDatabase'[x] = ripDatabase[x]
  BY ElapseDoes DEF RipInv
<1>2. \A k \in Routes : route[k].net = x => k # r
  OBVIOUS
<1>3. Alone(x)'
  BY <1>1, <1>2 DEF Known, Alone, NetsKept, KeptBut, SlotsKept, Busy
<1>4. Timely(x)'
  <2>1. ripDatabase[x] # None => ripDatabase[x] \in Routes \ {r}
    BY <1>1, EntryObject
  <2>2. QED
    BY <1>1, <2>1 DEF Known, Timely, KeptBut, SlotsKept
<1>5. QED
  BY <1>3, <1>4

\* What the count of one callback of the object in the database has to keep.
Paced(stage, n, s) ==
  /\ stage # On("gc", "Withdraws")
  /\ stage \in Removing => n["gc"] = Flush
  /\ stage = On("invalid", "Acts") => Invalid <= s
  /\ \A t \in {"invalid", "gc"} : n[t] <= s /\ (Before(stage, t) => n[t] < s)

LEMMA CalmStay ==
  ASSUME RipInv, NEW x \in Networks, Known(x), NEW r \in Routes, NEW c \in Callbacks,
         route[r].net = x, ripDatabase[x] = r, NetsKept, KeptBut(r), SlotsKept(r, c),
         \A d \in Callbacks : callback[r][d] # Idle => c = d,
         callback[r][c] # Idle, UNCHANGED <<ripDatabase, silent>>,
         Paced(callback'[r][c], count'[r], silent[x]),
         \A t \in {"invalid", "gc"} : callback'[r][c] = On(t, "Writes") => counted'[r][c] < silent[x]
  PROVE  Alone(x)' /\ Timely(x)'
<1>1. \A d \in Callbacks \ {c} : callback'[r][d] = Idle
  BY DEF SlotsKept
<1>2. Alone(x)'
  <2>1. SUFFICES ASSUME NEW k \in Routes, route[k].net = x
                 PROVE  /\ count'[k]["gc"] < Flush \/ Busy(k)' =>
                             ripDatabase[x] = k \/ \E d \in Callbacks : callback'[k][d] = On("gc", "Withdraws")
                        /\ \A d \in Callbacks : callback'[k][d] \in Removing => count'[k]["gc"] = Flush
    BY DEF Alone, NetsKept
  <2>2. CASE k = r
    BY <1>1, <2>2 DEF Paced, Removing, On, Idle
  <2>3. CASE k # r
    BY <2>1, <2>3 DEF Known, Alone, KeptBut, SlotsKept, Busy
  <2>4. QED
    BY <2>2, <2>3
<1>3. Timely(x)'
  <2>1. ASSUME NEW t \in {"invalid", "gc"}, NEW d \in Callbacks
        PROVE  /\ count'[r][t] <= silent[x]
               /\ Before(callback'[r][d], t) => count'[r][t] < silent[x]
               /\ callback'[r][d] = On(t, "Writes") => counted'[r][d] < silent[x]
               /\ callback'[r][d] = On("invalid", "Acts") => Invalid <= silent[x]
    <3>1. CASE d = c
      BY <3>1 DEF Paced
    <3>2. CASE d # c
      BY <1>1, <3>2 DEF Paced, Before, Idle, On
    <3>3. QED
      BY <3>1, <3>2
  <2>2. QED
    BY <2>1 DEF Timely
<1>4. QED
  BY <1>2, <1>3

\* A callback for the network itself, of the object in the database.
LEMMA PacedNow ==
  ASSUME RipInv, NEW x \in Networks, Known(x), NEW r \in Routes, NEW c \in Callbacks,
         route[r].net = x, callback[r][c] # Idle, callback[r][c] # On("gc", "Withdraws")
  PROVE  /\ ripDatabase[x] = r /\ r # None
         /\ \A d \in Callbacks : callback[r][d] # Idle => c = d
         /\ Paced(callback[r][c], count[r], silent[x])
         /\ \A t \in {"invalid", "gc"} : callback[r][c] = On(t, "Writes") => counted[r][c] < silent[x]
<1>1. \A d \in Callbacks : callback[r][d] # Idle => c = d
  BY DEF Known, Single
<1>2. ripDatabase[x] = r
  <2>1. Busy(r)
    BY DEF Busy
  <2>2. \A d \in Callbacks : callback[r][d] # On("gc", "Withdraws")
    BY <1>1 DEF On, Idle
  <2>3. QED
    BY <2>1, <2>2 DEF Known, Alone
<1>3. r # None
  BY RipAssumption
<1>4. Timely(x) /\ Alone(x)
  BY DEF Known
<1>5. Paced(callback[r][c], count[r], silent[x])
  BY <1>2, <1>3, <1>4 DEF Timely, Alone, Paced
<1>6. QED
  BY <1>1, <1>2, <1>3, <1>4, <1>5 DEF Timely

\* The callback goes on: whatever is still before it was before.
LEMMA PacedNext ==
  ASSUME NEW u \in Timers, NEW e, NEW n, NEW s, Paced(On(u, e), n, s), e # "Reads"
  PROVE  Paced(NextTimer(u), n, s)
<1>1. u \in {"hold", "invalid", "gc"}
  BY DEF Timers
<1>2. CASE u = "hold"
  BY <1>2, Stages DEF Paced, Before, On, Removing
<1>3. CASE u = "invalid"
  BY <1>3, Stages DEF Paced, Before, On, Removing
<1>4. CASE u = "gc"
  BY <1>4, Stages DEF Paced, Before, On, Removing, Idle
<1>5. QED
  BY <1>1, <1>2, <1>3, <1>4

LEMMA CalmCount ==
  ASSUME RipInv, NEW x \in Networks, Known(x), NEW r \in Routes, NEW c \in Callbacks,
         Reads(r, c) \/ Writes(r, c) \/ Compares(r, c) \/ Marks(r, c), route[r].net = x
  PROVE  Alone(x)' /\ Timely(x)'
<1>1. /\ Types /\ NetsKept /\ KeptBut(r) /\ SlotsKept(r, c) /\ silent' = silent
      /\ callback[r][c] # Idle /\ silent[x] \in Nat
  BY ElapseDoes, Kept DEF RipInv, Elapses
<1>2. ASSUME callback[r][c] # On("gc", "Withdraws"), UNCHANGED ripDatabase,
             Paced(callback'[r][c], count'[r], silent[x]),
             \A t \in {"invalid", "gc"} : callback'[r][c] = On(t, "Writes") => counted'[r][c] < silent[x]
      PROVE  Alone(x)' /\ Timely(x)'
  <2>1. ripDatabase[x] = r /\ \A d \in Callbacks : callback[r][d] # Idle => c = d
    BY <1>1, <1>2, PacedNow
  <2>2. QED
    BY <1>1, <1>2, <2>1, CalmStay
<1>3. ASSUME callback[r][c] # On("gc", "Withdraws")
      PROVE  /\ Paced(callback[r][c], count[r], silent[x])
             /\ \A t \in {"invalid", "gc"} : callback[r][c] = On(t, "Writes") => counted[r][c] < silent[x]
  BY <1>1, <1>3, PacedNow
<1>4. CASE Reads(r, c)
  <2>1. PICK t \in Timers :
          /\ callback[r][c] = On(t, "Reads") /\ callback'[r][c] = On(t, "Writes")
          /\ counted'[r][c] = count[r][t] /\ UNCHANGED <<count, ripDatabase>>
    BY <1>1, <1>4, ReadsDoes
  <2>2. callback[r][c] # On("gc", "Withdraws")
    BY <2>1, StagesDiffer
  <2>3. Paced(On(t, "Reads"), count[r], silent[x])
    BY <1>3, <2>1, <2>2
  <2>4. Paced(On(t, "Writes"), count[r], silent[x])
    BY <2>3 DEF Paced, Before, On, Removing
  <2>5. t \in {"invalid", "gc"} => count[r][t] < silent[x]
    BY <2>3 DEF Paced, Before
  <2>6. \A u \in {"invalid", "gc"} : On(t, "Writes") = On(u, "Writes") => u = t
    BY StagesDiffer
  <2>7. QED
    BY <1>2, <2>1, <2>2, <2>4, <2>5, <2>6
<1>5. CASE Writes(r, c)
  <2>1. PICK t \in Timers :
          /\ callback[r][c] = On(t, "Writes") /\ callback'[r][c] = On(t, "Compares")
          /\ count'[r][t] = Next1(counted[r][c], Interval(t)) /\ UNCHANGED ripDatabase
          /\ \A u \in Timers \ {t} : count'[r][u] = count[r][u]
    BY <1>1, <1>5, WritesDoes
  <2>2. callback[r][c] # On("gc", "Withdraws")
    BY <2>1, StagesDiffer
  <2>3. /\ Paced(On(t, "Writes"), count[r], silent[x])
        /\ t \in {"invalid", "gc"} => counted[r][c] < silent[x]
    BY <1>3, <2>1, <2>2
  <2>4. t \in {"invalid", "gc"} => count'[r][t] <= silent[x]
    <3>1. counted[r][c] \in Nat /\ Interval(t) \in Nat
      BY <1>1, StageType, Intervals
    <3>2. count'[r][t] \in Nat /\ count'[r][t] <= counted[r][c] + 1
      BY <2>1, <3>1, CountType
    <3>3. QED
      BY <1>1, <2>3, <3>1, <3>2
  <2>5. Paced(On(t, "Compares"), count'[r], silent[x])
    <3>1. ASSUME NEW u \in {"invalid", "gc"}
          PROVE  count'[r][u] <= silent[x] /\ (Before(On(t, "Compares"), u) => count'[r][u] < silent[x])
      <4>1. CASE u = t
        BY <2>4, <4>1 DEF Before, On
      <4>2. CASE u # t
        <5>1. count'[r][u] = count[r][u]
          BY <2>1, <4>2 DEF Timers
        <5>2. Before(On(t, "Compares"), u) => Before(On(t, "Writes"), u)
          BY DEF Before, On
        <5>3. QED
          BY <2>3, <5>1, <5>2 DEF Paced
      <4>3. QED
        BY <4>1, <4>2
    <3>2. QED
      BY <3>1 DEF Paced, On, Removing
  <2>6. \A u \in {"invalid", "gc"} : callback'[r][c] # On(u, "Writes")
    BY <2>1, StagesDiffer
  <2>7. QED
    BY <1>2, <2>1, <2>2, <2>5, <2>6
<1>6. CASE Compares(r, c)
  <2>1. PICK t \in Timers :
          /\ callback[r][c] = On(t, "Compares") /\ UNCHANGED <<count, counted, ripDatabase>>
          /\ callback'[r][c] = IF count[r][t] = Interval(t) THEN On(t, "Acts") ELSE NextTimer(t)
    BY <1>1, <1>6, ComparesDoes
  <2>2. callback[r][c] # On("gc", "Withdraws")
    BY <2>1, StagesDiffer
  <2>3. Paced(On(t, "Compares"), count[r], silent[x])
    BY <1>3, <2>1, <2>2
  <2>4. CASE count[r][t] = Interval(t)
    <3>1. callback'[r][c] = On(t, "Acts")
      BY <2>1, <2>4
    <3>2. t = "gc" => count[r]["gc"] = Flush
      BY <2>4, Intervals
    <3>3. t = "invalid" => Invalid <= silent[x]
      BY <2>3, <2>4, Intervals DEF Paced
    <3>4. Paced(On(t, "Acts"), count[r], silent[x])
      BY <2>3, <3>2, <3>3 DEF Paced, Before, On, Removing
    <3>5. \A u \in {"invalid", "gc"} : callback'[r][c] # On(u, "Writes")
      BY <3>1, StagesDiffer
    <3>6. QED
      BY <1>2, <2>1, <2>2, <3>1, <3>4, <3>5
  <2>5. CASE count[r][t] # Interval(t)
    <3>1. callback'[r][c] = NextTimer(t)
      BY <2>1, <2>5
    <3>2. Paced(NextTimer(t), count[r], silent[x])
      BY <2>3, PacedNext
    <3>3. \A u \in {"invalid", "gc"} : callback'[r][c] # On(u, "Writes")
      BY <3>1, Stages DEF On, Idle
    <3>4. QED
      BY <1>2, <2>1, <2>2, <3>1, <3>2, <3>3
  <2>6. QED
    BY <2>4, <2>5
<1>7. CASE Marks(r, c)
  <2>1. PICK t \in {"hold", "invalid"} :
          /\ callback[r][c] = On(t, "Acts") /\ callback'[r][c] = NextTimer(t)
          /\ UNCHANGED <<count, counted, ripDatabase>>
    BY <1>1, <1>7, MarksDoes
  <2>2. callback[r][c] # On("gc", "Withdraws") /\ t \in Timers
    BY <2>1, StagesDiffer DEF Timers
  <2>3. Paced(NextTimer(t), count[r], silent[x])
    BY <1>3, <2>1, <2>2, PacedNext
  <2>4. \A u \in {"invalid", "gc"} : callback'[r][c] # On(u, "Writes")
    BY <2>1, <2>2, Stages DEF On, Idle
  <2>5. QED
    BY <1>2, <2>1, <2>2, <2>3, <2>4
<1>8. QED
  BY <1>4, <1>5, <1>6, <1>7

LEMMA CalmRemove ==
  ASSUME RipInv, NEW x \in Networks, Known(x), NEW r \in Routes, NEW c \in Callbacks,
         Collect(r, c) \/ Withdraw(r, c), route[r].net = x
  PROVE  Alone(x)' /\ Timely(x)'
<1>1. /\ Types /\ SlotsKept(r, c) /\ UNCHANGED <<route, count>>
      /\ callback[r][c] \in Removing /\ callback[r][c] # Idle
      /\ Collect(r, c) => /\ callback[r][c] = On("gc", "Acts")
                          /\ callback'[r][c] = On("gc", "Withdraws") /\ ripDatabase'[x] = None
      /\ Withdraw(r, c) => /\ callback[r][c] = On("gc", "Withdraws")
                           /\ callback'[r][c] = Idle /\ UNCHANGED ripDatabase
  BY RemovesDoes DEF RipInv
<1>2. \A d \in Callbacks \ {c} : callback[r][d] = Idle /\ callback'[r][d] = Idle
  BY <1>1 DEF Known, Single, SlotsKept
<1>3. count[r]["gc"] = Flush
  BY <1>1 DEF Known, Alone
<1>4. ripDatabase'[x] = None
  <2>1. ASSUME Withdraw(r, c) PROVE ripDatabase[x] = None
    BY <1>1, <2>1 DEF Known, Agrees, Withdrawing
  <2>2. QED
    BY <1>1, <2>1
<1>5. Timely(x)'
  BY <1>4 DEF Timely
\* The other objects of the network, if any count, are about to withdraw it.
<1>6. ASSUME NEW k \in Routes \ {r}, route[k].net = x, count[k]["gc"] < Flush \/ Busy(k)
      PROVE  \E d \in Callbacks : callback[k][d] = On("gc", "Withdraws")
  <2>1. ripDatabase[x] # k
    <3>1. CASE Collect(r, c)
      <4>1. callback[r][c] # On("gc", "Withdraws")
        BY <1>1, <3>1, StagesDiffer
      <4>2. QED
        BY <1>1, <1>6, <4>1, PacedNow
    <3>2. CASE Withdraw(r, c)
      BY <1>1, <1>4, <1>6, <3>2, RipAssumption
    <3>3. QED
      BY <3>1, <3>2
  <2>2. QED
    BY <1>6, <2>1 DEF Known, Alone
<1>7. Alone(x)'
  <2>1. SUFFICES ASSUME NEW k \in Routes, route[k].net = x
                 PROVE  /\ count[k]["gc"] < Flush \/ Busy(k)' =>
                             \E d \in Callbacks : callback'[k][d] = On("gc", "Withdraws")
                        /\ \A d \in Callbacks : callback'[k][d] \in Removing => count[k]["gc"] = Flush
    BY <1>1 DEF Alone
  <2>2. CASE k # r
    <3>1. callback'[k] = callback[k]
      BY <1>1, <2>2 DEF SlotsKept
    <3>2. Busy(k)' <=> Busy(k)
      BY <3>1 DEF Busy
    <3>3. QED
      BY <1>6, <2>1, <2>2, <3>1, <3>2 DEF Known, Alone
  <2>3. CASE k = r
    <3>1. ~(count[r]["gc"] < Flush)
      BY <1>3, Intervals
    <3>2. Busy(r)' => callback'[r][c] # Idle
      BY <1>2 DEF Busy
    <3>3. QED
      BY <1>1, <1>3, <2>3, <3>1, <3>2
  <2>4. QED
    BY <2>2, <2>3
<1>8. QED
  BY <1>5, <1>7

LEMMA CalmElapse ==
  ASSUME RipInv, NEW x \in Networks, Known(x), NEW r \in Routes, NEW c \in Callbacks, Elapses(r, c)
  PROVE  Alone(x)' /\ Timely(x)'
BY CalmAside, CalmCount, CalmRemove DEF Elapses

-----------------------------------------------------------------------------
(* The theorems. *)

RipAllInv == RipInv /\ EntryInv /\ AgreeInv /\ CalmInv

LEMMA RInitInv == RInit => RipAllInv
<1> SUFFICES ASSUME RInit PROVE RipAllInv
  OBVIOUS
<1>1. /\ route = [r \in Routes |-> Blank] /\ at = "Idle" /\ header = NoHeader /\ seen = None
      /\ count = [r \in Routes |-> [NoCount EXCEPT !["gc"] = Flush + 1]]
      /\ callback = [r \in Routes |-> [c \in Callbacks |-> Idle]]
      /\ counted = [r \in Routes |-> [c \in Callbacks |-> 0]]
      /\ ripDatabase = [x \in Networks |-> None] /\ routeList = [x \in Networks |-> None]
      /\ silent = [x \in Networks |-> 0] /\ late = [x \in Networks |-> 0]
  BY DEF RInit
<1>2. /\ \A r \in Routes, t \in Timers : count[r][t] = IF t = "gc" THEN Flush + 1 ELSE 0
      /\ count \in [Routes -> [Timers -> Nat]]
  BY <1>1, Intervals DEF NoCount, Timers
<1>3. \A r \in Routes : ~Busy(r)
  BY <1>1 DEF Busy
<1>4. \A r \in Routes : Forgotten(r)
  BY <1>1, <1>2, <1>3, Intervals, RipAssumption DEF Forgotten, Timers
<1>5. RTypeOK
  <2>1. callback \in [Routes -> [Callbacks -> Stage]] /\ counted \in [Routes -> [Callbacks -> Nat]]
    BY <1>1, Stages
  <2>2. QED
    BY <1>1, <1>2, <2>1 DEF RTypeOK
<1>6. \A r \in Routes, t \in Timers : count[r][t] <= Interval(t) + 1
  BY <1>2, Intervals
<1>7. Types
  BY <1>1, <1>4, <1>5, <1>6 DEF Types
<1>8. HandlerInv
  BY <1>1 DEF HandlerInv
<1>9. ASSUME NEW x \in Networks PROVE Single(x) /\ Entries(x) /\ Held(x) /\ Agrees(x)
  BY <1>1, <1>3 DEF Single, Entries, Held, Agrees, Withdrawing, Idle, On
<1>10. ASSUME NEW x \in Networks PROVE Alone(x) /\ Timely(x)
  <2>1. \A r \in Routes : ~(count[r]["gc"] < Flush)
    BY <1>2, Intervals DEF Timers
  <2>2. \A r \in Routes, c \in Callbacks : callback[r][c] \notin Removing
    BY <1>1 DEF Removing, Idle, On
  <2>3. QED
    BY <1>1, <1>3, <2>1, <2>2 DEF Alone, Timely
<1>11. QED
  BY <1>7, <1>8, <1>9, <1>10 DEF RipAllInv, RipInv, EntryInv, AgreeInv, CalmInv

LEMMA RipStep ==
  ASSUME RipInv, RNext
  PROVE  RipInv'
<1>1. Types'
  BY TypesInv
<1>2. QED
  BY <1>1, HandlerStep, TimerHandler, HandlerSecond DEF RNext, RipInv

LEMMA EntryStep ==
  ASSUME RipInv, EntryInv, RNext
  PROVE  EntryInv'
BY EntryHandler, EntrySecond, EntryElapse DEF RNext

LEMMA AgreeStep ==
  ASSUME RipInv, AgreeInv, RNext
  PROVE  AgreeInv'
<1> SUFFICES ASSUME NEW x \in Networks \ overlapped' PROVE Held(x)' /\ Agrees(x)'
  BY DEF AgreeInv
<1>1. Held(x) /\ Agrees(x)
  BY Apart DEF AgreeInv
<1>2. ASSUME NEW r \in Routes, NEW c \in Callbacks, Elapses(r, c) PROVE Held(x)' /\ Agrees(x)'
  BY <1>1, <1>2, AgreeElapse
<1>3. QED
  BY <1>1, <1>2, AgreeLooks, AgreeSight, AgreeAdd, AgreeRegister, AgreeSecond DEF RNext, Handles

\* What is known of a network that is still apart after a step and on time before it.
LEMMA KnownBefore ==
  ASSUME RipAllInv, RNext, NEW x \in Networks \ overlapped', late[x] = 0
  PROVE  Known(x)
<1>1. x \notin overlapped
  BY Apart
<1>2. QED
  BY <1>1 DEF RipAllInv, EntryInv, AgreeInv, CalmInv, Known

LEMMA CalmStep ==
  ASSUME RipAllInv, RNext
  PROVE  CalmInv'
<1> SUFFICES ASSUME NEW x \in Networks \ overlapped', late'[x] = 0 PROVE Alone(x)' /\ Timely(x)'
  BY DEF CalmInv
<1>1. RipInv /\ Types
  BY DEF RipAllInv, RipInv
<1>2. late[x] = 0
  <2>1. CASE Second
    BY <1>1, <2>1, SecondDoes
  <2>2. CASE ~Second
    BY <2>2 DEF RNext, Handles, ResponseArrives, RouteIsGone, Compare, Improve, Sight, AddRoute,
                RegisterRoute, Elapses, Reads, Writes, Compares, Marks, Collect, Withdraw
  <2>3. QED
    BY <2>1, <2>2
<1>3. Known(x)
  BY <1>2, KnownBefore
<1>4. ASSUME NEW r \in Routes, NEW c \in Callbacks, Elapses(r, c) PROVE Alone(x)' /\ Timely(x)'
  BY <1>1, <1>3, <1>4, CalmElapse
<1>5. QED
  BY <1>1, <1>3, <1>4, CalmLooks, CalmSight, CalmAdd, CalmRegister, CalmSecond DEF RNext, Handles

LEMMA RStepInv == RipAllInv /\ [RNext]_rvars => RipAllInv'
<1> SUFFICES ASSUME RipAllInv, [RNext]_rvars PROVE RipAllInv'
  OBVIOUS
<1>1. CASE RNext
  BY <1>1, RipStep, EntryStep, AgreeStep, CalmStep DEF RipAllInv
<1>2. CASE UNCHANGED rvars
  <2>1. UNCHANGED <<route, count, callback, counted, ripDatabase, routeList, at, header, seen,
                    silent, overlapped, late>>
    BY <1>2 DEF rvars, timerVars, handlerVars
  <2>2. \A r \in Routes : Busy(r)' = Busy(r) /\ Forgotten(r)' = Forgotten(r)
    BY <2>1 DEF Busy, Forgotten
  <2>3. Types' /\ HandlerInv'
    BY <2>1, <2>2 DEF RipAllInv, RipInv, Types, RTypeOK, HandlerInv
  <2>4. EntryInv'
    BY <2>1 DEF RipAllInv, EntryInv, Single, Entries, Expires
  <2>5. AgreeInv'
    BY <2>1, <2>2 DEF RipAllInv, AgreeInv, Held, Agrees, Withdrawing
  <2>6. CalmInv'
    BY <2>1, <2>2 DEF RipAllInv, CalmInv, Alone, Timely
  <2>7. QED
    BY <2>3, <2>4, <2>5, <2>6 DEF RipAllInv, RipInv
<1>3. QED
  BY <1>1, <1>2

\* Every reachable state satisfies the inductive invariants.
THEOREM RipInvariant == RSpec => []RipAllInv
BY RInitInv, RStepInv, PTL DEF RSpec

\* Every field has its type, and the two tables file a route under its network.
THEOREM RipTypeCorrect == RSpec => []RTypeOK
<1>1. RipAllInv => RTypeOK
  BY DEF RipAllInv, RipInv, Types
<1>2. QED
  BY <1>1, RipInvariant, PTL

\* Whatever the interleaving of the packet thread with the timers of any number of
\* routes, nothing stays in the routing table that no timer would remove, as long
\* as no two callbacks of one timer of its network run at once.
THEOREM NothingIsStuck == RSpec => []RibEntryExpires
<1>1. RipAllInv => RibEntryExpires
  BY DEF RipAllInv, EntryInv, Entries, Expires, Removing, RibEntryExpires
<1>2. QED
  BY <1>1, RipInvariant, PTL

\* A network on which no packet has met a callback is in both tables, with the same
\* route, or in neither, however late the callbacks.
THEOREM TablesAgree == RSpec => []RibAgreesAtRest
<1>1. ASSUME AgreeInv, NEW x \in Networks \ overlapped, at = "Idle", \A r \in Routes : ~Busy(r)
      PROVE  routeList[x] = ripDatabase[x]
  <2>1. ~Withdrawing(x)
    BY <1>1 DEF Withdrawing, Busy, Idle, On
  <2>2. QED
    BY <1>1, <2>1 DEF AgreeInv, Agrees
<1>2. RipAllInv => RibAgreesAtRest
  BY <1>1 DEF RipAllInv, RibAgreesAtRest
<1>3. QED
  BY <1>2, RipInvariant, PTL

\* A network that keeps being sighted keeps its place, as long as neither a packet
\* nor a second has met a callback of it.
THEOREM SightingsKeep == RSpec => KeptWhileSighted
<1> DEFINE KeepsPlace == \A x \in Networks \ overlapped' :
             ripDatabase[x] # None /\ ripDatabase'[x] = None /\ late[x] = 0 => silent[x] >= Flush
<1>1. ASSUME RipAllInv, [RNext]_rvars PROVE [KeepsPlace]_rvars
  <2>1. SUFFICES ASSUME RNext, NEW x \in Networks \ overlapped', ripDatabase[x] # None,
                        ripDatabase'[x] = None, late[x] = 0
                 PROVE  silent[x] >= Flush
    BY <1>1
  <2>2. Types /\ HandlerInv /\ RipInv
    BY <1>1 DEF RipAllInv, RipInv
  <2>3. Known(x)
    BY <1>1, <2>1, KnownBefore
  <2>4. PICK r \in Routes, c \in Callbacks : Collect(r, c)
    <3>1. ~AddRoute
      <4>1. ASSUME AddRoute PROVE FALSE
        <5>1. PICK f \in Routes : f # None /\ ripDatabase' = [ripDatabase EXCEPT ![header.net] = f]
          BY <2>2, <4>1, AddRouteDoes
        <5>2. QED
          BY <2>1, <2>2, <5>1 DEF Types
      <4>2. QED
        BY <4>1
    <3>2. ripDatabase' # ripDatabase
      BY <2>1
    <3>3. QED
      BY <2>1, <3>1, <3>2 DEF RNext, Handles, ResponseArrives, RouteIsGone, Compare, Improve, Sight,
            RegisterRoute, Second, Elapses, Reads, Writes, Compares, Marks, Withdraw
  <2>5. callback[r][c] = On("gc", "Acts") /\ route[r].net = x /\ callback[r][c] # Idle
    BY <2>1, <2>2, <2>4, RemovesDoes
  <2>6. callback[r][c] # On("gc", "Withdraws") /\ callback[r][c] \in Removing
    BY <2>5 DEF On, Removing
  <2>7. Paced(callback[r][c], count[r], silent[x])
    BY <2>2, <2>3, <2>5, <2>6, PacedNow
  <2>8. QED
    BY <2>6, <2>7, Intervals DEF Paced
<1>2. QED
  BY <1>1, RipInvariant, PTL DEF RSpec, KeptWhileSighted

\* What a callback does to a metric.
LEMMA WorseByTimer ==
  ASSUME RipAllInv, RNext, NEW x \in Networks, NEW r \in Routes, NEW k \in Routes, NEW c \in Callbacks,
         Elapses(k, c), route[r].net = x, route'[r].metric # route[r].metric
  PROVE  /\ route'[r].metric = Unreachable
         /\ x \notin overlapped' /\ late[x] = 0 => silent[x] >= Invalid
<1>1. Types /\ HandlerInv /\ RipInv
  BY DEF RipAllInv, RipInv
<1>2. k = r /\ route'[r].metric = Unreachable
  BY <1>1, ElapseDoes DEF KeptBut
<1>3. Marks(r, c)
  BY <1>2 DEF Elapses, Reads, Writes, Compares, Collect, Withdraw
<1>4. PICK t \in {"hold", "invalid"} :
         callback[r][c] = On(t, "Acts") /\ (route'[r].metric = route[r].metric \/ t = "invalid")
  BY <1>1, <1>3, MarksDoes
<1>5. callback[r][c] = On("invalid", "Acts")
  BY <1>4
<1>6. callback[r][c] # Idle /\ callback[r][c] # On("gc", "Withdraws")
  BY <1>5 DEF On, Idle
<1>7. ASSUME x \notin overlapped', late[x] = 0 PROVE silent[x] >= Invalid
  <2>1. Known(x)
    BY <1>7, KnownBefore
  <2>2. Paced(callback[r][c], count[r], silent[x])
    BY <1>1, <1>6, <2>1, PacedNow
  <2>3. Invalid <= silent[x] /\ silent[x] \in Nat
    BY <1>1, <1>5, <2>2 DEF Paced, Types
  <2>4. QED
    BY <2>3, Intervals
<1>8. QED
  BY <1>2, <1>7

\* No route in use ever takes a worse metric from a header: its metric rises only
\* to Unreachable, and where callbacks keep out of the way of packets and of each
\* other only when its invalid interval has run out.
THEOREM WorseIsHeldDown == RSpec => WorseMetricIsHeldDown
<1> DEFINE HeldDown == \A x \in Networks :
             LET r == ripDatabase[x] IN
             r # None /\ ripDatabase'[x] = r /\ route'[r].metric > route[r].metric
               => /\ route'[r].metric = Unreachable
                  /\ x \notin overlapped' /\ late[x] = 0 => silent[x] >= Invalid
<1>1. ASSUME RipAllInv, [RNext]_rvars PROVE [HeldDown]_rvars
  <2>1. SUFFICES ASSUME RNext, NEW x \in Networks, NEW r \in Routes, ripDatabase[x] = r,
                        r # None, ripDatabase'[x] = r, route'[r].metric > route[r].metric,
                        route[r].net = x
                 PROVE  /\ route'[r].metric = Unreachable
                        /\ x \notin overlapped' /\ late[x] = 0 => silent[x] >= Invalid
    BY <1>1, EntryObject DEF RipAllInv, RipInv
  <2>2. Types /\ HandlerInv /\ RipInv
    BY <1>1 DEF RipAllInv, RipInv
  <2>3. route[r].metric \in Nat
    BY <2>1, <2>2, HeldIsMade, RipAssumption DEF RouteRecord
  <2>4. route'[r].metric # route[r].metric
    BY <2>1, <2>3
  <2>5. ASSUME NEW k \in Routes, NEW c \in Callbacks, Elapses(k, c)
        PROVE  /\ route'[r].metric = Unreachable
               /\ x \notin overlapped' /\ late[x] = 0 => silent[x] >= Invalid
    BY <1>1, <2>1, <2>4, <2>5, WorseByTimer
  <2>6. ~(ResponseArrives \/ RouteIsGone \/ RegisterRoute \/ Second \/ Sight \/ Compare)
    BY <2>2, <2>4, LooksDoes, CompareDoes, SightDoes DEF RegisterRoute, Second
  <2>7. ASSUME Improve PROVE FALSE
    <3>1. /\ KeptBut(seen) /\ seen \in Routes
          /\ route'[seen].metric = header.metric /\ header.metric < route[seen].metric
      BY <2>2, <2>7, ImproveDoes
    <3>2. seen = r
      BY <2>4, <3>1 DEF KeptBut
    <3>3. header.metric \in Nat
      BY <2>2, <2>7, AtHeader, HeaderFields DEF Improve
    <3>4. QED
      BY <2>1, <2>3, <3>1, <3>2, <3>3
  <2>8. ASSUME AddRoute PROVE FALSE
    <3>1. PICK f \in Routes : KeptBut(f) /\ (\A y \in Networks : ripDatabase[y] # f)
      BY <2>2, <2>8, AddRouteDoes
    <3>2. f # r
      BY <2>1, <3>1
    <3>3. QED
      BY <2>4, <3>1, <3>2 DEF KeptBut
  <2>9. QED
    BY <2>1, <2>5, <2>6, <2>7, <2>8 DEF RNext, Handles
<1>2. QED
  BY <1>1, RipInvariant, PTL DEF RSpec, WorseMetricIsHeldDown

=============================================================================
