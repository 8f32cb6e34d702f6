---------------------------- MODULE ServicesProofs ----------------------------
(***************************************************************************)
(* Proofs about what runs beside the routing protocols: address            *)
(* resolution, echo requests, the identifications and the fragments of IP  *)
(* datagrams; and the threads that flood.  They share no variable; each    *)
(* has an inductive invariant of its own.                                  *)
(***************************************************************************)
EXTENDS MCServices, FiniteSetTheorems, TLAPS

-----------------------------------------------------------------------------
(***************************************************************************)
(* Proofs about Arp, for any addresses, devices and number of requests.    *)
(*                                                                         *)
(* Two facts the properties do not mention carry them: a request that is   *)
(* listed, or that a reply has found, was made; and the address of the     *)
(* lookup that holds the lock stays unresolved.                            *)
(***************************************************************************)

ListedWasMade ==
    \A r \in Guids : pending[r] # NoRequest => pending[r] \in asked

ReplyWasWanted ==
    reply # NoReply => [addr |-> reply.addr, dev |-> reply.dev] \in asked

AskedIsUnresolved ==
    Locked => Unresolved(asking.addr)

ArpInv == ArpTypeOK /\ Solicited /\ ListedWasMade /\ ReplyWasWanted /\ AskedIsUnresolved

LEMMA InitArpInv == ArpInit => ArpInv
BY SMT DEF ArpInit, ArpInv, ArpTypeOK, Solicited, ListedWasMade, ReplyWasWanted,
           AskedIsUnresolved, Unresolved, Locked, NoEntry, NoRequest, NoReply, Idle,
           Entries, Wanted

LEMMA NextArpInv == ArpInv /\ [ArpNext]_arpVars => ArpInv'
<1> SUFFICES ASSUME ArpInv, [ArpNext]_arpVars PROVE ArpInv'
  OBVIOUS
<1> USE ArpAssumption
    DEF ArpInv, ArpTypeOK, Solicited, ListedWasMade, ReplyWasWanted, AskedIsUnresolved,
        Unresolved, Locked, NoEntry, NoRequest, NoReply, Idle, Entries, Wanted
<1>1. ASSUME NEW a \in Addresses, BeginLookup(a) PROVE ArpInv'
  BY <1>1, SMT DEF BeginLookup
<1>2. ASSUME NEW r \in Guids, NEW d \in Devices, Ask(r, d) PROVE ArpInv'
  <2>1. /\ d \in asking.todo
        /\ pending' = [pending EXCEPT ![r] = [addr |-> asking.addr, dev |-> d]]
        /\ asked' = asked \cup {[addr |-> asking.addr, dev |-> d]}
        /\ \/ /\ ticking' = ticking \cup {r} /\ failed' = failed
              /\ asking' = [asking EXCEPT !.todo = @ \ {d}]
           \/ asking' = Idle /\ ticking' = ticking /\ failed' = failed \cup {r}
        /\ UNCHANGED <<table, reply>>
    BY <1>2, Zenon DEF Ask, StartTimer
  <2>2. asking.addr \in Addresses /\ asking.todo \subseteq Devices
    BY <2>1, SMT
  <2>3. ArpTypeOK'
    BY <2>1, <2>2, SMT
  <2>4. Solicited' /\ ListedWasMade' /\ ReplyWasWanted'
    BY <2>1, <2>2, SMT
  <2>5. AskedIsUnresolved'
    BY <2>1, <2>2, SMT
  <2> QED
    BY <2>3, <2>4, <2>5
<1>3. CASE EndLookup
  BY <1>3, SMT DEF EndLookup
<1>4. ASSUME NEW r \in Guids, NEW d \in Devices, NEW a \in Addresses, NEW m \in Macs,
             ReplyArrives(r, d, a, m)
      PROVE  ArpInv'
  BY <1>4, SMT DEF ReplyArrives, Answers
<1>5. CASE AddEntry
  <2>1. reply \in [addr : Addresses, dev : Devices, mac : Macs, found : Guids,
                   added : BOOLEAN]
    BY <1>5, SMT DEF AddEntry
  <2>2. reply' \in [addr : Addresses, dev : Devices, mac : Macs, found : Guids,
                    added : BOOLEAN]
    BY <1>5, <2>1 DEF AddEntry
  <2>3. reply'.addr = reply.addr /\ reply'.dev = reply.dev
    BY <1>5, <2>1 DEF AddEntry
  <2>4. /\ table' = [table EXCEPT ![reply.addr] = [dev |-> reply.dev, mac |-> reply.mac]]
        /\ UNCHANGED <<pending, ticking, failed, asking, asked>>
        /\ ~Locked /\ [addr |-> reply.addr, dev |-> reply.dev] \in asked
    BY <1>5, SMT DEF AddEntry
  <2> QED
    BY <2>1, <2>2, <2>3, <2>4, SMT
<1>6. CASE AddThrows
  BY <1>6, SMT DEF AddThrows
<1>7. CASE RemovePending
  BY <1>7, SMT DEF RemovePending, Forget
<1>8. ASSUME NEW r \in Guids, Expire(r) PROVE ArpInv'
  BY <1>8, SMT DEF Expire, Forget
<1>9. CASE UNCHANGED arpVars
  BY <1>9, SMT DEF arpVars
<1> QED
  BY <1>1, <1>2, <1>3, <1>4, <1>5, <1>6, <1>7, <1>8, <1>9 DEF ArpNext

THEOREM ArpInvariant == ArpSpec => []ArpInv
BY InitArpInv, NextArpInv, PTL DEF ArpSpec

(* The table, the pending requests and the threads keep their types.       *)
THEOREM ArpTypeCorrect == ArpSpec => []ArpTypeOK
<1>1. ArpInv => ArpTypeOK
  BY DEF ArpInv
<1> QED
  BY <1>1, ArpInvariant, PTL

(* No reply that nobody asked for gets into the table.                     *)
THEOREM OnlySolicited == ArpSpec => []Solicited
<1>1. ArpInv => Solicited
  BY DEF ArpInv
<1> QED
  BY <1>1, ArpInvariant, PTL

(* No request is made for an address that the table has.                   *)
THEOREM NotAskedOnceResolved == ArpSpec => ResolvedIsNotAsked
<1> DEFINE Kept == \A a \in Addresses : ~Unresolved(a) =>
                      \A r \in Guids : pending'[r].addr = a => pending[r].addr = a
<1>1. ArpInv /\ [ArpNext]_arpVars => [Kept]_arpVars
  <2> SUFFICES ASSUME ArpInv, [ArpNext]_arpVars,
                      NEW a \in Addresses, ~Unresolved(a),
                      NEW r \in Guids, pending'[r].addr = a
               PROVE  pending[r].addr = a
    OBVIOUS
  <2> USE ArpAssumption DEF ArpInv, ArpTypeOK, NoRequest, Wanted
  <2>1. ASSUME NEW q \in Guids, NEW d \in Devices, Ask(q, d)
        PROVE  pending[r].addr = a
    <3>1. /\ pending' = [pending EXCEPT ![q] = [addr |-> asking.addr, dev |-> d]]
          /\ d \in asking.todo
      BY <2>1, Zenon DEF Ask
    <3>2. Locked
      BY <3>1, SMT DEF Locked, Idle
    <3>3. asking.addr # a
      BY <3>2, Zenon DEF AskedIsUnresolved
    <3> QED
      BY <3>1, <3>3, SMT
  <2>2. ASSUME NEW q \in Guids, Forget(q) PROVE pending[r].addr = a
    BY <2>2, SMT DEF Forget
  <2>3. ASSUME UNCHANGED pending PROVE pending[r].addr = a
    BY <2>3
  <2>4. RemovePending => reply.found \in Guids
    BY SMT DEF RemovePending, NoReply
  <2> QED
    BY <2>1, <2>2, <2>3, <2>4, Zenon
       DEF ArpNext, BeginLookup, EndLookup, ReplyArrives, AddEntry, AddThrows,
           RemovePending, Expire, arpVars
<1> QED
  BY <1>1, ArpInvariant, PTL DEF ArpSpec, ResolvedIsNotAsked

-----------------------------------------------------------------------------
(***************************************************************************)
(* Proofs about IcmpEcho, for every set of requests and of pairs and every *)
(* limit.  TrackedIsTimed is not inductive: that Elapsed, which removes by *)
(* pair, leaves no entry of the same request behind under another pair     *)
(* has to be known too (FiledUnderItsPair).                                *)
(***************************************************************************)

FiledUnderItsPair ==
    \A id \in Ids : \A r \in Requests :
        tracked[id] = r => idOf[r] = id /\ at[r] \in {"tracked", "sent"}

TimedOnceSent ==
    \A id \in Ids : \A r \in Requests :
        tracked[id] = r /\ at[r] = "sent" => running[r]

EchoInv == EchoTypeOK /\ FiledUnderItsPair /\ TimedOnceSent

LEMMA InitEchoInv == EchoInit => EchoInv
BY IcmpEchoAssumption, SMT
   DEF EchoInit, EchoInv, EchoTypeOK, FiledUnderItsPair, TimedOnceSent, Stages

(* The seconds of a TimeSpan stay below a minute, whatever is added.       *)
LEMMA SecondsWrap == \A s, late \in Nat : (s + 1 + late) % Minute \in 0 .. Minute - 1
BY IcmpEchoAssumption, SMT

LEMMA NextEchoInv == EchoInv /\ [EchoNext]_echoVars => EchoInv'
<1> SUFFICES ASSUME EchoInv, [EchoNext]_echoVars PROVE EchoInv'
  OBVIOUS
<1> USE IcmpEchoAssumption DEF EchoInv, EchoTypeOK, FiledUnderItsPair, TimedOnceSent
<1>1. ASSUME NEW r \in Requests, NEW id \in Ids, Make(r, id) PROVE EchoInv'
  BY <1>1, SMT DEF Make, Stages
<1>2. ASSUME NEW r \in Requests, Track(r) PROVE EchoInv'
  BY <1>2, SMT DEF Track, Stages
<1>3. ASSUME NEW r \in Requests, TrackThrows(r) PROVE EchoInv'
  BY <1>3, SMT DEF TrackThrows, Stages
<1>4. ASSUME NEW r \in Requests, StartAndSend(r) PROVE EchoInv'
  BY <1>4, SMT DEF StartAndSend, Stages
<1>5. ASSUME NEW r \in Requests, Elapse(r) PROVE EchoInv'
  <2>1. PICK late \in 0 .. Jitter :
            seconds' = [seconds EXCEPT ![r] = (@ + 1 + late) % Minute]
    BY <1>5 DEF Elapse
  <2>2. (seconds[r] + 1 + late) % Minute \in 0 .. Minute - 1
    BY SecondsWrap, SMT
  <2>3. seconds' \in [Requests -> 0 .. Minute - 1]
    BY <2>1, <2>2, SMT
  <2> QED
    BY <1>5, <2>3, SMT DEF Elapse
<1>6. ASSUME NEW r \in Requests, Elapsed(r) PROVE EchoInv'
  <2> PICK late \in 0 .. Jitter :
          IF Due(r, late) THEN GiveUp(r) ELSE UNCHANGED <<tracked, running>>
    BY <1>6, Zenon DEF Elapsed
  <2>1. CASE Due(r, late)
    <3>1. /\ running' = [running EXCEPT ![r] = FALSE]
          /\ tracked' = [tracked EXCEPT ![idOf[r]] = Nobody]
          /\ pool' = [pool EXCEPT ![r] = @ - 1]
          /\ pool[r] > 0
          /\ UNCHANGED <<at, idOf, seconds>>
      BY <1>6, <2>1, Zenon DEF Elapsed, GiveUp
    <3>2. idOf[r] \in Ids /\ pool[r] \in 0 .. MaxPool
      OBVIOUS
    <3>3. EchoTypeOK'
      BY <3>1, <3>2, SMT
    <3>4. FiledUnderItsPair'
      BY <3>1, <3>2, SMT
    <3>5. TimedOnceSent'
      BY <3>1, <3>2, <3>4, SMT
    <3> QED
      BY <3>3, <3>4, <3>5
  <2>2. CASE ~Due(r, late)
    BY <1>6, <2>2, SMT DEF Elapsed
  <2> QED
    BY <2>1, <2>2
<1>7. ASSUME NEW r \in Requests, FreeRequest(r) PROVE EchoInv'
  BY <1>7, SMT DEF FreeRequest, Stages
<1>8. ASSUME NEW id \in Ids, ProcessEcho(id) PROVE EchoInv'
  BY <1>8, SMT DEF ProcessEcho
<1>9. CASE UNCHANGED echoVars
  BY <1>9, SMT DEF echoVars
<1> QED
  BY <1>1, <1>2, <1>3, <1>4, <1>5, <1>6, <1>7, <1>8, <1>9 DEF EchoNext, Handle

THEOREM EchoInvariant == EchoSpec => []EchoInv
BY InitEchoInv, NextEchoInv, PTL DEF EchoSpec

(* The map, the timers and the stages of every request keep their types.   *)
THEOREM EchoTypeCorrect == EchoSpec => []EchoTypeOK
<1>1. EchoInv => EchoTypeOK
  BY DEF EchoInv
<1> QED
  BY <1>1, EchoInvariant, PTL

(* A request that is out and still waited for has its timer on, so that it *)
(* is IcmpModule itself and not the peer that ends the wait.               *)
THEOREM EntriesAreTimed == EchoSpec => []TrackedIsTimed
<1>1. EchoInv => TrackedIsTimed
  BY IcmpEchoAssumption, SMT
     DEF EchoInv, EchoTypeOK, TimedOnceSent, TrackedIsTimed
<1> QED
  BY <1>1, EchoInvariant, PTL

(* Only a late callback of a namesake takes an entry out and leaves the    *)
(* timer of the entry on.                                                  *)
THEOREM OnlyNamesakesDrop == EchoSpec => DroppedByNamesake
<1> DEFINE Fair(id) ==
        LET r == tracked[id] IN
        (r # Nobody /\ tracked'[id] = Nobody /\ running'[r])
           => \E s \in Requests \ {r} : \E late \in 0 .. Jitter :
                  idOf[s] = id /\ pool'[s] < pool[s] /\ Due(s, late)
<1>1. ASSUME EchoInv, [EchoNext]_echoVars, NEW id \in Ids PROVE Fair(id)
  <2> SUFFICES ASSUME tracked[id] # Nobody, tracked'[id] = Nobody,
                      running'[tracked[id]]
               PROVE  \E s \in Requests \ {tracked[id]} : \E late \in 0 .. Jitter :
                          idOf[s] = id /\ pool'[s] < pool[s] /\ Due(s, late)
    OBVIOUS
  <2> USE <1>1, IcmpEchoAssumption DEF EchoInv, EchoTypeOK
  <2>1. ASSUME NEW r \in Requests, Elapsed(r)
        PROVE  \E s \in Requests \ {tracked[id]} : \E late \in 0 .. Jitter :
                   idOf[s] = id /\ pool'[s] < pool[s] /\ Due(s, late)
    <3> PICK late \in 0 .. Jitter :
            IF Due(r, late) THEN GiveUp(r) ELSE UNCHANGED <<tracked, running>>
      BY <2>1, Zenon DEF Elapsed
    <3>1. Due(r, late)
      BY SMT
    <3>2. idOf[r] = id /\ ~running'[r]
      BY <3>1, SMT DEF GiveUp
    <3>3. pool'[r] < pool[r]
      BY <2>1, SMT DEF Elapsed
    <3> QED
      BY <3>1, <3>2, <3>3, SMT
  <2>2. ASSUME NEW i \in Ids, ProcessEcho(i) PROVE FALSE
    BY <2>2, SMT DEF ProcessEcho, FiledUnderItsPair
  <2>3. ASSUME NEW r \in Requests, NEW i \in Ids, Make(r, i) PROVE FALSE
    BY <2>3, SMT DEF Make
  <2>4. ASSUME NEW r \in Requests, Track(r) PROVE FALSE
    BY <2>4, SMT DEF Track
  <2>5. ASSUME NEW r \in Requests, TrackThrows(r) \/ StartAndSend(r) \/ Elapse(r)
                                   \/ FreeRequest(r)
        PROVE  FALSE
    BY <2>5, SMT DEF TrackThrows, StartAndSend, Elapse, FreeRequest
  <2>6. CASE UNCHANGED echoVars
    BY <2>6, SMT DEF echoVars
  <2> QED
    BY <2>1, <2>2, <2>3, <2>4, <2>5, <2>6 DEF EchoNext, Handle
<1>2. EchoInv /\ [EchoNext]_echoVars => [\A id \in Ids : Fair(id)]_echoVars
  BY <1>1
<1> QED
  BY <1>2, EchoInvariant, PTL DEF EchoSpec, DroppedByNamesake

-----------------------------------------------------------------------------
(***************************************************************************)
(* Proofs about IpIdentifier, for any number of destinations, numbers,     *)
(* TTLs and callbacks at once.  The invariants that carry them: an object  *)
(* is listed in no other place than that of its own number; its byte, and  *)
(* every value a callback has read of it, is never below what its first    *)
(* TTL still owes; and an object whose name is free has no callback left   *)
(* to write to the next one of that name.                                  *)
(***************************************************************************)

LEMMA ModRange == \A x, m \in Nat : m > 0 => x % m \in 0 .. m - 1
BY SMT

\* The types of all but the bounds.
Shape ==
    /\ MaxKey \in [Destinations -> Keys]
    /\ Data \in [Destinations -> [Keys -> Objects \cup {Unlisted}]]
    /\ stage \in [Objects -> {"free", "made", "sending", "done", "leaked"}]
    /\ Daddr \in [Objects -> Destinations]
    /\ Key \in [Objects -> Keys]
    /\ ttl \in [Objects -> 0 .. TtlMod - 1]
    /\ enabled \in [Objects -> BOOLEAN]
    /\ callback \in [Objects -> [Callbacks -> Statements]]
    /\ held \in [Objects -> [Callbacks -> 0 .. TtlMod - 1]]
    /\ owed \in [Objects -> 0 .. TtlMod - 1]
    /\ overlaps \in 0 .. MaxOverlaps

ListedInItsPlace ==
    \A d \in Destinations : \A k \in Keys : \A o \in Objects :
        Data[d][k] = o => Daddr[o] = d /\ Key[o] = k /\ stage[o] # "free"

Killing(o) == \E c \in Callbacks : callback[o][c] = "kill"

TickingInItsPlace ==
    \A d \in Destinations : \A k \in Keys : \A o \in Objects :
        Data[d][k] = o /\ stage[o] \in {"sending", "done"} => enabled[o] \/ Killing(o)

FreeRests ==
    \A o \in Objects :
        stage[o] = "free" => ~enabled[o] /\ \A c \in Callbacks : callback[o][c] = "idle"

Owes(o) ==
    /\ owed[o] <= ttl[o]
    /\ \A c \in Callbacks : /\ callback[o][c] = "write" => owed[o] <= held[o][c]
                            /\ callback[o][c] \in {"stop", "kill"} => owed[o] = 0

IpInv ==
    Shape /\ ListedInItsPlace /\ TickingInItsPlace /\ FreeRests /\ (\A o \in Objects : Owes(o))

(* What an update of one entry of a table does to the others.              *)
LEMMA OneEntry ==
    ASSUME NEW D, NEW K, NEW S, NEW f \in [D -> [K -> S]],
           NEW d \in D, NEW k \in K, NEW v \in S
    PROVE  LET g == [f EXCEPT ![d][k] = v] IN
           /\ g \in [D -> [K -> S]]
           /\ \A e \in D : \A j \in K :
                  g[e][j] = IF e = d /\ j = k THEN v ELSE f[e][j]
BY SMT

LEMMA NextKeyIsKey ==
    ASSUME Shape, NEW d \in Destinations PROVE NextKey(d) \in Keys
<1>1. MaxKey[d] + 1 \in Nat
  BY IpIdentifierAssumption, SMT DEF Shape, Keys
<1> QED
  BY <1>1, ModRange, IpIdentifierAssumption, SMT DEF NextKey, Keys

LEMMA Widths ==
    /\ TtlMod \in Nat /\ TtlMod > 0 /\ 0 \in 0 .. TtlMod - 1
    /\ StartTtl \subseteq 0 .. TtlMod - 1
    /\ MaxOverlaps \in Nat /\ 0 \in Keys
    /\ \A o \in Objects : o # Unlisted
BY IpIdentifierAssumption, SMT DEF Keys

(* The byte goes down by one, or comes round from zero.                    *)
LEMMA LessIsLess ==
    ASSUME NEW t \in 0 .. TtlMod - 1
    PROVE  /\ Less1(t) \in 0 .. TtlMod - 1
           /\ t > 0 => Less1(t) = t - 1
<1>1. t + TtlMod - 1 \in Nat /\ t \in Nat /\ TtlMod \in Nat /\ TtlMod > 0
  BY Widths, SMT
<1>2. Less1(t) \in 0 .. TtlMod - 1
  BY <1>1, ModRange, Zenon DEF Less1
<1>3. ASSUME t > 0 PROVE Less1(t) = t - 1
  <2>1. \A x, m \in Nat : x < m => (x + m) % m = x
    BY SMT
  <2>2. t - 1 \in Nat /\ t - 1 < TtlMod /\ t + TtlMod - 1 = (t - 1) + TtlMod
    BY <1>1, <1>3, SMT
  <2>3. (t + TtlMod - 1) % TtlMod = t - 1
    BY <1>1, <2>1, <2>2
  <2> QED
    BY <2>3 DEF Less1
<1> QED
  BY <1>2, <1>3

LEMMA InitIpInv == IpInit => IpInv
<1> SUFFICES ASSUME IpInit PROVE IpInv
  OBVIOUS
<1>1. Shape
  <2>1. callback \in [Objects -> [Callbacks -> Statements]]
    BY SMT DEF IpInit, Statements
  <2>2. held \in [Objects -> [Callbacks -> 0 .. TtlMod - 1]]
    BY Widths, SMT DEF IpInit
  <2> QED
    BY <2>1, <2>2, Widths, SMT DEF IpInit, Shape
<1>2. ListedInItsPlace /\ TickingInItsPlace
  BY Widths, SMT DEF IpInit, ListedInItsPlace, TickingInItsPlace
<1>3. FreeRests /\ \A o \in Objects : Owes(o)
  BY SMT DEF IpInit, FreeRests, Owes
<1> QED
  BY <1>1, <1>2, <1>3 DEF IpInv

(* A callback goes on.                                                     *)
LEMMA GoesOn ==
    ASSUME Shape, NEW o \in Objects, NEW c \in Callbacks, NEW from, NEW to \in Statements,
           Goes(o, c, from, to)
    PROVE  /\ callback[o][c] = from /\ callback'[o][c] = to
           /\ callback' \in [Objects -> [Callbacks -> Statements]]
           /\ \A p \in Objects : \A d \in Callbacks :
                  p # o \/ d # c => callback'[p][d] = callback[p][d]
           /\ UNCHANGED <<MaxKey, stage, Daddr, Key, overlaps, leaks>>
<1>1. /\ callback[o][c] = from /\ callback' = [callback EXCEPT ![o][c] = to]
      /\ UNCHANGED <<MaxKey, stage, Daddr, Key, overlaps, leaks>>
  BY DEF Goes
<1>2. callback \in [Objects -> [Callbacks -> Statements]]
  BY DEF Shape
<1> QED
  BY <1>1, <1>2, SMT

(* What holds of the list is kept by a step that leaves list and datagrams *)
(* alone, and stops no timer and ends no removal.                          *)
LEMMA ListKept ==
    ASSUME IpInv, UNCHANGED <<Data, stage, Daddr, Key>>,
           \A o \in Objects : /\ stage[o] # "free" /\ enabled[o] => enabled'[o]
                              /\ \A c \in Callbacks : callback[o][c] = "kill" => callback'[o][c] = "kill"
                              /\ stage[o] = "free" => enabled'[o] = enabled[o] /\ callback'[o] = callback[o]
    PROVE  ListedInItsPlace' /\ TickingInItsPlace' /\ FreeRests'
<1>1. ListedInItsPlace'
  <2>1. Data' = Data /\ stage' = stage /\ Daddr' = Daddr /\ Key' = Key
    OBVIOUS
  <2> QED
    BY <2>1 DEF IpInv, ListedInItsPlace
<1>2. TickingInItsPlace'
  <2> SUFFICES ASSUME NEW d \in Destinations, NEW k \in Keys, NEW o \in Objects,
                      Data[d][k] = o, stage[o] \in {"sending", "done"}
               PROVE  enabled'[o] \/ Killing(o)'
    BY DEF TickingInItsPlace
  <2>1. enabled[o] \/ Killing(o)
    BY DEF IpInv, TickingInItsPlace
  <2> QED
    BY <2>1 DEF Killing
<1>3. FreeRests'
  BY DEF IpInv, FreeRests
<1> QED
  BY <1>1, <1>2, <1>3

(* The sending thread.                                                     *)
LEMMA CreateIpInv ==
    ASSUME IpInv, NEW o \in Objects, NEW d \in Destinations, NEW t \in StartTtl, Create(o, d, t)
    PROVE  IpInv'
<1>1. NextKey(d) \in Keys
  BY NextKeyIsKey DEF IpInv
<1> DEFINE n == NextKey(d)
<1>2. /\ stage[o] = "free"
      /\ MaxKey' = [MaxKey EXCEPT ![d] = n]
      /\ Data' = [Data EXCEPT ![d][n] = o]
      /\ stage' = [stage EXCEPT ![o] = "made"]
      /\ Daddr' = [Daddr EXCEPT ![o] = d]
      /\ Key' = [Key EXCEPT ![o] = n]
      /\ ttl' = [ttl EXCEPT ![o] = t]
      /\ owed' = [owed EXCEPT ![o] = t]
      /\ UNCHANGED <<enabled, callback, held, overlaps>>
  BY DEF Create, timerVars
<1>3. n \in Keys /\ Shape /\ t \in 0 .. TtlMod - 1
  BY <1>1, Widths DEF IpInv
<1> HIDE DEF n
<1>4. /\ Data' \in [Destinations -> [Keys -> Objects \cup {Unlisted}]]
      /\ \A e \in Destinations : \A j \in Keys :
             Data'[e][j] = IF e = d /\ j = n THEN o ELSE Data[e][j]
  BY <1>2, <1>3, OneEntry DEF Shape
<1>5. /\ MaxKey' \in [Destinations -> Keys] /\ Daddr' \in [Objects -> Destinations]
      /\ Key' \in [Objects -> Keys]
      /\ stage' \in [Objects -> {"free", "made", "sending", "done", "leaked"}]
      /\ ttl' \in [Objects -> 0 .. TtlMod - 1] /\ owed' \in [Objects -> 0 .. TtlMod - 1]
      /\ Daddr'[o] = d /\ Key'[o] = n /\ stage'[o] = "made" /\ ttl'[o] = t /\ owed'[o] = t
      /\ \A p \in Objects \ {o} : /\ Daddr'[p] = Daddr[p] /\ Key'[p] = Key[p] /\ stage'[p] = stage[p]
                                  /\ ttl'[p] = ttl[p] /\ owed'[p] = owed[p]
  BY <1>2, <1>3, SMT DEF Shape
<1>6. Shape'
  BY <1>2, <1>3, <1>4, <1>5, Zenon DEF Shape
<1>7. ListedInItsPlace' /\ TickingInItsPlace'
  BY <1>2, <1>3, <1>4, <1>5, SMT DEF IpInv, ListedInItsPlace, TickingInItsPlace, Killing
<1>8. FreeRests'
  BY <1>2, <1>5, SMT DEF IpInv, FreeRests
<1>9. ASSUME NEW p \in Objects PROVE Owes(p)'
  <2>1. CASE p = o
    <3>1. \A c \in Callbacks : callback'[o][c] = "idle"
      BY <1>2 DEF IpInv, FreeRests
    <3> QED
      BY <1>3, <1>5, <2>1, <3>1, SMT DEF Owes
  <2>2. CASE p # o
    BY <1>2, <1>5, <2>2 DEF IpInv, Owes
  <2> QED
    BY <2>1, <2>2
<1> QED
  BY <1>6, <1>7, <1>8, <1>9 DEF IpInv

LEMMA SenderIpInv ==
    ASSUME IpInv, NEW o \in Objects, Leak(o) \/ SendFragment(o) \/ SendEnds(o)
    PROVE  IpInv'
<1>1. /\ \A p \in Objects : stage[p] = "free" => stage'[p] = "free" /\ enabled'[p] = enabled[p]
      /\ \A p \in Objects : stage'[p] = "free" => stage[p] = "free"
      /\ \A p \in Objects : enabled[p] => enabled'[p]
      /\ \A p \in Objects : stage'[p] \in {"sending", "done"} =>
             enabled'[p] \/ stage[p] \in {"sending", "done"}
      /\ stage' \in [Objects -> {"free", "made", "sending", "done", "leaked"}]
      /\ enabled' \in [Objects -> BOOLEAN]
  <2>1. /\ stage \in [Objects -> {"free", "made", "sending", "done", "leaked"}]
        /\ enabled \in [Objects -> BOOLEAN]
    BY DEF IpInv, Shape
  <2>2. \/ /\ stage[o] = "made" /\ stage' = [stage EXCEPT ![o] = "leaked"]
           /\ enabled' = enabled
        \/ /\ stage[o] \in {"made", "sending"} /\ stage' = [stage EXCEPT ![o] = "sending"]
           /\ enabled' = [enabled EXCEPT ![o] = TRUE]
        \/ /\ stage[o] = "sending" /\ stage' = [stage EXCEPT ![o] = "done"]
           /\ enabled' = enabled
    BY Zenon DEF Leak, SendFragment, SendEnds, timerVars
  <2> DEFINE was == stage[o]  is == stage'[o]
  <2>3. /\ stage' \in [Objects -> {"free", "made", "sending", "done", "leaked"}]
        /\ \A p \in Objects \ {o} : stage'[p] = stage[p]
        /\ was \in {"made", "sending"} /\ is \in {"leaked", "sending", "done"}
        /\ is = "done" => was = "sending"
    BY <2>1, <2>2, SMT
  <2>4. /\ enabled' \in [Objects -> BOOLEAN]
        /\ \A p \in Objects \ {o} : enabled'[p] = enabled[p]
        /\ enabled[o] => enabled'[o]
        /\ is = "sending" => enabled'[o]
    BY <2>1, <2>2
  <2>5. ASSUME NEW p \in Objects
        PROVE  /\ stage[p] = "free" => stage'[p] = "free" /\ enabled'[p] = enabled[p]
               /\ stage'[p] = "free" => stage[p] = "free"
               /\ enabled[p] => enabled'[p]
               /\ stage'[p] \in {"sending", "done"} =>
                      enabled'[p] \/ stage[p] \in {"sending", "done"}
    <3>1. CASE p = o
      BY <2>3, <2>4, <3>1
    <3>2. CASE p # o
      BY <2>3, <2>4, <3>2
    <3> QED
      BY <3>1, <3>2
  <2> QED
    BY <2>3, <2>4, <2>5
<1>2. UNCHANGED <<MaxKey, Data, Daddr, Key, ttl, callback, held, overlaps, owed>>
  BY Zenon DEF Leak, SendFragment, SendEnds, timerVars
<1>3. Shape'
  BY <1>1, <1>2, Zenon DEF IpInv, Shape
<1>4. ListedInItsPlace' /\ FreeRests'
  BY <1>1, <1>2 DEF IpInv, ListedInItsPlace, FreeRests
<1>5. TickingInItsPlace'
  BY <1>1, <1>2 DEF IpInv, TickingInItsPlace, Killing
<1>6. \A p \in Objects : Owes(p)'
  BY <1>2 DEF IpInv, Owes
<1> QED
  BY <1>3, <1>4, <1>5, <1>6 DEF IpInv

LEMMA FreeIpInv ==
    ASSUME IpInv, NEW o \in Objects, FreeObject(o)
    PROVE  IpInv'
<1>1. /\ stage' = [stage EXCEPT ![o] = "free"] /\ Key' = [Key EXCEPT ![o] = 0]
      /\ ttl' = [ttl EXCEPT ![o] = 0] /\ owed' = [owed EXCEPT ![o] = 0]
      /\ UNCHANGED <<MaxKey, Data, Daddr, enabled, callback, held, overlaps>>
      /\ ~enabled[o] /\ ~Listed(o) /\ \A c \in Callbacks : callback[o][c] = "idle"
  BY DEF FreeObject, timerVars, Overlapping
<1>2. /\ stage' \in [Objects -> {"free", "made", "sending", "done", "leaked"}]
      /\ Key' \in [Objects -> Keys] /\ ttl' \in [Objects -> 0 .. TtlMod - 1]
      /\ owed' \in [Objects -> 0 .. TtlMod - 1]
      /\ owed'[o] = 0 /\ ttl'[o] = 0 /\ stage'[o] = "free"
      /\ \A p \in Objects \ {o} : /\ stage'[p] = stage[p] /\ Key'[p] = Key[p]
                                  /\ ttl'[p] = ttl[p] /\ owed'[p] = owed[p]
  BY <1>1, Widths, SMT DEF IpInv, Shape
<1>3. Shape'
  BY <1>1, <1>2, Zenon DEF IpInv, Shape
<1>4. \A d \in Destinations : \A k \in Keys : Data[d][k] # o
  BY <1>1 DEF IpInv, ListedInItsPlace, Listed
<1>5. ListedInItsPlace' /\ TickingInItsPlace'
  BY <1>1, <1>2, <1>4 DEF IpInv, ListedInItsPlace, TickingInItsPlace, Killing
<1>6. FreeRests'
  BY <1>1, <1>2 DEF IpInv, FreeRests
<1>7. \A p \in Objects : Owes(p)'
  BY <1>1, <1>2, SMT DEF IpInv, Owes
<1> QED
  BY <1>3, <1>5, <1>6, <1>7 DEF IpInv

(* The timer and its callbacks.                                            *)
LEMMA FireIpInv ==
    ASSUME IpInv, NEW o \in Objects, Fire(o)
    PROVE  IpInv'
<1> DEFINE c == CHOOSE d \in Callbacks : callback[o][d] = "idle"
<1>1. /\ enabled[o] /\ enabled' = enabled
      /\ c \in Callbacks /\ callback[o][c] = "idle"
      /\ callback' = [callback EXCEPT ![o][c] = "read"]
      /\ overlaps' \in {overlaps, overlaps + 1} /\ (overlaps' = overlaps \/ overlaps < MaxOverlaps)
      /\ UNCHANGED <<MaxKey, Data, stage, Daddr, Key, ttl, held, owed>>
  BY DEF Fire, AutoReset
<1> HIDE DEF c
<1>2. callback \in [Objects -> [Callbacks -> Statements]] /\ "read" \in Statements
  BY DEF IpInv, Shape, Statements
<1>3. /\ callback' \in [Objects -> [Callbacks -> Statements]]
      /\ \A p \in Objects : \A d \in Callbacks :
             callback'[p][d] = IF p = o /\ d = c THEN "read" ELSE callback[p][d]
  BY <1>1, <1>2, OneEntry
<1>4. \A p \in Objects \ {o} : callback'[p] = callback[p]
  BY <1>1, <1>2
<1>5. overlaps' \in 0 .. MaxOverlaps
  BY <1>1, Widths, SMT DEF IpInv, Shape
<1>6. Shape'
  BY <1>1, <1>3, <1>5, Zenon DEF IpInv, Shape
<1>7. stage[o] # "free"
  BY <1>1 DEF IpInv, FreeRests
<1>8. ListedInItsPlace' /\ TickingInItsPlace' /\ FreeRests'
  BY <1>1, <1>3, <1>4, <1>7, ListKept
<1>9. \A p \in Objects : Owes(p)'
  BY <1>1, <1>3 DEF IpInv, Owes
<1> QED
  BY <1>6, <1>8, <1>9 DEF IpInv

LEMMA CountIpInv ==
    ASSUME IpInv, NEW o \in Objects, NEW c \in Callbacks,
           Read(o, c) \/ Write(o, c) \/ Compare(o, c)
    PROVE  IpInv'
<1>0. Shape /\ Owes(o)
  BY DEF IpInv
<1>1. \E from, to \in Statements :
        /\ Goes(o, c, from, to) /\ from # "idle" /\ from \notin {"stop", "kill"} /\ to # "kill"
        /\ to = "stop" => ttl[o] = 0 /\ owed' = owed
        /\ to = "write" => held'[o][c] = ttl[o] /\ owed' = owed
        /\ UNCHANGED <<Data, enabled>>
  BY <1>0 DEF Read, Write, Compare, Spent, Statements, Shape
<1>a. PICK from \in Statements, to \in Statements :
        /\ Goes(o, c, from, to) /\ from # "idle" /\ from \notin {"stop", "kill"} /\ to # "kill"
        /\ to = "stop" => ttl[o] = 0 /\ owed' = owed
        /\ to = "write" => held'[o][c] = ttl[o] /\ owed' = owed
        /\ UNCHANGED <<Data, enabled>>
  BY <1>1
<1>2. /\ callback[o][c] = from /\ callback'[o][c] = to
      /\ from # "idle" /\ from \notin {"stop", "kill"} /\ to # "kill"
      /\ to = "stop" => ttl[o] = 0 /\ owed' = owed
      /\ to = "write" => held'[o][c] = ttl[o] /\ owed' = owed
      /\ UNCHANGED <<Data, enabled, MaxKey, stage, Daddr, Key, overlaps>>
      /\ callback' \in [Objects -> [Callbacks -> Statements]]
      /\ \A p \in Objects : \A d \in Callbacks :
                  p # o \/ d # c => callback'[p][d] = callback[p][d]
  BY <1>0, <1>a, GoesOn
<1>3. /\ held' \in [Objects -> [Callbacks -> 0 .. TtlMod - 1]]
      /\ ttl' \in [Objects -> 0 .. TtlMod - 1] /\ owed' \in [Objects -> 0 .. TtlMod - 1]
      /\ owed'[o] <= ttl'[o] /\ owed'[o] <= owed[o]
      /\ \A p \in Objects : \A d \in Callbacks : p # o \/ d # c => held'[p][d] = held[p][d]
      /\ \A p \in Objects \ {o} : ttl'[p] = ttl[p] /\ owed'[p] = owed[p]
  <2>1. CASE Read(o, c)
    <3>1. held' = [held EXCEPT ![o][c] = ttl[o]] /\ ttl' = ttl /\ owed' = owed
      BY <2>1 DEF Read
    <3>2. ttl[o] \in 0 .. TtlMod - 1 /\ held \in [Objects -> [Callbacks -> 0 .. TtlMod - 1]]
      BY <1>0 DEF Shape
    <3>3. /\ held' \in [Objects -> [Callbacks -> 0 .. TtlMod - 1]]
          /\ \A p \in Objects : \A d \in Callbacks :
                 held'[p][d] = IF p = o /\ d = c THEN ttl[o] ELSE held[p][d]
      BY <3>1, <3>2, OneEntry
    <3> QED
      BY <1>0, <3>1, <3>3, Widths, SMT DEF Shape, Owes
  <2>2. CASE Write(o, c)
    <3>1. /\ held' = [held EXCEPT ![o][c] = 0] /\ ttl' = [ttl EXCEPT ![o] = Less1(held[o][c])]
          /\ owed' = [owed EXCEPT ![o] = IF owed[o] = 0 THEN 0 ELSE owed[o] - 1]
          /\ callback[o][c] = "write"
      BY <2>2 DEF Write, Goes
    <3>2. held[o][c] \in 0 .. TtlMod - 1 /\ held \in [Objects -> [Callbacks -> 0 .. TtlMod - 1]]
      BY <1>0 DEF Shape
    <3>3. /\ held' \in [Objects -> [Callbacks -> 0 .. TtlMod - 1]]
          /\ \A p \in Objects : \A d \in Callbacks :
                 held'[p][d] = IF p = o /\ d = c THEN 0 ELSE held[p][d]
      BY <3>1, <3>2, Widths, OneEntry
    <3>4. owed[o] <= held[o][c] /\ owed[o] \in 0 .. TtlMod - 1
      BY <1>0, <3>1 DEF Owes, Shape
    <3>5. Less1(held[o][c]) \in 0 .. TtlMod - 1
          /\ (held[o][c] > 0 => Less1(held[o][c]) = held[o][c] - 1)
      BY <3>2, LessIsLess
    <3> DEFINE l == Less1(held[o][c])  h == held[o][c]
    <3>6. l \in 0 .. TtlMod - 1 /\ h \in 0 .. TtlMod - 1 /\ (h > 0 => l = h - 1) /\ owed[o] <= h
      BY <3>2, <3>4, <3>5
    <3>7. ttl' = [ttl EXCEPT ![o] = l]
      BY <3>1
    <3> HIDE DEF l, h
    <3>8. (IF owed[o] = 0 THEN 0 ELSE owed[o] - 1) \in 0 .. TtlMod - 1
          /\ (IF owed[o] = 0 THEN 0 ELSE owed[o] - 1) <= l
          /\ (IF owed[o] = 0 THEN 0 ELSE owed[o] - 1) <= owed[o]
      BY <3>4, <3>6, Widths, SMT
    <3>9. /\ ttl' \in [Objects -> 0 .. TtlMod - 1] /\ owed' \in [Objects -> 0 .. TtlMod - 1]
          /\ ttl'[o] = l /\ owed'[o] = (IF owed[o] = 0 THEN 0 ELSE owed[o] - 1)
          /\ \A p \in Objects \ {o} : ttl'[p] = ttl[p] /\ owed'[p] = owed[p]
      BY <1>0, <3>1, <3>6, <3>7, <3>8 DEF Shape
    <3> QED
      BY <3>3, <3>8, <3>9
  <2>3. CASE Compare(o, c)
    BY <1>0, <2>3, SMT DEF Compare, Shape, Owes
  <2> QED
    BY <2>1, <2>2, <2>3
<1>4. Shape'
  BY <1>0, <1>2, <1>3, Zenon DEF Shape
<1>5. stage[o] # "free"
  BY <1>2 DEF IpInv, FreeRests
<1>6. \A p \in Objects \ {o} : callback'[p] = callback[p]
  BY <1>0, <1>2 DEF Shape
<1>7. ListedInItsPlace' /\ TickingInItsPlace' /\ FreeRests'
  BY <1>2, <1>5, <1>6, ListKept
<1>8. Owes(o)'
  <2>1. /\ owed[o] \in 0 .. TtlMod - 1 /\ owed'[o] \in 0 .. TtlMod - 1 /\ owed[o] <= ttl[o]
        /\ ttl[o] \in 0 .. TtlMod - 1
        /\ \A d \in Callbacks : held[o][d] \in 0 .. TtlMod - 1
    BY <1>0, <1>4 DEF Shape, Owes
  <2>2. ASSUME NEW d \in Callbacks
        PROVE  /\ callback'[o][d] = "write" => owed'[o] <= held'[o][d]
               /\ callback'[o][d] \in {"stop", "kill"} => owed'[o] = 0
    <3>1. CASE d = c
      BY <1>2, <2>1, <3>1, SMT
    <3>2. CASE d # c
      BY <1>0, <1>2, <1>3, <2>1, <3>2, SMT DEF Owes
    <3> QED
      BY <3>1, <3>2
  <2> QED
    BY <1>3, <2>2 DEF Owes
<1>9. \A p \in Objects \ {o} : Owes(p)'
  BY <1>2, <1>3 DEF IpInv, Owes
<1> QED
  BY <1>4, <1>7, <1>8, <1>9 DEF IpInv

LEMMA StopIpInv ==
    ASSUME IpInv, NEW o \in Objects, NEW c \in Callbacks, Stop(o, c)
    PROVE  IpInv'
<1>0. Shape
  BY DEF IpInv
<1>1. /\ callback[o][c] = "stop" /\ callback'[o][c] = "kill"
      /\ callback' \in [Objects -> [Callbacks -> Statements]]
      /\ \A p \in Objects : \A d \in Callbacks : p # o \/ d # c => callback'[p][d] = callback[p][d]
      /\ UNCHANGED <<MaxKey, stage, Daddr, Key, overlaps>>
  BY <1>0, GoesOn DEF Stop, Statements
<1>2. /\ enabled' \in [Objects -> BOOLEAN] /\ \A p \in Objects \ {o} : enabled'[p] = enabled[p]
      /\ UNCHANGED <<Data, ttl, held, owed>>
  BY <1>0 DEF Stop, Shape
<1>3. Shape'
  BY <1>0, <1>1, <1>2, Zenon DEF Shape
<1>4. Killing(o)' /\ stage[o] # "free"
  BY <1>1 DEF IpInv, FreeRests, Killing
<1>5. ListedInItsPlace' /\ TickingInItsPlace' /\ FreeRests'
  <2>1. ListedInItsPlace'
    <3>1. Data' = Data /\ stage' = stage /\ Daddr' = Daddr /\ Key' = Key
      BY <1>1, <1>2
    <3> QED
      BY <3>1 DEF IpInv, ListedInItsPlace
  <2>2. \A p \in Objects : Killing(p) => Killing(p)'
    BY <1>1, <1>4 DEF Killing
  <2>3. TickingInItsPlace'
    BY <1>1, <1>2, <1>4, <2>2 DEF IpInv, TickingInItsPlace
  <2>4. FreeRests'
    BY <1>1, <1>2, <1>4 DEF IpInv, FreeRests
  <2> QED
    BY <2>1, <2>3, <2>4
<1>6. \A p \in Objects : Owes(p)'
  BY <1>1, <1>2 DEF IpInv, Owes
<1> QED
  BY <1>3, <1>5, <1>6 DEF IpInv

LEMMA KillIpInv ==
    ASSUME IpInv, NEW o \in Objects, NEW c \in Callbacks, Kill(o, c)
    PROVE  IpInv'
<1>0. Shape
  BY DEF IpInv
<1>1. /\ callback[o][c] = "kill" /\ callback'[o][c] = "idle"
      /\ callback' \in [Objects -> [Callbacks -> Statements]]
      /\ \A p \in Objects : \A d \in Callbacks : p # o \/ d # c => callback'[p][d] = callback[p][d]
      /\ UNCHANGED <<MaxKey, stage, Daddr, Key, overlaps>>
  BY <1>0, GoesOn DEF Kill, Statements
<1>2. /\ Data' = [Data EXCEPT ![Daddr[o]][Key[o]] = Unlisted]
      /\ UNCHANGED <<ttl, enabled, held, owed>>
  BY DEF Kill, KillIPPacketIdentifier
<1>3. Daddr[o] \in Destinations /\ Key[o] \in Keys
  BY <1>0 DEF Shape
<1>4. /\ Data' \in [Destinations -> [Keys -> Objects \cup {Unlisted}]]
      /\ \A e \in Destinations : \A j \in Keys :
             Data'[e][j] = IF e = Daddr[o] /\ j = Key[o] THEN Unlisted ELSE Data[e][j]
  BY <1>0, <1>2, <1>3, OneEntry DEF Shape
<1>5. Shape'
  BY <1>0, <1>1, <1>2, <1>4, Zenon DEF Shape
<1>6. ListedInItsPlace'
  BY <1>1, <1>4, Widths, SMT DEF IpInv, ListedInItsPlace
<1>7. TickingInItsPlace'
  <2> SUFFICES ASSUME NEW d \in Destinations, NEW k \in Keys, NEW p \in Objects,
                      Data'[d][k] = p, stage'[p] \in {"sending", "done"}
               PROVE  enabled'[p] \/ Killing(p)'
    BY DEF TickingInItsPlace
  <2>1. Data[d][k] = p /\ ~(d = Daddr[o] /\ k = Key[o])
    BY <1>4, Widths
  <2>2. p # o
    BY <2>1 DEF IpInv, ListedInItsPlace
  <2>3. enabled[p] \/ Killing(p)
    BY <1>1, <2>1 DEF IpInv, TickingInItsPlace
  <2> QED
    BY <1>1, <1>2, <2>2, <2>3 DEF Killing
<1>8. FreeRests'
  BY <1>1, <1>2 DEF IpInv, FreeRests
<1>9. \A p \in Objects : Owes(p)'
  BY <1>1, <1>2 DEF IpInv, Owes
<1> QED
  BY <1>5, <1>6, <1>7, <1>8, <1>9 DEF IpInv

LEMMA NextIpInv == IpInv /\ [IpNext]_ivars => IpInv'
<1> SUFFICES ASSUME IpInv, [IpNext]_ivars PROVE IpInv'
  OBVIOUS
<1>1. ASSUME NEW d \in Destinations, CreateThrows(d) PROVE IpInv'
  <2>1. /\ MaxKey' = [MaxKey EXCEPT ![d] = NextKey(d)] /\ NextKey(d) \in Keys
        /\ UNCHANGED <<Data, stage, Daddr, Key, ttl, enabled, callback, held, owed, overlaps>>
    BY <1>1, NextKeyIsKey DEF CreateThrows, timerVars, IpInv
  <2>2. Shape'
    BY <2>1, SMT DEF IpInv, Shape
  <2>3. ListedInItsPlace' /\ TickingInItsPlace' /\ FreeRests'
    BY <2>1, ListKept
  <2>4. \A p \in Objects : Owes(p)'
    BY <2>1 DEF IpInv, Owes
  <2> QED
    BY <2>2, <2>3, <2>4 DEF IpInv
<1>2. ASSUME NEW o \in Objects, NEW c \in Callbacks, Elapses(o, c) PROVE IpInv'
  BY <1>2, CountIpInv, StopIpInv, KillIpInv DEF Elapses
<1>3. CASE UNCHANGED ivars
  <2>1. /\ UNCHANGED <<MaxKey, Data, stage, Daddr, Key, ttl, enabled, callback, held, owed>>
        /\ UNCHANGED overlaps
    BY <1>3 DEF ivars, timerVars
  <2>2. Shape'
    BY <2>1 DEF IpInv, Shape
  <2>3. ListedInItsPlace' /\ TickingInItsPlace' /\ FreeRests'
    BY <2>1, ListKept
  <2>4. \A p \in Objects : Owes(p)'
    BY <2>1 DEF IpInv, Owes
  <2> QED
    BY <2>2, <2>3, <2>4 DEF IpInv
<1> QED
  BY <1>1, <1>2, <1>3, CreateIpInv, SenderIpInv, FreeIpInv, FireIpInv DEF IpNext

THEOREM IpInvariant == IpSpec => []IpInv
BY InitIpInv, NextIpInv, PTL DEF IpSpec

(* A datagram that was sent and is listed has its countdown going, or a    *)
(* callback between the stop of its timer and its removal, however many    *)
(* datagrams, destinations, callbacks at once and turns of the numbers     *)
(* there are.                                                              *)
THEOREM SentDatagramsCountDown == IpSpec => []ListedIsTicking
<1>1. ASSUME IpInv, NEW o \in Objects, Listed(o), stage[o] \in {"sending", "done"}
      PROVE  enabled[o] \/ \E c \in Callbacks : callback[o][c] = "kill"
  <2>1. Daddr[o] \in Destinations /\ Key[o] \in Keys /\ Data[Daddr[o]][Key[o]] = o
    BY <1>1 DEF IpInv, Shape, Listed
  <2>2. enabled[o] \/ Killing(o)
    BY <1>1, <2>1, Zenon DEF IpInv, TickingInItsPlace
  <2> QED
    BY <2>2 DEF Killing
<1>2. IpInv => ListedIsTicking
  BY <1>1, Zenon DEF ListedIsTicking
<1> QED
  BY <1>2, IpInvariant, PTL

(* A number is freed by a datagram that had it and has been counted down   *)
(* as often as its TTL says, and by nothing else, although the byte is     *)
(* read, written and compared without a lock.                              *)
THEOREM NumbersAreFreedWhenSpent == IpSpec => FreedWhenSpent
<1> DEFINE BySpent(d, k) ==
        Data[d][k] # Unlisted /\ Data'[d][k] = Unlisted
           => \E o \in Objects, c \in Callbacks :
                  /\ Daddr[o] = d /\ Key[o] = k /\ owed[o] = 0
                  /\ callback[o][c] # "idle" /\ callback'[o][c] = "idle"
<1>1. ASSUME IpInv, [IpNext]_ivars, NEW d \in Destinations, NEW k \in Keys
      PROVE  BySpent(d, k)
  <2> SUFFICES ASSUME Data[d][k] # Unlisted, Data'[d][k] = Unlisted
               PROVE  \E o \in Objects, c \in Callbacks :
                          /\ Daddr[o] = d /\ Key[o] = k /\ owed[o] = 0
                          /\ callback[o][c] # "idle" /\ callback'[o][c] = "idle"
    OBVIOUS
  <2>0. Shape /\ Data \in [Destinations -> [Keys -> Objects \cup {Unlisted}]]
    BY <1>1 DEF IpInv, Shape
  <2>1. ASSUME NEW o \in Objects, NEW e \in Destinations, NEW t \in StartTtl,
               Create(o, e, t)
        PROVE  FALSE
    <3>1. NextKey(e) \in Keys /\ Data' = [Data EXCEPT ![e][NextKey(e)] = o]
      BY <2>0, <2>1, NextKeyIsKey DEF Create
    <3>2. Data'[d][k] = IF d = e /\ k = NextKey(e) THEN o ELSE Data[d][k]
      BY <2>0, <3>1, OneEntry
    <3> QED
      BY <3>2, Widths
  <2>2. ASSUME NEW o \in Objects, NEW c \in Callbacks, Kill(o, c)
        PROVE  /\ Daddr[o] = d /\ Key[o] = k /\ owed[o] = 0
               /\ callback[o][c] # "idle" /\ callback'[o][c] = "idle"
    <3>1. callback[o][c] = "kill" /\ callback'[o][c] = "idle"
      BY <2>0, <2>2, GoesOn DEF Kill, Statements
    <3>2. Data' = [Data EXCEPT ![Daddr[o]][Key[o]] = Unlisted]
          /\ Daddr[o] \in Destinations /\ Key[o] \in Keys
      BY <2>0, <2>2 DEF Kill, KillIPPacketIdentifier, Shape
    <3>3. Data'[d][k] = IF d = Daddr[o] /\ k = Key[o] THEN Unlisted ELSE Data[d][k]
      BY <2>0, <3>2, OneEntry
    <3>4. owed[o] = 0
      BY <1>1, <3>1 DEF IpInv, Owes
    <3> QED
      BY <3>1, <3>3, <3>4
  <2>3. ASSUME UNCHANGED Data PROVE FALSE
    BY <2>3
  <2>4. ASSUME ~(\E o \in Objects, e \in Destinations, t \in StartTtl : Create(o, e, t)),
               ~(\E o \in Objects, c \in Callbacks : Kill(o, c))
        PROVE  UNCHANGED Data
    BY <1>1, <2>4, Zenon
       DEF IpNext, ivars, CreateThrows, Leak, SendFragment, SendEnds, Fire, FreeObject,
           Elapses, Read, Write, Compare, Stop
  <2> QED
    BY <2>1, <2>2, <2>3, <2>4
<1>2. IpInv /\ [IpNext]_ivars => [\A d \in Destinations, k \in Keys : BySpent(d, k)]_ivars
  BY <1>1
<1> QED
  BY <1>2, IpInvariant, PTL DEF IpSpec, FreedWhenSpent


-----------------------------------------------------------------------------
(***************************************************************************)
(* Proofs about IpFragment, for payloads of every length.  The loop keeps  *)
(* the offset equal to the bytes already cut off, and both a multiple of   *)
(* eight; from that follows what the fragments say.                        *)
(***************************************************************************)

Fragments == [from : Nat, size : Nat, offset : Nat, more : BOOLEAN, length : 0 .. UShort - 1]

OffsetIsCutOff ==
    total <= UShort /\ remaining > 0 => /\ fragmentOffset = total - remaining
                                        /\ (total - remaining) % 8 = 0

FragmentInv == FTypeOK /\ OffsetIsCutOff /\ OffsetsTellThePlace

LEMMA UShortIs == UShort \in Nat /\ UShort > 0
BY DEF UShort

LEMMA ModSmall == \A x, m \in Nat : x < m => x % m = x
BY SMT

LEMMA CutIsEights == copyCount \in Nat /\ copyCount % 8 = 0 /\ copyCount > 0
BY IpFragmentAssumption, SMT DEF copyCount, InternetHeaderLength

LEMMA FragmentType ==
    ASSUME FTypeOK, NEW size \in Nat, NEW more \in BOOLEAN
    PROVE  Fragment(size, more) \in Fragments
<1>1. total \in Nat /\ remaining \in Nat /\ remaining <= total
      /\ fragmentOffset \in Nat
  BY IpFragmentAssumption, UShortIs, SMT DEF FTypeOK
<1>2. total - remaining \in Nat
  BY <1>1, SMT
<1>3. fragmentOffset \div 8 \in Nat
  BY <1>1, SMT
<1>4. headerLength + size \in Nat
  BY IpFragmentAssumption, SMT DEF headerLength
<1>5. (headerLength + size) % UShort \in 0 .. UShort - 1
  BY <1>4, UShortIs, ModRange, Zenon
<1> QED
  BY <1>2, <1>3, <1>5, Zenon DEF Fragment, Fragments

(* Appending a fragment keeps what holds of all fragments.                 *)
LEMMA OneMore ==
    ASSUME NEW f \in Fragments, list \in Seq(Fragments), list' = Append(list, f),
           \A i \in DOMAIN list : list[i].offset * 8 = list[i].from,
           f.offset * 8 = f.from
    PROVE  /\ list' \in Seq(Fragments)
           /\ \A i \in DOMAIN list' : list'[i].offset * 8 = list'[i].from
BY SMT

LEMMA InitFragmentInv == FInit => FragmentInv
BY IpFragmentAssumption, SMT
   DEF FInit, FragmentInv, FTypeOK, OffsetIsCutOff, OffsetsTellThePlace, UShort

LEMMA NextFragmentInv == FragmentInv /\ [FNext]_fvars => FragmentInv'
<1> SUFFICES ASSUME FragmentInv, [FNext]_fvars PROVE FragmentInv'
  OBVIOUS
<1> USE IpFragmentAssumption DEF FragmentInv
<1>0. list \in Seq(Fragments) /\ total \in Nat /\ remaining \in Nat
      /\ remaining <= total /\ fragmentOffset \in 0 .. UShort - 1
  BY UShortIs, SMT DEF FTypeOK, Fragments
<1>1. ASSUME NEW size \in Nat, NEW more \in BOOLEAN, remaining > 0,
             list' = Append(list, Fragment(size, more)), total' = total
      PROVE  list' \in Seq(Fragments) /\ OffsetsTellThePlace'
  <2>1. Fragment(size, more) \in Fragments
    BY FragmentType
  <2>2. CASE total <= UShort
    <3>1. fragmentOffset = total - remaining /\ (total - remaining) % 8 = 0
      BY <1>1, <2>2 DEF OffsetIsCutOff
    <3>2. Fragment(size, more).offset * 8 = Fragment(size, more).from
      BY <1>0, <3>1, SMT DEF Fragment
    <3>3. \A i \in DOMAIN list : list[i].offset * 8 = list[i].from
      BY <2>2 DEF OffsetsTellThePlace
    <3> QED
      BY <1>0, <1>1, <2>1, <3>2, <3>3, OneMore DEF OffsetsTellThePlace
  <2>3. CASE ~(total <= UShort)
    BY <1>0, <1>1, <2>1, <2>3, SMT DEF OffsetsTellThePlace
  <2> QED
    BY <2>2, <2>3
<1>2. CASE CutFragment
  <2>1. list' \in Seq(Fragments) /\ OffsetsTellThePlace'
    BY <1>1, <1>2, CutIsEights DEF CutFragment
  <2>2. /\ total' = total
        /\ remaining' = remaining - copyCount /\ remaining >= copyCount
        /\ remaining > 0
        /\ fragmentOffset' = (fragmentOffset + copyCount) % UShort
    BY <1>2 DEF CutFragment
  <2>3. FTypeOK'
    <3>1. fragmentOffset + copyCount \in Nat
      BY <1>0, CutIsEights, UShortIs, SMT
    <3>2. fragmentOffset' \in 0 .. UShort - 1
      BY <2>2, <3>1, UShortIs, ModRange, Zenon
    <3>3. total' \in Lengths /\ remaining' \in 0 .. total'
      BY <1>0, <2>2, CutIsEights, SMT DEF FTypeOK
    <3> QED
      BY <2>1, <3>2, <3>3, Zenon DEF FTypeOK, Fragments
  <2>4. OffsetIsCutOff'
    <3> SUFFICES ASSUME total <= UShort, remaining' > 0
                 PROVE  /\ fragmentOffset' = total - remaining'
                        /\ (total - remaining') % 8 = 0
      BY <2>2 DEF OffsetIsCutOff
    <3>1. fragmentOffset = total - remaining /\ (total - remaining) % 8 = 0
      BY <2>2 DEF OffsetIsCutOff
    <3>2. total - remaining' = (total - remaining) + copyCount
          /\ remaining' \in Nat /\ copyCount \in Nat
      BY <1>0, <2>2, CutIsEights, SMT
    <3>3. (total - remaining) + copyCount < UShort
      <4>1. \A t, r, u \in Nat : t <= u /\ r > 0 => t - r < u
        BY SMT
      <4> QED
        BY <1>0, <3>2, <4>1, UShortIs, Zenon
    <3>4. (total - remaining) + copyCount \in Nat
      BY <1>0, <3>2, SMT
    <3>5. fragmentOffset' = (total - remaining) + copyCount
      BY <2>2, <3>1, <3>3, <3>4, UShortIs, ModSmall, Zenon
    <3>6. total - remaining \in Nat
      BY <1>0, SMT
    <3>7. ((total - remaining) + copyCount) % 8 = 0
      BY <3>1, <3>6, CutIsEights, SMT
    <3> QED
      BY <3>2, <3>5, <3>7
  <2> QED
    BY <2>1, <2>3, <2>4
<1>3. CASE LastFragment
  <2>1. list' \in Seq(Fragments) /\ OffsetsTellThePlace'
    BY <1>0, <1>1, <1>3 DEF LastFragment
  <2> QED
    <3>1. remaining' = 0 /\ total' = total /\ fragmentOffset' = fragmentOffset
      BY <1>3 DEF LastFragment
    <3>2. total' \in Lengths /\ remaining' \in 0 .. total'
          /\ fragmentOffset' \in 0 .. UShort - 1
      BY <1>0, <3>1, SMT DEF FTypeOK
    <3>3. FTypeOK'
      BY <2>1, <3>2, Zenon DEF FTypeOK, Fragments
    <3>4. OffsetIsCutOff'
      BY <3>1, SMT DEF OffsetIsCutOff
    <3> QED
      BY <2>1, <3>3, <3>4
<1>4. CASE UNCHANGED fvars
  BY <1>4, SMT DEF fvars, FTypeOK, OffsetIsCutOff, OffsetsTellThePlace
<1> QED
  BY <1>2, <1>3, <1>4 DEF FNext

THEOREM FragmentInvariant == FSpec => []FragmentInv
BY InitFragmentInv, NextFragmentInv, PTL DEF FSpec

(* Whatever the length of the payload (up to the reach of the offset), the *)
(* offset of every fragment is the place its bytes come from.              *)
THEOREM OffsetsAreRight == FSpec => []OffsetsTellThePlace
<1>1. FragmentInv => OffsetsTellThePlace
  BY DEF FragmentInv
<1> QED
  BY <1>1, FragmentInvariant, PTL

(* The condition on the numbers under which no fragment is too long: the   *)
(* room, worked out with the short header and rounded down to eights, must *)
(* still leave space for the real one.                                     *)
RoomForHeader == headerLength + copyCount <= Mtu /\ Mtu < UShort

(* It holds for the numbers in the code.  It need not for others: with an  *)
(* MTU of 1504 the room of 1488 is a multiple of eight itself, and the     *)
(* fragment is four bytes too long.                                        *)
LEMMA NumbersOfTheCode == Mtu = 1500 /\ Version = 4 => RoomForHeader
BY SMT DEF RoomForHeader, copyCount, headerLength, InternetHeaderLength, UShort

LEMMA NextFits == RoomForHeader /\ FragmentInv /\ FragmentsFit /\ [FNext]_fvars => FragmentsFit'
<1> SUFFICES ASSUME RoomForHeader, FragmentInv, FragmentsFit, [FNext]_fvars PROVE FragmentsFit'
  OBVIOUS
<1>1. /\ list \in Seq(Fragments) /\ remaining \in Nat
      /\ headerLength \in Nat /\ copyCount \in Nat /\ Mtu \in Nat
  BY IpFragmentAssumption, CutIsEights, SMT
     DEF FragmentInv, FTypeOK, Fragments, headerLength
<1>2. ASSUME NEW size \in Nat, NEW more \in BOOLEAN, headerLength + size <= Mtu,
             list' = Append(list, Fragment(size, more))
      PROVE  FragmentsFit'
  <2>1. headerLength + size < UShort /\ headerLength + size \in Nat
    BY <1>1, <1>2, UShortIs, SMT DEF RoomForHeader
  <2>2. (headerLength + size) % UShort = headerLength + size
    BY <2>1, UShortIs, ModSmall, Zenon
  <2>3. /\ Fragment(size, more).length = headerLength + Fragment(size, more).size
        /\ Fragment(size, more).length <= Mtu
    BY <1>2, <2>2 DEF Fragment
  <2>4. Fragment(size, more) \in Fragments
    BY FragmentType DEF FragmentInv
  <2> QED
    BY <1>1, <1>2, <2>3, <2>4, SMT DEF FragmentsFit
<1>3. CASE CutFragment
  BY <1>1, <1>2, <1>3, Zenon DEF CutFragment, RoomForHeader
<1>4. CASE LastFragment
  <2>1. headerLength + remaining <= Mtu
    BY <1>1, <1>4, SMT DEF LastFragment, TooLong
  <2> QED
    BY <1>1, <1>2, <1>4, <2>1, Zenon DEF LastFragment
<1>5. CASE UNCHANGED fvars
  BY <1>5 DEF fvars, FragmentsFit
<1> QED
  BY <1>3, <1>4, <1>5 DEF FNext

(* Every fragment of every payload fits the MTU, and its TotalLength says  *)
(* how long it is, with the MTU and the version of the code.               *)
THEOREM FragmentsAlwaysFit == Mtu = 1500 /\ Version = 4 => (FSpec => []FragmentsFit)
<1> SUFFICES ASSUME Mtu = 1500 /\ Version = 4 PROVE FSpec => []FragmentsFit
  OBVIOUS
<1>1. RoomForHeader
  BY NumbersOfTheCode
<1>2. FInit => FragmentsFit
  BY SMT DEF FInit, FragmentsFit
<1>3. FragmentInv /\ FragmentsFit /\ [FNext]_fvars => FragmentsFit'
  BY <1>1, NextFits
<1> QED
  BY <1>2, <1>3, FragmentInvariant, PTL DEF FSpec

(* Whatever the length of the payload, every fragment fits the MTU and     *)
(* tells the place of its bytes (SystemModule.cs:167-187).                 *)
THEOREM FragmentsArePlaced ==
    Mtu = 1500 /\ Version = 4 => (FSpec => []EveryFragmentIsPlaced)
<1> SUFFICES ASSUME Mtu = 1500 /\ Version = 4 PROVE FSpec => []EveryFragmentIsPlaced
  OBVIOUS
<1>1. FSpec => []FragmentsFit
  BY FragmentsAlwaysFit
<1>2. FragmentsFit /\ OffsetsTellThePlace => EveryFragmentIsPlaced
  BY DEF EveryFragmentIsPlaced
<1> QED
  BY <1>1, <1>2, OffsetsAreRight, PTL

-----------------------------------------------------------------------------
(***************************************************************************)
(* The leaks of IpIdentifier: one is taken back only for an object that    *)
(* leaked, so that their count stays in its bound.                         *)
(***************************************************************************)

Leaked == {o \in Objects : stage[o] = "leaked"}

LeaksAreCounted ==
    /\ IsFiniteSet(Leaked) /\ leaks = Cardinality(Leaked)
    /\ leaks \in 0 .. MaxLeaks

LEMMA InitLeaks == IpInit => LeaksAreCounted
<1> SUFFICES ASSUME IpInit PROVE LeaksAreCounted
  OBVIOUS
<1>1. Leaked = {}
  BY SMT DEF IpInit, Leaked
<1> QED
  BY <1>1, FS_EmptySet, IpIdentifierAssumption, SMT DEF IpInit, LeaksAreCounted

(* The leaks, by what a step does to the stages.                           *)
LEMMA NextLeaks == IpInv /\ LeaksAreCounted /\ [IpNext]_ivars => LeaksAreCounted'
<1> SUFFICES ASSUME IpInv, LeaksAreCounted, [IpNext]_ivars PROVE LeaksAreCounted'
  OBVIOUS
<1>0. /\ IsFiniteSet(Leaked) /\ leaks = Cardinality(Leaked) /\ leaks \in 0 .. MaxLeaks
      /\ MaxLeaks \in Nat
      /\ stage \in [Objects -> {"free", "made", "sending", "done", "leaked"}]
  BY IpIdentifierAssumption DEF LeaksAreCounted, IpInv, Shape
<1>1. ASSUME leaks' = leaks, Leaked' = Leaked PROVE LeaksAreCounted'
  BY <1>0, <1>1 DEF LeaksAreCounted
<1>2. ASSUME NEW o \in Objects, NEW d \in Destinations, NEW t \in StartTtl,
             Create(o, d, t)
      PROVE  LeaksAreCounted'
  BY <1>0, <1>1, <1>2, SMT DEF Create, Leaked
<1>3. ASSUME NEW d \in Destinations, CreateThrows(d) PROVE LeaksAreCounted'
  BY <1>1, <1>3 DEF CreateThrows, Leaked
<1>4. ASSUME NEW o \in Objects, Leak(o) PROVE LeaksAreCounted'
  <2>1. Leaked' = Leaked \cup {o} /\ o \notin Leaked
    BY <1>0, <1>4, SMT DEF Leak, Leaked
  <2>2. leaks' = leaks + 1 /\ leaks < MaxLeaks
    BY <1>4 DEF Leak
  <2>3. IsFiniteSet(Leaked') /\ Cardinality(Leaked') = Cardinality(Leaked) + 1
    BY <1>0, <2>1, FS_AddElement
  <2> QED
    BY <1>0, <2>2, <2>3, SMT DEF LeaksAreCounted
<1>5. ASSUME NEW o \in Objects, SendFragment(o) PROVE LeaksAreCounted'
  BY <1>0, <1>1, <1>5, SMT DEF SendFragment, Leaked
<1>6. ASSUME NEW o \in Objects, SendEnds(o) PROVE LeaksAreCounted'
  BY <1>0, <1>1, <1>6, SMT DEF SendEnds, Leaked
<1>7. ASSUME NEW o \in Objects, NEW c \in Callbacks, Elapses(o, c)
      PROVE  LeaksAreCounted'
  BY <1>1, <1>7, Zenon DEF Elapses, Goes, Read, Write, Compare, Stop, Kill, Leaked
<1>8. ASSUME NEW o \in Objects, FreeObject(o) PROVE LeaksAreCounted'
  <2>1. Leaked' = Leaked \ {o} /\ (o \in Leaked <=> stage[o] = "leaked")
    BY <1>0, <1>8, SMT DEF FreeObject, Leaked
  <2>2. leaks' = IF stage[o] = "leaked" THEN leaks - 1 ELSE leaks
    BY <1>8 DEF FreeObject
  <2>3. /\ IsFiniteSet(Leaked')
        /\ Cardinality(Leaked')
              = IF o \in Leaked THEN Cardinality(Leaked) - 1 ELSE Cardinality(Leaked)
    BY <1>0, <2>1, FS_RemoveElement
  <2>4. Cardinality(Leaked') \in Nat
    BY <2>3, FS_CardinalityType
  <2> QED
    BY <1>0, <2>1, <2>2, <2>3, <2>4, SMT DEF LeaksAreCounted
<1>9. CASE UNCHANGED ivars
  BY <1>1, <1>9 DEF ivars, Leaked
<1>10. ASSUME NEW o \in Objects, Fire(o) PROVE LeaksAreCounted'
  BY <1>1, <1>10, Zenon DEF Fire, Leaked
<1> QED
  BY <1>2, <1>3, <1>4, <1>5, <1>6, <1>7, <1>8, <1>9, <1>10 DEF IpNext

LEMMA LeaksAreTyped == IpInv /\ LeaksAreCounted => IpTypeOK
BY DEF IpInv, Shape, LeaksAreCounted, IpTypeOK

(* For any widths of numbers and countdowns, any lateness of callbacks and *)
(* any datagrams that leak, every variable of the identifications keeps    *)
(* its type (SystemModule.cs:23-52, IPPacketIdentifier.cs:27-45).          *)
THEOREM IpTypeCorrect == IpSpec => []IpTypeOK
<1>1. IpInit => IpInv /\ LeaksAreCounted
  BY InitIpInv, InitLeaks
<1>2. IpInv /\ LeaksAreCounted /\ [IpNext]_ivars => (IpInv /\ LeaksAreCounted)'
  BY NextIpInv, NextLeaks
<1>3. IpInv /\ LeaksAreCounted => IpTypeOK
  BY LeaksAreTyped
<1> QED
  BY <1>1, <1>2, <1>3, PTL DEF IpSpec

-----------------------------------------------------------------------------
(***************************************************************************)
(* The threads that flood, and all of the services together.               *)
(***************************************************************************)

(* The timer thread serves a device only while there is one left.          *)
FloodInv ==
    FloodTypeOK /\ (flooding["timer"] # "idle" => toServe > 0)

LEMMA InitFloodInv == FloodInit => FloodInv
<1> SUFFICES ASSUME FloodInit PROVE FloodInv
  OBVIOUS
<1>1. flooding \in [Flooders -> {"idle", "begin", "select", "selected", "build", "send"}]
  BY DEF FloodInit
<1>2. flooding["timer"] = "idle"
  BY DEF FloodInit, Flooders
<1>3. toServe \in 0 .. ActiveDevices
  BY FloodAssumption, SMT DEF FloodInit
<1> QED
  BY <1>1, <1>2, <1>3, Zenon DEF FloodInit, FloodInv, FloodTypeOK

LEMMA NextFloodInv == FloodInv /\ [FloodNext]_floodVars => FloodInv'
<1> SUFFICES ASSUME FloodInv, [FloodNext]_floodVars PROVE FloodInv'
  OBVIOUS
<1> USE FloodAssumption DEF FloodInv, FloodTypeOK, Enumerating, Flooders, FloodMoves
<1>1. CASE UpdateElapses
  BY <1>1, SMT DEF UpdateElapses
<1>2. CASE RequestArrives
  BY <1>2, SMT DEF RequestArrives
<1>3. ASSUME NEW x \in Learned, Discover(x) \/ GcCollects(x) PROVE FloodInv'
  <2>1. /\ UNCHANGED <<flooding, toServe, down>>
        /\ torn' = torn \cup Enumerating
        /\ crossed' \in BOOLEAN
    BY <1>3, Zenon DEF Discover, GcCollects
  <2>2. ripDatabase' \subseteq Learned
    BY <1>3, Zenon DEF Discover, GcCollects
  <2> QED
    BY <2>1, <2>2, Zenon
<1>5. ASSUME NEW t \in Flooders, Walks(t) PROVE FloodInv'
  BY <1>5, SMT DEF Walks, Steps
<1>6. ASSUME NEW t \in Flooders, Throws(t) PROVE FloodInv'
  BY <1>6, SMT DEF Throws
<1>7. CASE Serve
  BY <1>7, SMT DEF Serve
<1>8. CASE Answer
  BY <1>8, SMT DEF Answer
<1>9. CASE UNCHANGED floodVars
  BY <1>9, SMT DEF floodVars
<1> QED
  BY <1>1, <1>2, <1>3, <1>5, <1>6, <1>7, <1>8, <1>9 DEF FloodNext, Update, Request

ServicesInv == ArpInv /\ EchoInv /\ IpInv /\ LeaksAreCounted /\ FragmentInv /\ FloodInv

LEMMA InitServicesInv == ServicesInit => ServicesInv
BY InitArpInv, InitEchoInv, InitIpInv, InitLeaks, InitFragmentInv, InitFloodInv
   DEF ServicesInit, ServicesInv

LEMMA NextServicesInv ==
    ServicesInv /\ [ServicesNext]_<<part, arpVars, echoVars, ivars, fvars, floodVars>>
        => ServicesInv'
<1> SUFFICES ASSUME ServicesInv,
                    [ServicesNext]_<<part, arpVars, echoVars, ivars, fvars, floodVars>>
             PROVE  ServicesInv'
  OBVIOUS
<1>1. /\ [ArpNext]_arpVars /\ [EchoNext]_echoVars /\ [IpNext]_ivars
      /\ [FNext]_fvars /\ [FloodNext]_floodVars
  BY Zenon DEF ServicesNext
<1>2. ArpInv' /\ EchoInv'
  BY <1>1, NextArpInv, NextEchoInv DEF ServicesInv
<1>3. IpInv' /\ LeaksAreCounted'
  BY <1>1, NextIpInv, NextLeaks DEF ServicesInv
<1>4. FragmentInv' /\ FloodInv'
  BY <1>1, NextFragmentInv, NextFloodInv DEF ServicesInv
<1> QED
  BY <1>2, <1>3, <1>4 DEF ServicesInv

(* For any sizes of the parts, every variable of the services keeps its    *)
(* type: a count of callbacks, leaks, devices to serve or bytes never      *)
(* leaves its range (SystemModule.cs:23-285, IcmpModule.cs:32-85,          *)
(* RipModule.cs:97-189).                                                   *)
THEOREM ServicesTypeCorrect == ServicesSpec => []ServicesTypeOK
<1>1. ServicesInv => ServicesTypeOK
  BY LeaksAreTyped
     DEF ServicesInv, ServicesTypeOK, ArpInv, EchoInv, FragmentInv, FloodInv
<1> QED
  BY <1>1, InitServicesInv, NextServicesInv, PTL DEF ServicesSpec

=============================================================================
