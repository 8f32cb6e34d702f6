--------------------------- MODULE OspfInterface ----------------------------
(***************************************************************************)
(* The OSPF interfaces of the routers on one segment:                      *)
(* NetInterop.Routing.Ospf/Interface.cs, with what OspfModule.cs raises.   *)
(*                                                                         *)
(* Each router has a packet thread, which handles one hello at a time, a   *)
(* wait timer, a hello timer and a thread that brings the interface up.    *)
(* DecisionLock covers the calculation of the DR and the look a hello      *)
(* takes at the interface; it does not cover the creation of a neighbour,  *)
(* nor SendHello, which may therefore tell the segment about a DR and a    *)
(* BDR that were never in force together.  Each step between two points    *)
(* where another thread can look is an action.                             *)
(*                                                                         *)
(* A Neighbor object is reduced to how far it has got: OspfNeighbor shows  *)
(* that it never goes back below TwoWay (NoWayBack), as RaiseEvent takes   *)
(* no next state of a row; what the rows say is LostGoesBack.              *)
(***************************************************************************)
EXTENDS OspfElection, StateMachine, FiniteSets

CONSTANTS
  Eligible,       \* the routers whose Priority is not zero
  Broadcast,      \* the network type of the segment: Broadcast or PointToPoint
  DeadInterval,   \* RouterDeadInterval, the length of the wait, in seconds
  Flapping,       \* the routers whose link may be lost
  MaxHalf         \* bound on the routers that are in the middle of SendHello at once

ASSUME InterfaceAssumption ==
  /\ Eligible \subseteq Routers
  /\ Broadcast \in BOOLEAN
  /\ DeadInterval \in Nat
  /\ Flapping \subseteq Routers
  /\ MaxHalf \in Nat

VARIABLES
  l3up,        \* the device is L2UpL3Up
  ifState,     \* InterfaceState
  dr, bdr,     \* DR and BDR
  nbr,         \* per router and peer: no entry in NeighborMap, or the neighbour's progress
  claim,       \* DR and BDR of the neighbour, as its first hello had them
  waitTimer,   \* the wait timer
  waitOver,    \* its callback has seen the wait elapsed and wants the lock
  decision,    \* how far the holder of DecisionLock has got in the calculation
  toStore,     \* the BDR it has computed and not yet stored
  half,        \* SendHello has read this DR and not yet the BDR
  hello        \* the hello the packet thread is handling, if any

electVars == <<dr, bdr, decision, toStore>>
timerVars == <<waitTimer, waitOver>>
nbrVars == <<nbr, claim>>
ivars == <<l3up, ifState, electVars, nbrVars, timerVars, half, hello>>

Progress == {"Absent", "Heard", "TwoWay", "ExStart"}
IfStates == {"Down", "Waiting", "PointToPoint", "DROther", "Backup", "DR"}
NoClaim == [dr |-> NoAddress, bdr |-> NoAddress]

\* A hello: its sender, what it claims, whether it lists the receiver, and how
\* far HelloReceived has got with it.
Hello == [from : Routers, dr : Address, bdr : Address, listed : BOOLEAN,
          at : {"Known", "Deciding", "Neighbor"}]

\* The event table.
IfOrd == [Down |-> 1, Loopback |-> 2, Waiting |-> 3, PointToPoint |-> 4, DROther |-> 5,
          Backup |-> 6, DR |-> 7]

IfTable ==
  UNION {
    AddAction("Down", "InterfaceUp"),
    AddAction("Waiting", "BackupSeen"),
    AddAction("Waiting", "WaitTimer"),
    AddAction("DROther", "NeighborChange"),
    AddAction("DR", "NeighborChange"),
    AddAction("Backup", "NeighborChange"),
    AddDefault(IfOrd, "InterfaceDown"),
    AddAnyNext(IfOrd, "LoopInd", "Loopback"),
    AddActionNext("Loopback", "UnloopInd", "Down") }

HasRow(i, evt) == Registered(IfTable, ifState[i], evt)

Bidirectional(i, j) == nbr[i][j] \in {"TwoWay", "ExStart"}

IInit ==
  /\ l3up = [i \in Routers |-> FALSE]
  /\ ifState = [i \in Routers |-> "Down"]
  /\ dr = [i \in Routers |-> NoAddress]
  /\ bdr = [i \in Routers |-> NoAddress]
  /\ nbr = [i \in Routers |-> [j \in Routers |-> "Absent"]]
  /\ claim = [i \in Routers |-> [j \in Routers |-> NoClaim]]
  /\ waitTimer = [i \in Routers |-> "None"]
  /\ waitOver = [i \in Routers |-> FALSE]
  /\ decision = [i \in Routers |-> "Free"]
  /\ toStore = [i \in Routers |-> NoAddress]
  /\ half = [i \in Routers |-> {}]
  /\ hello = [i \in Routers |-> {}]

-----------------------------------------------------------------------------
\* The device and the interface.

\* InterfaceUp, raised by Init, by OspfModule.Initialize for an enabled device
\* (whatever its link) or by StateChanged.
InterfaceUp(i) ==
  /\ HasRow(i, "InterfaceUp")
  /\ \E up \in {TRUE, i \notin Flapping} : l3up' = [l3up EXCEPT ![i] = up]
  /\ ifState' = [ifState EXCEPT ![i] =
                   IF ~Broadcast THEN "PointToPoint"
                   ELSE IF i \in Eligible THEN "Waiting" ELSE "DROther"]
  /\ UNCHANGED <<electVars, nbrVars, timerVars, half, hello>>

\* The wait timer is created after the state has changed.
WaitTimerStarts(i) ==
  /\ Broadcast /\ i \in Eligible
  /\ ifState[i] # "Down" /\ waitTimer[i] = "None"
  /\ waitTimer' = [waitTimer EXCEPT ![i] = "Running"]
  /\ UNCHANGED <<l3up, ifState, electVars, nbrVars, waitOver, half, hello>>

\* The device loses its link: StateChanged raises InterfaceDown, for which no
\* state has a row, and the exception is all that comes of it.
LinkLost(i) ==
  /\ i \in Flapping /\ l3up[i]
  /\ ~HasRow(i, "InterfaceDown")
  /\ l3up' = [l3up EXCEPT ![i] = FALSE]
  /\ UNCHANGED <<ifState, electVars, nbrVars, timerVars, half, hello>>

\* The link is back; an interface that is not Down is left alone.
LinkBack(i) ==
  /\ ~l3up[i] /\ ifState[i] # "Down"
  /\ l3up' = [l3up EXCEPT ![i] = TRUE]
  /\ UNCHANGED <<ifState, electVars, nbrVars, timerVars, half, hello>>

-----------------------------------------------------------------------------
\* The wait timer.

\* Slip: the timer stops and nothing comes of it.
WaitForgotten(i) ==
  /\ waitTimer[i] = "Running"
  /\ waitTimer' = [waitTimer EXCEPT ![i] = "Stopped"]
  /\ UNCHANGED <<l3up, ifState, electVars, nbrVars, waitOver, half, hello>>

\* The callback compares TimeSpan.Seconds, which never exceeds 59.
WaitElapses(i) ==
  /\ waitTimer[i] = "Running"
  /\ DeadInterval < 60
  /\ waitTimer' = [waitTimer EXCEPT ![i] = "Stopped"]
  /\ waitOver' = [waitOver EXCEPT ![i] = TRUE]
  /\ UNCHANGED <<l3up, ifState, electVars, nbrVars, half, hello>>

-----------------------------------------------------------------------------
\* CalculateDRAndBDR, under DecisionLock.

Reset(i) ==
  /\ decision[i] = "Free"
  /\ decision' = [decision EXCEPT ![i] = "Reset"]
  /\ dr' = [dr EXCEPT ![i] = NoAddress]
  /\ UNCHANGED <<bdr, toStore>>

\* The callback enters, whatever the state has become since it asked.
WaitDecides(i) ==
  /\ waitOver[i]
  /\ waitOver' = [waitOver EXCEPT ![i] = FALSE]
  /\ Reset(i)
  /\ UNCHANGED <<l3up, ifState, nbrVars, waitTimer, half, hello>>

Others(i) ==
  {[addr |-> j, dr |-> claim[i][j].dr, bdr |-> claim[i][j].bdr] :
     j \in {k \in Eligible : Bidirectional(i, k)}}

\* Slip: the state is left as it was.
CalculateOnly(i) ==
  /\ decision[i] = "Reset"
  /\ decision' = [decision EXCEPT ![i] = "Stored"]
  /\ bdr' = [bdr EXCEPT ![i] = NoAddress]
  /\ dr' = [dr EXCEPT ![i] = Elect(i, Others(i)).dr]
  /\ toStore' = [toStore EXCEPT ![i] = Elect(i, Others(i)).bdr]
  /\ UNCHANGED <<l3up, ifState, nbrVars, timerVars, half, hello>>

\* BDR is reset, the neighbours are enumerated and the result is computed; the
\* new state and the new DR are stored.  What another thread can see between
\* these it sees just before or just after them.
Calculate(i) ==
  /\ decision[i] = "Reset"
  /\ decision' = [decision EXCEPT ![i] = "Stored"]
  /\ bdr' = [bdr EXCEPT ![i] = NoAddress]
  /\ LET o == Elect(i, Others(i)) IN
       /\ ifState' = [ifState EXCEPT ![i] = Role(i, o)]
       /\ dr' = [dr EXCEPT ![i] = o.dr]
       /\ toStore' = [toStore EXCEPT ![i] = o.bdr]
  /\ UNCHANGED <<l3up, nbrVars, timerVars, half, hello>>

\* The last test compares DR and BDR with the values just stored in them, so it
\* fails and AdjOK is never raised.  The lock is released.
StoreBDR(i) ==
  /\ decision[i] = "Stored"
  /\ decision' = [decision EXCEPT ![i] = "Free"]
  /\ bdr' = [bdr EXCEPT ![i] = toStore[i]]
  /\ toStore' = [toStore EXCEPT ![i] = NoAddress]
  /\ hello' = [hello EXCEPT ![i] =
                 {IF h.at = "Deciding" THEN [h EXCEPT !.at = "Neighbor"] ELSE h : h \in @}]
  /\ UNCHANGED <<l3up, ifState, dr, nbrVars, timerVars, half>>

-----------------------------------------------------------------------------
\* SendHello reads DR and BDR one after the other and takes no lock.

HelloElapses(i) ==
  /\ ifState[i] # "Down" /\ half[i] = {}
  /\ Cardinality({j \in Routers : half[j] # {}}) < MaxHalf
  /\ half' = [half EXCEPT ![i] = {dr[i]}]
  /\ UNCHANGED <<l3up, ifState, electVars, nbrVars, timerVars, hello>>

\* The hello lists the RouterID of every neighbour.  On a point-to-point network
\* that is the source address (GetSourceAndID).
Lists(i, j) == nbr[i][j] # "Absent" /\ (Broadcast \/ j \in RidIsAddress)

\* HelloReceived up to the lock, in the routers T: a new neighbour keeps the
\* claims of the hello.
NewTo(T, i) == {j \in T : nbr[j][i] = "Absent"}
Creates(T, i, c) ==
  /\ nbr' = [j \in Routers |-> IF j \in NewTo(T, i) THEN [nbr[j] EXCEPT ![i] = "Heard"] ELSE nbr[j]]
  /\ claim' = [j \in Routers |-> IF j \in NewTo(T, i) THEN [claim[j] EXCEPT ![i] = c] ELSE claim[j]]

\* A calculation that is enumerating NeighborMap when an entry is added may end
\* with an exception, which the timer's thread swallows: U is where it does.
Interrupts(U) ==
  /\ decision' = [j \in Routers |-> IF j \in U THEN "Free" ELSE decision[j]]
  /\ bdr' = [j \in Routers |-> IF j \in U THEN NoAddress ELSE bdr[j]]
  /\ UNCHANGED <<dr, toStore>>

\* The hello is complete and reaches the routers T: none, when it is lost.
HelloDelivered(i, T) ==
  /\ i \notin T /\ \A j \in T : hello[j] = {}
  /\ \E d \in half[i] :
       /\ Creates(T, i, [dr |-> d, bdr |-> bdr[i]])
       /\ hello' = [j \in Routers |->
            IF j \in T
              THEN {[from |-> i, dr |-> d, bdr |-> bdr[i], listed |-> Lists(i, j), at |-> "Known"]}
              ELSE hello[j]]
  /\ \E U \in SUBSET {j \in NewTo(T, i) : decision[j] = "Reset"} : Interrupts(U)
  /\ half' = [half EXCEPT ![i] = {}]
  /\ UNCHANGED <<l3up, ifState, timerVars>>

-----------------------------------------------------------------------------
\* HelloReceived under DecisionLock.

BackupIsSeen(h) == h.bdr = h.from \/ (h.dr = h.from /\ h.bdr = NoAddress)

NeighborIsChanged(i, h) ==
  \/ (h.dr = h.from) # (dr[i] = h.from)
  \/ (h.bdr = h.from) # (bdr[i] = h.from)

\* The event HelloReceived raises, if any; DecisionLock is held from here to the
\* end of what it causes.
Raised(i, h) ==
  {e \in {"BackupSeen", "NeighborChange"} :
     IF ifState[i] = "Waiting"
       THEN e = "BackupSeen" /\ BackupIsSeen(h)
       ELSE e = "NeighborChange" /\ NeighborIsChanged(i, h)}

HelloRaises(i, evt) ==
  /\ decision[i] = "Free"
  /\ \E h \in hello[i] : h.at = "Known" /\ evt \in Raised(i, h)

MovesTo(i, stage) == hello' = [hello EXCEPT ![i] = {[h EXCEPT !.at = stage] : h \in @}]

BackupSeen(i) ==
  /\ HelloRaises(i, "BackupSeen") /\ HasRow(i, "BackupSeen")
  /\ waitTimer[i] # "None"
  /\ waitTimer' = [waitTimer EXCEPT ![i] = "Stopped"]
  /\ Reset(i)
  /\ MovesTo(i, "Deciding")
  /\ UNCHANGED <<l3up, ifState, nbrVars, waitOver, half>>

NeighborChange(i) ==
  /\ HelloRaises(i, "NeighborChange") /\ HasRow(i, "NeighborChange")
  /\ Reset(i)
  /\ MovesTo(i, "Deciding")
  /\ UNCHANGED <<l3up, ifState, nbrVars, timerVars, half>>

\* The event has no row, or BackupSeen stops a wait timer that does not exist yet:
\* the neighbour never sees the hello.
HelloThrows(i) ==
  /\ \E evt \in {"BackupSeen", "NeighborChange"} :
       /\ HelloRaises(i, evt)
       /\ ~HasRow(i, evt) \/ (evt = "BackupSeen" /\ waitTimer[i] = "None")
  /\ hello' = [hello EXCEPT ![i] = {}]
  /\ UNCHANGED <<l3up, ifState, electVars, nbrVars, timerVars, half>>

NothingToDecide(i) ==
  /\ decision[i] = "Free"
  /\ \E h \in hello[i] : h.at = "Known" /\ Raised(i, h) = {}
  /\ MovesTo(i, "Neighbor")
  /\ UNCHANGED <<l3up, ifState, electVars, nbrVars, timerVars, half>>

-----------------------------------------------------------------------------
\* What the neighbour makes of it, reading the interface without the lock.

ShouldBeAdjacent(i, j, c) ==
  LET named == IF c.dr = NoAddress THEN claim[i][j].dr ELSE c.dr
      second == IF c.bdr = NoAddress THEN claim[i][j].bdr ELSE c.bdr
  IN  ~Broadcast \/ dr[i] = i \/ named = j \/ second = j

TwoWayReceived(i, j, c) ==
  nbr' = [nbr EXCEPT ![i][j] = IF ShouldBeAdjacent(i, j, c) THEN "ExStart" ELSE "TwoWay"]

\* OnHelloReceive: TwoWayReceived acts once, and OneWayReceived takes nothing back.
NeighborHears(i) ==
  /\ \E h \in hello[i] :
       /\ h.at = "Neighbor"
       /\ IF h.listed /\ ~Bidirectional(i, h.from)
            THEN TwoWayReceived(i, h.from, [dr |-> h.dr, bdr |-> h.bdr])
            ELSE UNCHANGED nbr
  /\ hello' = [hello EXCEPT ![i] = {}]
  /\ UNCHANGED <<l3up, ifState, electVars, claim, timerVars, half>>

\* DBDReceived: a neighbour that has started counts as heard both ways.
DBDReceived(i, j) ==
  /\ hello[i] = {}
  /\ nbr[j][i] = "ExStart" /\ nbr[i][j] = "Heard"
  /\ TwoWayReceived(i, j, claim[i][j])
  /\ UNCHANGED <<l3up, ifState, electVars, claim, timerVars, half, hello>>

-----------------------------------------------------------------------------
Decides(i) == WaitDecides(i) \/ Calculate(i) \/ StoreBDR(i)

HandlesHello(i) ==
  BackupSeen(i) \/ NeighborChange(i) \/ HelloThrows(i) \/ NothingToDecide(i) \/ NeighborHears(i)

IStep(i) ==
  \/ InterfaceUp(i) \/ WaitTimerStarts(i) \/ LinkLost(i) \/ LinkBack(i)
  \/ WaitElapses(i) \/ Decides(i) \/ HandlesHello(i)
  \/ HelloElapses(i)
  \/ \E T \in SUBSET Routers : HelloDelivered(i, T)
  \/ \E j \in Routers \ {i} : DBDReceived(i, j)

INext == \E i \in Routers : IStep(i)

ISpec == IInit /\ [][INext]_ivars

\* The timers keep firing, and a thread that wants the lock gets it in the end.
WaitFairness ==
  \A i \in Eligible :
    WF_ivars(WaitElapses(i)) /\ SF_ivars(WaitDecides(i)) /\ WF_ivars(Decides(i))

IWaitSpec == ISpec /\ WaitFairness

\* A started router keeps sending hellos, handles those it gets, and the segment
\* does not lose every hello for ever; nor every DBD, which are sent again.
HelloFairness ==
  \A i \in Routers :
    /\ WF_ivars(InterfaceUp(i)) /\ WF_ivars(HandlesHello(i)) /\ WF_ivars(HelloElapses(i))
    /\ SF_ivars(\E T \in SUBSET Routers : T # {} /\ HelloDelivered(i, T))
    /\ SF_ivars(\E j \in Routers \ {i} : DBDReceived(i, j))

IHelloSpec == ISpec /\ HelloFairness

-----------------------------------------------------------------------------
ITypeOK ==
  /\ l3up \in [Routers -> BOOLEAN]
  /\ ifState \in [Routers -> IfStates]
  /\ dr \in [Routers -> Address] /\ bdr \in [Routers -> Address]
  /\ nbr \in [Routers -> [Routers -> Progress]]
  /\ claim \in [Routers -> [Routers -> Claim]]
  /\ waitTimer \in [Routers -> {"None", "Running", "Stopped"}]
  /\ waitOver \in [Routers -> BOOLEAN]
  /\ decision \in [Routers -> {"Free", "Reset", "Stored"}]
  /\ toStore \in [Routers -> Address]
  /\ half \in [Routers -> SUBSET Address]
  /\ hello \in [Routers -> SUBSET Hello]

\* An elected DR or BDR is the router itself or a bidirectional, eligible
\* neighbour: the claims a hello makes about third routers never elect one the
\* router cannot hear (Interface.cs:227-238).
ElectedIsHeard ==
  \A i \in Routers :
    \A x \in {dr[i], bdr[i]} \ {NoAddress, i} : x \in Eligible /\ Bidirectional(i, x)

\* A router that is waiting has elected nobody.
WaitingElectsNobody ==
  \A i \in Routers :
    ifState[i] \in {"Down", "Waiting", "PointToPoint"} => dr[i] = NoAddress /\ bdr[i] = NoAddress

\* The state names the role: what the interface says it is and whom it says it
\* elected agree whenever no calculation is under way and one has ended.
StateNamesRole ==
  \A i \in RidIsAddress :
    decision[i] = "Free" /\ dr[i] # NoAddress =>
      /\ ifState[i] = "DR" <=> dr[i] = i
      /\ ifState[i] = "Backup" <=> bdr[i] = i /\ dr[i] # i

\* An interface that is DR or Backup and has elected nobody has been interrupted
\* in a calculation that a late callback of its wait timer began.
OnlyLateWaitLeavesNobody ==
  \A i \in Routers :
    decision[i] = "Free" /\ dr[i] = NoAddress /\ ifState[i] \in {"DR", "Backup"}
      => waitTimer[i] = "Stopped" /\ bdr[i] = NoAddress

\* State and election agree in every interleaving of the packet thread, the
\* wait timer and the calculation, which resets DR and BDR before it decides
\* and stores them one by one, and may be interrupted in between when it runs on
\* the timer's thread (Interface.cs:202-210, 221-287).
RolesAgree == WaitingElectsNobody /\ StateNamesRole /\ OnlyLateWaitLeavesNobody

\* DR and BDR are one and the same router unless a hello tore them apart: with
\* stored claims that pair up, the calculation can only pair them up again, and
\* no interface becomes Backup.
BackupNeedsTornClaim ==
  \A i \in Routers :
    decision[i] = "Free" /\ (\A j \in Routers : claim[i][j].dr = claim[i][j].bdr)
      => dr[i] = bdr[i] /\ (i \in RidIsAddress => ifState[i] # "Backup")

\* The wait ends: once the timer runs and every other router has been heard, the
\* interface leaves Waiting, elections of the packet thread or not.
WaitEnds ==
  \A i \in Eligible :
    waitTimer[i] = "Running" /\ (\A j \in Routers \ {i} : nbr[i][j] # "Absent")
      ~> ifState[i] # "Waiting"

\* On a point-to-point network the two routers start an adjacency, provided the
\* router id of one is its address: it is addresses that hellos list there.
PointToPointStarts ==
  \A i, j \in Routers : i # j /\ ifState[i] = "PointToPoint" ~> nbr[i][j] = "ExStart"

-----------------------------------------------------------------------------
\* The abstract election: who has been heard both ways is a candidate, and an
\* election is in force from the moment the DR is stored, with the BDR that is
\* still to be stored.
InForce(i) ==
  IF dr[i] = NoAddress THEN NoClaim
  ELSE [dr |-> dr[i], bdr |-> IF decision[i] = "Stored" THEN toStore[i] ELSE bdr[i]]

Segment == INSTANCE DesignatedRouter WITH
  heard <- [i \in Routers |-> Others(i)],
  elected <- [i \in Routers |-> InForce(i)]

\* The interfaces elect as DesignatedRouter promises: in every interleaving of
\* resets, interrupted calculations, late wait timers and hellos, an election
\* that comes into force is the one that all candidates heard by then, with the
\* claims of their first hellos, call for, and it gives way only to nobody
\* (Interface.cs:221-287).
ElectsAsPromised == Segment!DSpec

=============================================================================
