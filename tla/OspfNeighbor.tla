---------------------------- MODULE OspfNeighbor ----------------------------
(***************************************************************************)
(* The OSPF neighbour object: NetInterop.Routing.Ospf/Neighbor.cs.         *)
(*                                                                         *)
(* One Neighbor object holds what a router knows of one peer, and drives   *)
(* the database exchange with it.  Its handlers run under the lock of the  *)
(* class, so each is one action here; the retransmission timer calls       *)
(* SendDBDReady without that lock, and module DbdSender looks inside that  *)
(* race.  The environment is free: any hello, any database description     *)
(* (DBD), any timer, in any order.  OspfAdjacency closes it with a peer.   *)
(***************************************************************************)
EXTENDS Naturals, FiniteSets, StateMachine

CONSTANTS
  Neighbors,      \* the Neighbor objects
  SeqMod,         \* DD sequence numbers are a uint: they wrap at this value
  Ticks,          \* clock readings a first sequence number is taken from
  Options,        \* the option bytes a DBD may carry
  OwnOptions,     \* Area.GetOptions of the router that holds the object
  HelloClaims,    \* the DR and BDR claims hellos make
  DbSize,         \* LSA headers in the area's link-state maps
  Broadcast,      \* FALSE on the network types where everybody is adjacent
  RxmtInterval,   \* seconds, from the configuration
  DeadInterval,   \* seconds, from the configuration
  OwnerEvents     \* events the owning interface raises; Interface.cs raises none

ASSUME NeighborAssumption ==
  /\ OwnOptions \in [Neighbors -> Options]
  /\ SeqMod \in Nat /\ SeqMod > 1 /\ Ticks \subseteq 0 .. SeqMod - 1
  /\ HelloClaims \subseteq [dr : {"zero", "peer", "other"}, bdr : {"zero", "peer", "other"}]
  /\ DbSize \in Nat /\ DbSize > 0
  /\ Broadcast \in BOOLEAN
  /\ RxmtInterval \in Nat /\ DeadInterval \in Nat
  /\ OwnerEvents \subseteq {"AdjOK", "KillNbr", "LLDown"}

VARIABLES
  nbrState,    \* OspfNeighborState
  ddSeq,       \* DDSequenceNumber
  ms,          \* LocalMSState
  disc,        \* DiscoveredOptions
  stored,      \* what the hello that created the object said of the peer
  summary,     \* DBSummaryList.Count
  request,     \* LSRequestList.Count
  sendList,    \* _dbdSendList: DBDs waiting, keyed by their sequence number
  pending,     \* _dbdPendingAck: the DBD sent and not acknowledged, if any
  attempted,   \* _hasAttemptedAdjacency
  inactivity,  \* the inactivity timer runs
  out,         \* the DBD handed to the network by the last step, if any
  fault        \* an exception left a handler ("event not found", or a bad cast)

exchangeVars == <<ddSeq, ms, disc, attempted>>
listVars == <<summary, request>>
sendVars == <<sendList, pending, out>>
nvars == <<nbrState, stored, inactivity, fault, exchangeVars, listVars, sendVars>>

Seqs == 0 .. SeqMod - 1
DBD == [seq : Seqs, init : BOOLEAN, more : BOOLEAN, master : BOOLEAN,
        opts : Options, count : {0, DbSize}]

\* Who a hello (or the object) names as DR or BDR, seen from its sender.
Claim == {"zero", "peer", "other"}
Claims == [dr : Claim, bdr : Claim]

\* Create keeps those claims, and the router id; here, how the peer's router id
\* compares with Module.RouterID.  Nothing updates them later.
Peers == [dr : Claim, bdr : Claim, rid : {"lower", "same", "higher"}]

StateOrd == [Down |-> 0, Attempt |-> 1, Init |-> 2, TwoWay |-> 3, ExStart |-> 4,
             Exchange |-> 5, Loading |-> 6, Full |-> 7]
States == DOMAIN StateOrd

Table ==
  UNION {
    AddActionNext("Down", "HelloReceived", "Init"),
    AddMode(StateOrd, "Init", "HelloReceived", "AtLeast", "NoAction"),
    AddAction("Init", "TwoWayReceived"),
    AddAction("ExStart", "NegotiationDone"),
    AddAction("Exchange", "ExchangeDone"),
    AddAction("TwoWay", "AdjOK"),
    AddActionMode(StateOrd, "ExStart", "AdjOK", "AtLeast"),
    AddActionMode(StateOrd, "Exchange", "SeqNumberMismatch", "AtLeast"),
    AddAnyNext(StateOrd, "KillNbr", "Down"),
    AddAnyNext(StateOrd, "LLDown", "Down"),
    AddAnyNext(StateOrd, "InactivityTimer", "Down"),
    AddActionModeNext(StateOrd, "TwoWay", "OneWayReceived", "AtLeast", "Init"),
    AddMode(StateOrd, "TwoWay", "TwoWayReceived", "AtLeast", "NoAction"),
    AddMode(StateOrd, "Init", "OneWayReceived", "Equals", "NoAction") }

-----------------------------------------------------------------------------
\* The send queue.

\* Map.Add: a queued DBD with the same key is kept or replaced; the library
\* that decides is not part of the repository.
Put(list, d) ==
  IF \E e \in list : e.seq = d.seq
    THEN {list, {e \in list : e.seq # d.seq} \cup {d}}
    ELSE {list \cup {d}}

\* Slip: the retransmission is never due.
RxmtNever == {FALSE}

\* The comparison uses TimeSpan.Seconds, which never exceeds 59.
RxmtDue ==
  CASE RxmtInterval = 0  -> {TRUE}
    [] RxmtInterval > 59 -> {FALSE}
    [] OTHER             -> BOOLEAN

Lowest(list) == {d \in list : \A e \in list : d.seq <= e.seq}

\* SendDBDReady on queue list and unacknowledged pend: an overdue DBD goes back
\* to the queue, and with nothing unacknowledged the lowest key is sent.
Ready(list, pend, due) ==
  LET overdue == due /\ pend # {}
      queues  == IF overdue THEN UNION {Put(list, d) : d \in pend} ELSE {list}
      waiting == IF overdue THEN {} ELSE pend
  IN  UNION {IF waiting = {} /\ q # {}
               THEN {[list |-> q \ {d}, pend |-> {d}, out |-> {d}] : d \in Lowest(q)}
               ELSE {[list |-> q, pend |-> waiting, out |-> {}]} : q \in queues}

SendDBDReady(n, list, pend) ==
  \E due \in RxmtDue : \E r \in Ready(list, pend, due) :
    /\ sendList' = [sendList EXCEPT ![n] = r.list]
    /\ pending' = [pending EXCEPT ![n] = r.pend]
    /\ out' = [out EXCEPT ![n] = r.out]

PrepareSendDBD(n, list, pend, d) ==
  \E q \in Put(list, d) : SendDBDReady(n, q, pend)

\* GetDBDOptions and the header PrepareSendDBD builds.
InitialDBD(n, seq) ==
  [seq |-> seq, init |-> TRUE, more |-> TRUE, master |-> TRUE, opts |-> OwnOptions[n], count |-> 0]
SlaveDBD(n, seq) ==
  [seq |-> seq, init |-> FALSE, more |-> FALSE, master |-> FALSE, opts |-> OwnOptions[n], count |-> DbSize]

Succ(seq) == (seq + 1) % SeqMod

\* What is left of a DBD after OspfDbdHandler.Parse: the header is boxed before
\* its LSA count is set and the LSAs are not attached to it.
Parse(d) == [d EXCEPT !.count = 0]

-----------------------------------------------------------------------------
NInit ==
  /\ nbrState = [n \in Neighbors |-> "Down"]
  /\ ddSeq = [n \in Neighbors |-> 0]
  /\ ms = [n \in Neighbors |-> "None"]
  /\ disc \in [Neighbors -> Options]
  /\ stored \in [Neighbors -> {p \in Peers : [dr |-> p.dr, bdr |-> p.bdr] \in HelloClaims}]
  /\ summary = [n \in Neighbors |-> 0]
  /\ request = [n \in Neighbors |-> 0]
  /\ sendList = [n \in Neighbors |-> {}]
  /\ pending = [n \in Neighbors |-> {}]
  /\ attempted = [n \in Neighbors |-> FALSE]
  /\ inactivity = [n \in Neighbors |-> FALSE]
  /\ out = [n \in Neighbors |-> {}]
  /\ fault = [n \in Neighbors |-> FALSE]

SetState(n, s) == nbrState' = [nbrState EXCEPT ![n] = s]
Quiet(n) == /\ out' = [out EXCEPT ![n] = {}]
            /\ UNCHANGED <<sendList, pending>>
Throws(n, b) == fault' = [fault EXCEPT ![n] = @ \/ b]

\* Slip: one list is forgotten.
ClearRequestsOnly(n) == /\ request' = [request EXCEPT ![n] = 0]
                        /\ UNCHANGED summary

ClearCounts(n) == /\ summary' = [summary EXCEPT ![n] = 0]
                  /\ request' = [request EXCEPT ![n] = 0]
\* Slip: the DBD in flight is dropped with the queue.
InitAllData(n) == /\ ClearCounts(n)
                  /\ sendList' = [sendList EXCEPT ![n] = {}]
                  /\ pending' = [pending EXCEPT ![n] = {}]
                  /\ out' = [out EXCEPT ![n] = {}]

\* InitListData replaces the lists and the queue, and not the DBD in flight.
InitListData(n) == /\ ClearCounts(n)
                   /\ sendList' = [sendList EXCEPT ![n] = {}]
                   /\ out' = [out EXCEPT ![n] = {}]
                   /\ UNCHANGED pending

\* isDR is Interface.IsDR when the event is handled; c the DR and BDR passed in.
ShouldBeAdjacent(n, c, isDR) ==
  LET dr  == IF c.dr = "zero" THEN stored[n].dr ELSE c.dr
      bdr == IF c.bdr = "zero" THEN stored[n].bdr ELSE c.bdr
  IN  ~Broadcast \/ isDR \/ dr = "peer" \/ bdr = "peer"

\* ProcessAdjacency: the first attempt starts the negotiation, a later one only
\* takes the next sequence number.
ProcessAdjacency(n) ==
  /\ SetState(n, "ExStart")
  /\ \/ /\ attempted[n]
        /\ ddSeq' = [ddSeq EXCEPT ![n] = Succ(@)]
        /\ Quiet(n)
        /\ UNCHANGED <<ms, attempted>>
     \/ /\ ~attempted[n]
        /\ \E ticks \in Ticks :
             /\ ddSeq' = [ddSeq EXCEPT ![n] = ticks]
             /\ PrepareSendDBD(n, sendList[n], {}, InitialDBD(n, ticks))
        /\ ms' = [ms EXCEPT ![n] = "Master"]
        /\ attempted' = [attempted EXCEPT ![n] = TRUE]
  /\ UNCHANGED <<disc, listVars>>

\* TwoWayReceived, with the DR and BDR c it was raised with.
TwoWayReceived(n, c, isDR) ==
  \/ /\ ShouldBeAdjacent(n, c, isDR)
     /\ ProcessAdjacency(n)
  \/ /\ ~ShouldBeAdjacent(n, c, isDR)
     /\ SetState(n, "TwoWay")
     /\ Quiet(n)
     /\ UNCHANGED <<exchangeVars, listVars>>

-----------------------------------------------------------------------------
\* OnHelloReceive.  The HelloReceived event comes first: it starts the
\* inactivity timer and moves Down to Init.  Then one of two events follows.
AfterHello(n) ==
  IF Runs(Table, nbrState[n], "HelloReceived")
    THEN NextOf(Table, nbrState[n], "HelloReceived")
    ELSE nbrState[n]

StartInactivity(n) ==
  inactivity' = [inactivity EXCEPT ![n] = @ \/ Runs(Table, nbrState[n], "HelloReceived")]

\* The hello lists our router id.
HelloTwoWay(n, c, isDR) ==
  /\ StartInactivity(n)
  /\ \/ /\ Runs(Table, AfterHello(n), "TwoWayReceived")
        /\ TwoWayReceived(n, c, isDR)
     \/ /\ ~Runs(Table, AfterHello(n), "TwoWayReceived")
        /\ SetState(n, AfterHello(n))
        /\ Quiet(n)
        /\ UNCHANGED <<exchangeVars, listVars>>
  /\ UNCHANGED <<stored, fault>>

\* The hello does not list our router id.
HelloOneWay(n) ==
  /\ StartInactivity(n)
  /\ SetState(n, AfterHello(n))
  /\ IF Runs(Table, AfterHello(n), "OneWayReceived")
       THEN InitListData(n)
       ELSE Quiet(n) /\ UNCHANGED listVars
  /\ UNCHANGED <<stored, fault, exchangeVars>>

\* The inactivity timer: the peer was silent for more than the dead interval,
\* read through TimeSpan.Seconds, which never exceeds 59.
InactivityElapsed(n) ==
  /\ inactivity[n]
  /\ DeadInterval < 59
  /\ InitListData(n)
  /\ UNCHANGED <<nbrState, stored, inactivity, fault, exchangeVars>>

\* The 100 ms timer of Init.
SendTimerElapsed(n) ==
  /\ SendDBDReady(n, sendList[n], pending[n])
  /\ UNCHANGED <<nbrState, stored, inactivity, fault, exchangeVars, listVars>>

-----------------------------------------------------------------------------
\* OnDBDReceive, one action per way out of it; d is the DBD on the wire.

\* The state is Init: the DBD counts as TwoWayReceived with the stored DR and BDR.
DBDInInit(n, isDR) ==
  /\ nbrState[n] = "Init"
  /\ TwoWayReceived(n, stored[n], isDR)
  /\ UNCHANGED <<stored, inactivity, fault>>

\* NegotiationDone: list the database and move to Exchange.
NegotiationDone(n) ==
  /\ SetState(n, "Exchange")
  /\ summary' = [summary EXCEPT ![n] = @ + DbSize]

\* LSAs of the DBD whose key the area holds are put on the request list.
AddRequests(n, d) ==
  \E k \in 0 .. d.count : request' = [request EXCEPT ![n] = @ + k]

OffersSlave(n, d) ==
  d.init /\ d.more /\ d.master /\ d.count = 0 /\ stored[n].rid = "higher"
AcceptsMaster(n, d) ==
  ~d.init /\ ~d.master /\ d.seq = ddSeq[n] /\ stored[n].rid = "lower"

\* The peer has the higher router id: follow it.  ProcessDBD answers with the
\* whole summary list, because a first DBD always announces more.
BecomeSlave(n, wire) ==
  LET d == Parse(wire) IN
  /\ nbrState[n] = "ExStart"
  /\ OffersSlave(n, d)
  /\ ms' = [ms EXCEPT ![n] = "Slave"]
  /\ ddSeq' = [ddSeq EXCEPT ![n] = d.seq]
  /\ disc' = [disc EXCEPT ![n] = d.opts]
  /\ NegotiationDone(n)
  /\ AddRequests(n, d)
  /\ PrepareSendDBD(n, sendList[n], {}, SlaveDBD(n, d.seq))
  /\ UNCHANGED <<stored, inactivity, fault, attempted>>

\* The peer has answered our first DBD: lead.  ProcessDBD takes the next
\* number and, with a summary list that is not empty, sends nothing.
BecomeMaster(n, wire) ==
  LET d == Parse(wire) IN
  /\ nbrState[n] = "ExStart"
  /\ AcceptsMaster(n, d)
  /\ ms' = [ms EXCEPT ![n] = "Master"]
  /\ disc' = [disc EXCEPT ![n] = d.opts]
  /\ ddSeq' = [ddSeq EXCEPT ![n] = Succ(@)]
  /\ NegotiationDone(n)
  /\ AddRequests(n, d)
  /\ pending' = [pending EXCEPT ![n] = {}]
  /\ out' = [out EXCEPT ![n] = {}]
  /\ UNCHANGED <<stored, inactivity, fault, attempted, sendList>>

\* Slip: the sequence number is not looked at.
UnexpectedButNumber(n, d) ==
  \/ d.master /\ ms[n] = "Master"
  \/ ~d.master /\ ms[n] = "Slave"
  \/ d.init
  \/ d.opts # disc[n]

Unexpected(n, d) ==
  \/ d.master /\ ms[n] = "Master"
  \/ ~d.master /\ ms[n] = "Slave"
  \/ d.init
  \/ d.opts # disc[n]
  \/ ~ (\/ ms[n] = "Master" /\ d.seq = ddSeq[n]
        \/ ms[n] = "Slave" /\ d.seq = Succ(ddSeq[n]))

\* SeqNumberMismatch: start again as master with the next number.
SeqNumberMismatch(n, wire) ==
  LET d == Parse(wire) IN
  /\ nbrState[n] = "Exchange"
  /\ Unexpected(n, d)
  /\ SetState(n, "ExStart")
  /\ ClearCounts(n)
  /\ ddSeq' = [ddSeq EXCEPT ![n] = Succ(@)]
  /\ ms' = [ms EXCEPT ![n] = "Master"]
  /\ PrepareSendDBD(n, {}, pending[n], InitialDBD(n, Succ(ddSeq[n])))
  /\ UNCHANGED <<stored, inactivity, fault, disc, attempted>>

\* The expected DBD.  ProcessDBD raises ExchangeDone itself when the summary
\* list of a master is empty; OnDBDReceive then raises it a second time, in Full
\* or Loading, where it is not registered.  Moving to Loading throws as well:
\* BeginLSRProcess casts the DBD handler's header to a link-state request.
ExchangeDone(n, wire) ==
  LET d     == Parse(wire)
      early == ms[n] = "Master" /\ summary[n] = 0 /\ ~d.more
  IN
  /\ nbrState[n] = "Exchange"
  /\ ~Unexpected(n, d)
  /\ AddRequests(n, d)
  /\ SetState(n, IF request'[n] = 0 THEN "Full" ELSE "Loading")
  /\ Throws(n, early \/ request'[n] # 0)
  /\ ddSeq' = [ddSeq EXCEPT ![n] = IF ms[n] = "Master" THEN Succ(@) ELSE @]
  /\ Quiet(n)
  /\ UNCHANGED <<stored, inactivity, ms, disc, attempted, summary>>

\* Down, Attempt, TwoWay, Loading and Full ignore a DBD, and so does ExStart
\* when the DBD neither offers nor accepts.
DBDIgnored(n, wire) ==
  LET d == Parse(wire) IN
  /\ \/ nbrState[n] \in {"Down", "Attempt", "TwoWay", "Loading", "Full"}
     \/ nbrState[n] = "ExStart" /\ ~OffersSlave(n, d) /\ ~AcceptsMaster(n, d)
  /\ Quiet(n)
  /\ UNCHANGED <<nbrState, stored, inactivity, fault, exchangeVars, listVars>>

OnDBDReceive(n, wire, isDR) ==
  \/ DBDInInit(n, isDR)
  \/ BecomeSlave(n, wire)
  \/ BecomeMaster(n, wire)
  \/ SeqNumberMismatch(n, wire)
  \/ ExchangeDone(n, wire)
  \/ DBDIgnored(n, wire)

-----------------------------------------------------------------------------
\* Events only an owner of the object can raise.

\* AdjOK: the election has changed whom to be adjacent with.
AdjOK(n, c, isDR) ==
  /\ "AdjOK" \in OwnerEvents
  /\ Registered(Table, nbrState[n], "AdjOK")
  /\ \/ /\ nbrState[n] = "TwoWay" /\ ShouldBeAdjacent(n, c, isDR)
        /\ ProcessAdjacency(n)
     \/ /\ nbrState[n] = "ExStart" /\ ~ShouldBeAdjacent(n, c, isDR)
        /\ SetState(n, "TwoWay")
        /\ InitListData(n)
        /\ UNCHANGED exchangeVars
     \/ /\ nbrState[n] = "TwoWay" <=> ~ShouldBeAdjacent(n, c, isDR)
        /\ Quiet(n)
        /\ UNCHANGED <<nbrState, exchangeVars, listVars>>
  /\ UNCHANGED <<stored, inactivity, fault>>

\* KillNbr and LLDown.
NeighborLost(n) ==
  /\ OwnerEvents \cap {"KillNbr", "LLDown"} # {}
  /\ inactivity' = [inactivity EXCEPT ![n] = FALSE]
  /\ InitListData(n)
  /\ UNCHANGED <<nbrState, stored, fault, exchangeVars>>

\* RaiseEvent of an event the current state has no row for.
UnknownEvent(n) ==
  /\ \E e \in OwnerEvents : ~Registered(Table, nbrState[n], e)
  /\ Throws(n, TRUE)
  /\ Quiet(n)
  /\ UNCHANGED <<nbrState, stored, inactivity, exchangeVars, listVars>>

-----------------------------------------------------------------------------
NStep(n) ==
  \/ \E c \in HelloClaims, isDR \in BOOLEAN : HelloTwoWay(n, c, isDR)
  \/ HelloOneWay(n)
  \/ InactivityElapsed(n)
  \/ SendTimerElapsed(n)
  \/ \E wire \in DBD, isDR \in BOOLEAN : OnDBDReceive(n, wire, isDR)
  \/ \E c \in HelloClaims, isDR \in BOOLEAN : AdjOK(n, c, isDR)
  \/ NeighborLost(n)
  \/ UnknownEvent(n)

NNext == \E n \in Neighbors : NStep(n)

NSpec == NInit /\ [][NNext]_nvars

-----------------------------------------------------------------------------
NTypeOK ==
  /\ nbrState \in [Neighbors -> States]
  /\ ddSeq \in [Neighbors -> Seqs]
  /\ ms \in [Neighbors -> {"None", "Master", "Slave"}]
  /\ disc \in [Neighbors -> Options]
  /\ stored \in [Neighbors -> Peers]
  /\ summary \in [Neighbors -> Nat]
  /\ request \in [Neighbors -> Nat]
  /\ sendList \in [Neighbors -> SUBSET DBD]
  /\ pending \in [Neighbors -> SUBSET DBD]
  /\ attempted \in [Neighbors -> BOOLEAN]
  /\ inactivity \in [Neighbors -> BOOLEAN]
  /\ out \in [Neighbors -> SUBSET DBD]
  /\ fault \in [Neighbors -> BOOLEAN]

Negotiating == {"ExStart", "Exchange", "Loading", "Full"}

\* No LSA header is listed twice for a peer: NegotiationDone appends to the
\* summary list (Neighbor.cs:253-266) and every way back to ExStart has to have
\* emptied it first.
SummaryListedOnce ==
  \A n \in Neighbors :
    /\ summary[n] \in {0, DbSize}
    /\ nbrState[n] \notin {"Exchange", "Loading", "Full"} => summary[n] = 0

\* A router that negotiates never falls silent: in ExStart, and in Exchange as
\* a slave, some DBD is unacknowledged and so is sent again by the timer.
\* Clearing the queue (InitListData) must not take that DBD with it.
NegotiatorKeepsSending ==
  \A n \in Neighbors :
    /\ nbrState[n] = "ExStart" => pending[n] # {}
    /\ nbrState[n] = "Exchange" /\ ms[n] = "Slave" => pending[n] # {}

\* The exchange never asks for anything: with the LSAs dropped by the parser
\* the request list stays empty, so no object reaches Loading.
NothingRequested ==
  \A n \in Neighbors : request[n] = 0 /\ nbrState[n] # "Loading"

\* A role is chosen exactly when a negotiation has begun.
RoleFollowsState ==
  \A n \in Neighbors :
    /\ nbrState[n] \in Negotiating => attempted[n] /\ ms[n] # "None"
    /\ nbrState[n] = "ExStart" => ms[n] = "Master"

\* What an object is doing, whom it is to the peer and what its lists hold never
\* contradict each other, whatever order hellos, DBDs, timers and the owner's
\* events come in (Neighbor.cs:172-328, 447-542).
ExchangeAgrees == SummaryListedOnce /\ RoleFollowsState /\ NothingRequested

\* Once it has heard the peer, an object is never again in Down, and once the peer
\* has been seen two-way never in Init; Full is for ever: RaiseEvent calls a row's
\* handler and never takes the row's next state (StateMachine.cs:118-130).  A fact
\* that OspfInterface relies on, and not what the table says: see LostGoesBack.
NoWayBack ==
  [][\A n \in Neighbors :
       /\ nbrState[n] # "Down" => nbrState'[n] # "Down"
       /\ StateOrd[nbrState[n]] > 2 => StateOrd[nbrState'[n]] > 2
       /\ nbrState[n] = "Full" => nbrState'[n] = "Full"]_nvars

\* What the rows of Neighbor.cs:151-161 register and InterfaceEventType.cs:38-40
\* says of a neighbour that is no longer heard both ways, because its hello does
\* not list us or none has come for too long: its state "has transitioned to Init
\* or lower".
LostGoesBack ==
  [][\A n \in Neighbors :
       /\ StateOrd[nbrState[n]] > 2
       /\ HelloOneWay(n) \/ InactivityElapsed(n)
       => StateOrd[nbrState'[n]] <= 2]_nvars
=============================================================================
