------------------------- MODULE OspfAdjacencyProofs -------------------------
(***************************************************************************)
(* First what holds of a neighbour object, for any number of objects, any  *)
(* sequence number width, option bytes, database size and intervals; then  *)
(* why no adjacency completes as it should, for any number of pairs of     *)
(* routers, channels of any length, any number of restarts and any even    *)
(* width of the sequence number.                                           *)
(*                                                                         *)
(* Of two routers the one with the lower id (its object says that the      *)
(* peer's is "lower") leads.  Every DBD it ever sends, and so every        *)
(* answer, has the parity of a first sequence number; its number has the   *)
(* other parity while it waits for the second answer.                      *)
(***************************************************************************)
EXTENDS OspfAdjacency, TLAPS


-----------------------------------------------------------------------------
(* The send queue. *)

\* Map.Add leaves a set of DBDs that is not empty, whichever way it decides.
LEMMA PutType ==
  ASSUME NEW list \in SUBSET DBD, NEW d \in DBD, NEW q \in Put(list, d)
  PROVE  q \in SUBSET DBD /\ q # {}
<1>1. CASE \E e \in list : e.seq = d.seq
  BY <1>1 DEF Put
<1>2. CASE ~ \E e \in list : e.seq = d.seq
  BY <1>2 DEF Put
<1>3. QED
  BY <1>1, <1>2

\* SendDBDReady keeps a DBD unacknowledged when one was, and makes one so when
\* the queue had any: it never leaves both the sender and the peer waiting.
LEMMA ReadyType ==
  ASSUME NEW list \in SUBSET DBD, NEW pend \in SUBSET DBD, NEW due \in BOOLEAN,
         NEW r \in Ready(list, pend, due)
  PROVE  /\ r.list \in SUBSET DBD
         /\ r.pend \in SUBSET DBD
         /\ r.out \in SUBSET DBD
         /\ list # {} \/ pend # {} => r.pend # {}
<1> DEFINE overdue == due /\ pend # {}
           queues  == IF overdue THEN UNION {Put(list, d) : d \in pend} ELSE {list}
           waiting == IF overdue THEN {} ELSE pend
<1>1. PICK q \in queues :
        r \in IF waiting = {} /\ q # {}
                THEN {[list |-> q \ {d}, pend |-> {d}, out |-> {d}] : d \in Lowest(q)}
                ELSE {[list |-> q, pend |-> waiting, out |-> {}]}
  BY DEF Ready
<1>2. q \in SUBSET DBD /\ (list # {} \/ overdue => q # {})
  <2>1. CASE overdue
    <3>1. PICK d \in pend : q \in Put(list, d)
      BY <2>1
    <3>2. QED
      BY <3>1, PutType
  <2>2. CASE ~overdue
    BY <2>2
  <2>3. QED
    BY <2>1, <2>2
<1>3. CASE waiting = {} /\ q # {}
  <2>1. PICK d \in Lowest(q) : r = [list |-> q \ {d}, pend |-> {d}, out |-> {d}]
    BY <1>1, <1>3
  <2>2. d \in DBD
    BY <1>2 DEF Lowest
  <2>3. QED
    BY <1>2, <2>1, <2>2
<1>4. CASE ~(waiting = {} /\ q # {})
  <2>1. r = [list |-> q, pend |-> waiting, out |-> {}]
    BY <1>1, <1>4
  <2>2. waiting \in SUBSET DBD
    OBVIOUS
  <2>3. list # {} \/ pend # {} => waiting # {}
    BY <1>2, <1>4
  <2>4. QED
    BY <1>2, <2>1, <2>2, <2>3
<1>5. QED
  BY <1>3, <1>4

\* The same, for the actions that call it.
LEMMA SendStep ==
  ASSUME NTypeOK, NEW n \in Neighbors,
         NEW list \in SUBSET DBD, NEW pend \in SUBSET DBD, SendDBDReady(n, list, pend)
  PROVE  /\ sendList' \in [Neighbors -> SUBSET DBD]
         /\ pending' \in [Neighbors -> SUBSET DBD]
         /\ out' \in [Neighbors -> SUBSET DBD]
         /\ list # {} \/ pend # {} => pending'[n] # {}
         /\ \A k \in Neighbors \ {n} : pending'[k] = pending[k]
<1>1. RxmtDue \subseteq BOOLEAN
  BY NeighborAssumption DEF RxmtDue
<1>2. PICK due \in RxmtDue : \E r \in Ready(list, pend, due) :
        /\ sendList' = [sendList EXCEPT ![n] = r.list]
        /\ pending' = [pending EXCEPT ![n] = r.pend]
        /\ out' = [out EXCEPT ![n] = r.out]
  BY DEF SendDBDReady
<1>3. PICK r \in Ready(list, pend, due) :
        /\ sendList' = [sendList EXCEPT ![n] = r.list]
        /\ pending' = [pending EXCEPT ![n] = r.pend]
        /\ out' = [out EXCEPT ![n] = r.out]
  BY <1>2
<1>4. /\ r.list \in SUBSET DBD /\ r.pend \in SUBSET DBD /\ r.out \in SUBSET DBD
      /\ list # {} \/ pend # {} => r.pend # {}
  BY <1>1, <1>3, ReadyType
<1>5. QED
  BY <1>3, <1>4 DEF NTypeOK

LEMMA PrepareStep ==
  ASSUME NTypeOK, NEW n \in Neighbors,
         NEW list \in SUBSET DBD, NEW pend \in SUBSET DBD, NEW d \in DBD,
         PrepareSendDBD(n, list, pend, d)
  PROVE  /\ sendList' \in [Neighbors -> SUBSET DBD]
         /\ pending' \in [Neighbors -> SUBSET DBD]
         /\ out' \in [Neighbors -> SUBSET DBD]
         /\ pending'[n] # {}
         /\ \A k \in Neighbors \ {n} : pending'[k] = pending[k]
<1>1. PICK q \in Put(list, d) : SendDBDReady(n, q, pend)
  BY DEF PrepareSendDBD
<1>2. q \in SUBSET DBD /\ q # {}
  BY <1>1, PutType
<1>3. QED
  BY <1>1, <1>2, SendStep

\* Sequence numbers stay in range, and the DBDs we build are DBDs.
LEMMA SuccType == \A q \in Seqs : Succ(q) \in Seqs
BY NeighborAssumption DEF Succ, Seqs

LEMMA OwnDBD ==
  ASSUME NEW n \in Neighbors, NEW q \in Seqs
  PROVE  InitialDBD(n, q) \in DBD /\ SlaveDBD(n, q) \in DBD
BY NeighborAssumption DEF InitialDBD, SlaveDBD, DBD

-----------------------------------------------------------------------------
(* The event table. *)

\* HelloReceived moves Down to Init and changes no other state (Neighbor.Init
\* registers it with a next state for Down only).
LEMMA OrdValues ==
  /\ States = {"Down", "Attempt", "Init", "TwoWay", "ExStart", "Exchange", "Loading", "Full"}
  /\ StateOrd["Down"] = 0 /\ StateOrd["Attempt"] = 1 /\ StateOrd["Init"] = 2
  /\ StateOrd["TwoWay"] = 3 /\ StateOrd["ExStart"] = 4 /\ StateOrd["Exchange"] = 5
  /\ StateOrd["Loading"] = 6 /\ StateOrd["Full"] = 7
BY DEF States, StateOrd

LEMMA HelloTable ==
  ASSUME NEW n \in Neighbors, nbrState[n] \in States
  PROVE  AfterHello(n) = IF nbrState[n] = "Down" THEN "Init" ELSE nbrState[n]
<1> DEFINE row == [state |-> "Down", event |-> "HelloReceived",
                   mode |-> "Defined", next |-> "Init"]
<1>1. row \in Table
  BY DEF Table, AddActionNext, Rows
<1>2. \A r \in Table : r.event = "HelloReceived" /\ r.mode # "NoAction" => r = row
  BY DEF Table, AddActionNext, AddAction, AddActionMode, AddActionModeNext, AddMode,
         AddAnyNext, Rows
<1>3. "Down" \notin Covered(StateOrd, "Init", "AtLeast")
  BY OrdValues DEF Covered
<1>4. \A r \in Table : r.event = "HelloReceived" /\ r.state = "Down" => r = row
  BY <1>2, <1>3
     DEF Table, AddActionNext, AddAction, AddActionMode, AddActionModeNext, AddMode,
         AddAnyNext, Rows
<1>5. row.state = "Down" /\ row.event = "HelloReceived" /\ row.mode = "Defined" /\ row.next = "Init"
  OBVIOUS
<1> HIDE DEF row
<1>6. CASE nbrState[n] = "Down"
  <2>1. (CHOOSE r \in Table : r.state = "Down" /\ r.event = "HelloReceived") = row
    BY <1>1, <1>4, <1>5
  <2>2. Runs(Table, "Down", "HelloReceived")
    BY <1>1, <1>5 DEF Runs
  <2>3. NextOf(Table, "Down", "HelloReceived") = "Init"
    BY <1>1, <1>5, <2>1 DEF NextOf
  <2>4. QED
    BY <1>6, <2>2, <2>3 DEF AfterHello
<1>7. CASE nbrState[n] # "Down"
  <2>1. ~Runs(Table, nbrState[n], "HelloReceived")
    BY <1>2, <1>5, <1>7 DEF Runs
  <2>2. QED
    BY <1>7, <2>1 DEF AfterHello
<1>8. QED
  BY <1>6, <1>7

-----------------------------------------------------------------------------
(* The inductive invariant.  NegotiatorKeepsSending alone is not inductive:  *)
(* an object that AdjOK took back to TwoWay re-enters ExStart without        *)
(* sending anything, so its old DBD must still be unacknowledged there.      *)

ObjectInv(n) ==
  /\ summary[n] \in {0, DbSize}
  /\ nbrState[n] \notin {"Exchange", "Loading", "Full"} => summary[n] = 0
  /\ request[n] = 0 /\ nbrState[n] # "Loading"
  /\ nbrState[n] \in Negotiating => attempted[n] /\ ms[n] # "None"
  /\ attempted[n] /\ nbrState[n] \notin {"Exchange", "Full"} => ms[n] = "Master" /\ pending[n] # {}
  /\ nbrState[n] = "Exchange" /\ ms[n] = "Slave" => pending[n] # {}

NInv == NTypeOK /\ \A n \in Neighbors : ObjectInv(n)

\* A step of object n leaves the others alone.
Others(n) ==
  \A k \in Neighbors \ {n} :
    /\ nbrState'[k] = nbrState[k] /\ ms'[k] = ms[k] /\ attempted'[k] = attempted[k]
    /\ pending'[k] = pending[k] /\ summary'[k] = summary[k] /\ request'[k] = request[k]

LEMMA Frame ==
  ASSUME NInv, NEW n \in Neighbors, NTypeOK', Others(n), ObjectInv(n)'
  PROVE  NInv'
<1>1. ASSUME NEW k \in Neighbors \ {n} PROVE ObjectInv(k)'
  BY DEF NInv, ObjectInv, Others
<1>2. QED
  BY <1>1 DEF NInv

LEMMA ProcessAdjacencyInv ==
  ASSUME NInv, NEW n \in Neighbors, nbrState[n] \in {"Down", "Init", "TwoWay"},
         ProcessAdjacency(n), UNCHANGED <<stored, fault>>,
         inactivity' \in [Neighbors -> BOOLEAN]
  PROVE  NInv'
<1> USE DEF exchangeVars, listVars, SetState
<1>1. nbrState' = [nbrState EXCEPT ![n] = "ExStart"] /\ UNCHANGED <<disc, summary, request>>
  BY DEF ProcessAdjacency
<1>2. CASE attempted[n] /\ ddSeq' = [ddSeq EXCEPT ![n] = Succ(@)] /\ Quiet(n)
           /\ UNCHANGED <<ms, attempted>>
  <2>1. NTypeOK' /\ Others(n)
    BY <1>1, <1>2, SuccType, OrdValues DEF NInv, NTypeOK, Quiet, Others
  <2>2. ObjectInv(n)'
    BY <1>1, <1>2 DEF NInv, NTypeOK, ObjectInv, Quiet, Negotiating
  <2>3. QED
    BY <2>1, <2>2, Frame
<1>3. CASE /\ ~attempted[n]
           /\ \E ticks \in Ticks :
                /\ ddSeq' = [ddSeq EXCEPT ![n] = ticks]
                /\ PrepareSendDBD(n, sendList[n], {}, InitialDBD(n, ticks))
           /\ ms' = [ms EXCEPT ![n] = "Master"]
           /\ attempted' = [attempted EXCEPT ![n] = TRUE]
  <2>1. PICK ticks \in Seqs : /\ ddSeq' = [ddSeq EXCEPT ![n] = ticks]
                              /\ PrepareSendDBD(n, sendList[n], {}, InitialDBD(n, ticks))
    BY <1>3, NeighborAssumption DEF Seqs
  <2>2. /\ sendList' \in [Neighbors -> SUBSET DBD] /\ pending' \in [Neighbors -> SUBSET DBD]
        /\ out' \in [Neighbors -> SUBSET DBD] /\ pending'[n] # {}
        /\ \A k \in Neighbors \ {n} : pending'[k] = pending[k]
    BY <2>1, PrepareStep, OwnDBD DEF NInv, NTypeOK
  <2>3. NTypeOK' /\ Others(n)
    BY <1>1, <1>3, <2>1, <2>2, OrdValues DEF NInv, NTypeOK, Others
  <2>4. ObjectInv(n)'
    BY <1>1, <1>3, <2>2 DEF NInv, NTypeOK, ObjectInv, Negotiating
  <2>5. QED
    BY <2>3, <2>4, Frame
<1>4. QED
  BY <1>2, <1>3 DEF ProcessAdjacency

LEMMA TwoWayReceivedInv ==
  ASSUME NInv, NEW n \in Neighbors, nbrState[n] \in {"Down", "Init"},
         NEW c, NEW isDR, TwoWayReceived(n, c, isDR), UNCHANGED <<stored, fault>>,
         inactivity' \in [Neighbors -> BOOLEAN]
  PROVE  NInv'
<1>1. CASE ProcessAdjacency(n)
  BY <1>1, ProcessAdjacencyInv
<1>2. CASE SetState(n, "TwoWay") /\ Quiet(n) /\ UNCHANGED <<exchangeVars, listVars>>
  <2>1. NTypeOK' /\ Others(n)
    BY <1>2, OrdValues DEF NInv, NTypeOK, Others, SetState, Quiet, exchangeVars, listVars
  <2>2. ObjectInv(n)'
    BY <1>2 DEF NInv, NTypeOK, ObjectInv, SetState, Quiet, exchangeVars, listVars, Negotiating
  <2>3. QED
    BY <2>1, <2>2, Frame
<1>3. QED
  BY <1>1, <1>2 DEF TwoWayReceived

LEMMA TwoWayTable ==
  ASSUME NEW s \in States, Runs(Table, s, "TwoWayReceived")
  PROVE  s = "Init"
BY DEF Runs, Table, AddActionNext, AddAction, AddActionMode, AddActionModeNext, AddMode,
       AddAnyNext, Rows

LEMMA OneWayTable ==
  ASSUME NEW s \in States, Runs(Table, s, "OneWayReceived")
  PROVE  s \in {"TwoWay", "ExStart", "Exchange", "Loading", "Full"}
<1>1. s \in Covered(StateOrd, "TwoWay", "AtLeast")
  BY DEF Runs, Table, AddActionNext, AddAction, AddActionMode, AddActionModeNext, AddMode,
         AddAnyNext, Rows
<1>2. QED
  BY <1>1, OrdValues DEF Covered, States

\* Clearing the lists never clears the DBD in flight, whatever the state.
LEMMA ClearInv ==
  ASSUME NInv, NEW n \in Neighbors, InitListData(n),
         UNCHANGED <<nbrState, stored, fault, exchangeVars>>,
         inactivity' \in [Neighbors -> BOOLEAN]
  PROVE  NInv'
<1> USE DEF InitListData, ClearCounts, exchangeVars
<1>1. NTypeOK' /\ Others(n)
  BY DEF NInv, NTypeOK, Others
<1>2. ObjectInv(n)'
  BY DEF NInv, NTypeOK, ObjectInv
<1>3. QED
  BY <1>1, <1>2, Frame

-----------------------------------------------------------------------------
(* One lemma per kind of step. *)

LEMMA HelloInv ==
  ASSUME NInv, NEW n \in Neighbors,
         \/ HelloOneWay(n)
         \/ \E c \in HelloClaims, isDR \in BOOLEAN : HelloTwoWay(n, c, isDR)
  PROVE  NInv'
<1> DEFINE s == AfterHello(n)
<1>1. /\ s \in States
      /\ s = IF nbrState[n] = "Down" THEN "Init" ELSE nbrState[n]
  BY HelloTable, OrdValues DEF NInv, NTypeOK
<1>2. StartInactivity(n) => inactivity' \in [Neighbors -> BOOLEAN]
  BY DEF NInv, NTypeOK, StartInactivity, Runs
<1> HIDE DEF s
<1>3. ASSUME SetState(n, s), Quiet(n), StartInactivity(n),
             UNCHANGED <<stored, fault, exchangeVars, listVars>>
      PROVE  NInv'
  <2>1. NTypeOK' /\ Others(n)
    BY <1>1, <1>2, <1>3 DEF NInv, NTypeOK, Others, SetState, Quiet, exchangeVars, listVars
  <2>2. ObjectInv(n)'
    BY <1>1, <1>3 DEF NInv, NTypeOK, ObjectInv, SetState, Quiet, exchangeVars, listVars, Negotiating
  <2>3. QED
    BY <2>1, <2>2, Frame
<1>4. CASE HelloOneWay(n)
  <2>1. CASE Runs(Table, s, "OneWayReceived")
    <3>1. s \in {"TwoWay", "ExStart", "Exchange", "Loading", "Full"}
      BY <1>1, <2>1, OneWayTable
    <3>2. s = nbrState[n] /\ nbrState' = nbrState
      BY <1>1, <1>4, <3>1 DEF HelloOneWay, SetState, NInv, NTypeOK, s
    <3>3. QED
      BY <1>2, <1>4, <2>1, <3>2, ClearInv DEF HelloOneWay, s
  <2>2. CASE ~Runs(Table, s, "OneWayReceived")
    BY <1>3, <1>4, <2>2 DEF HelloOneWay, s
  <2>3. QED
    BY <2>1, <2>2
<1>5. ASSUME NEW c \in HelloClaims, NEW isDR \in BOOLEAN, HelloTwoWay(n, c, isDR) PROVE NInv'
  <2>1. CASE Runs(Table, s, "TwoWayReceived") /\ TwoWayReceived(n, c, isDR)
    <3>1. nbrState[n] \in {"Down", "Init"}
      BY <1>1, <2>1, TwoWayTable
    <3>2. QED
      BY <1>2, <1>5, <2>1, <3>1, TwoWayReceivedInv DEF HelloTwoWay
  <2>2. CASE SetState(n, s) /\ Quiet(n) /\ UNCHANGED <<exchangeVars, listVars>>
    BY <1>3, <1>5, <2>2 DEF HelloTwoWay
  <2>3. QED
    BY <1>5, <2>1, <2>2 DEF HelloTwoWay, s
<1>6. QED
  BY <1>4, <1>5

LEMMA TimerInv ==
  ASSUME NInv, NEW n \in Neighbors, InactivityElapsed(n) \/ SendTimerElapsed(n)
  PROVE  NInv'
<1>1. CASE InactivityElapsed(n)
  <2>1. inactivity' \in [Neighbors -> BOOLEAN]
    BY <1>1 DEF InactivityElapsed, NInv, NTypeOK
  <2>2. QED
    BY <1>1, <2>1, ClearInv DEF InactivityElapsed
<1>2. CASE SendTimerElapsed(n)
  <2>0. /\ NTypeOK /\ SendDBDReady(n, sendList[n], pending[n])
        /\ sendList[n] \in SUBSET DBD /\ pending[n] \in SUBSET DBD
    BY <1>2 DEF SendTimerElapsed, NInv, NTypeOK
  <2>1. /\ sendList' \in [Neighbors -> SUBSET DBD] /\ pending' \in [Neighbors -> SUBSET DBD]
        /\ out' \in [Neighbors -> SUBSET DBD]
        /\ pending[n] # {} => pending'[n] # {}
        /\ \A k \in Neighbors \ {n} : pending'[k] = pending[k]
    BY <2>0, SendStep
  <2>2. NTypeOK' /\ Others(n)
    BY <1>2, <2>1 DEF SendTimerElapsed, NInv, NTypeOK, Others, exchangeVars, listVars
  <2>3. ObjectInv(n)'
    BY <1>2, <2>1 DEF SendTimerElapsed, NInv, ObjectInv, exchangeVars, listVars
  <2>4. QED
    BY <2>2, <2>3, Frame
<1>3. QED
  BY <1>1, <1>2

LEMMA ParseType ==
  ASSUME NEW wire \in DBD
  PROVE  Parse(wire) \in DBD /\ Parse(wire).count = 0
BY DEF Parse, DBD

LEMMA AddRequestsNone ==
  ASSUME NTypeOK, NEW n \in Neighbors, NEW wire \in DBD, AddRequests(n, Parse(wire))
  PROVE  request' = request
<1>1. 0 .. Parse(wire).count = {0}
  BY ParseType
<1>2. request' = [request EXCEPT ![n] = @ + 0]
  BY <1>1 DEF AddRequests
<1>3. QED
  BY <1>2 DEF NTypeOK

LEMMA NegotiateInv ==
  ASSUME NInv, NEW n \in Neighbors, NEW wire \in DBD,
         BecomeSlave(n, wire) \/ BecomeMaster(n, wire)
  PROVE  NInv'
<1>1. Parse(wire) \in DBD /\ Parse(wire).count = 0
  BY ParseType
<1>2. Parse(wire).seq \in Seqs /\ Parse(wire).opts \in Options
  BY <1>1 DEF DBD
<1>3. request' = request
  BY AddRequestsNone DEF BecomeSlave, BecomeMaster, NInv
<1>4. /\ nbrState[n] = "ExStart" /\ summary[n] = 0
      /\ nbrState' = [nbrState EXCEPT ![n] = "Exchange"]
      /\ summary' = [summary EXCEPT ![n] = DbSize]
  BY NeighborAssumption
     DEF BecomeSlave, BecomeMaster, NegotiationDone, SetState, NInv, ObjectInv, NTypeOK
<1>5. CASE BecomeSlave(n, wire)
  <2>0. /\ PrepareSendDBD(n, sendList[n], {}, SlaveDBD(n, Parse(wire).seq))
        /\ NTypeOK /\ sendList[n] \in SUBSET DBD /\ SlaveDBD(n, Parse(wire).seq) \in DBD
    BY <1>2, <1>5, OwnDBD DEF BecomeSlave, NInv, NTypeOK
  <2>1. /\ sendList' \in [Neighbors -> SUBSET DBD] /\ pending' \in [Neighbors -> SUBSET DBD]
        /\ out' \in [Neighbors -> SUBSET DBD] /\ pending'[n] # {}
        /\ \A k \in Neighbors \ {n} : pending'[k] = pending[k]
    BY <2>0, PrepareStep
  <2>2. NTypeOK'
    BY <1>2, <1>3, <1>4, <1>5, <2>1, OrdValues, NeighborAssumption DEF BecomeSlave, NInv, NTypeOK
  <2>3. Others(n)
    BY <1>3, <1>4, <1>5, <2>1 DEF BecomeSlave, NInv, NTypeOK, Others
  <2>4. ObjectInv(n)'
    BY <1>3, <1>4, <1>5, <2>1 DEF BecomeSlave, NInv, NTypeOK, ObjectInv, Negotiating
  <2>5. QED
    BY <2>2, <2>3, <2>4, Frame
<1>6. CASE BecomeMaster(n, wire)
  <2>1. NTypeOK'
    BY <1>2, <1>3, <1>4, <1>6, OrdValues, SuccType, NeighborAssumption
       DEF BecomeMaster, NInv, NTypeOK
  <2>2. Others(n)
    BY <1>3, <1>4, <1>6 DEF BecomeMaster, NInv, NTypeOK, Others
  <2>3. ObjectInv(n)'
    BY <1>3, <1>4, <1>6 DEF BecomeMaster, NInv, NTypeOK, ObjectInv, Negotiating
  <2>4. QED
    BY <2>1, <2>2, <2>3, Frame
<1>7. QED
  BY <1>5, <1>6

LEMMA ExchangeInv ==
  ASSUME NInv, NEW n \in Neighbors, NEW wire \in DBD,
         SeqNumberMismatch(n, wire) \/ ExchangeDone(n, wire)
  PROVE  NInv'
<1>1. CASE SeqNumberMismatch(n, wire)
  <2>1. /\ sendList' \in [Neighbors -> SUBSET DBD] /\ pending' \in [Neighbors -> SUBSET DBD]
        /\ out' \in [Neighbors -> SUBSET DBD] /\ pending'[n] # {}
        /\ \A k \in Neighbors \ {n} : pending'[k] = pending[k]
    BY <1>1, PrepareStep, OwnDBD, SuccType DEF SeqNumberMismatch, NInv, NTypeOK
  <2>2. NTypeOK'
    BY <1>1, <2>1, OrdValues, SuccType
       DEF SeqNumberMismatch, SetState, ClearCounts, NInv, NTypeOK
  <2>3. Others(n)
    BY <1>1, <2>1 DEF SeqNumberMismatch, SetState, ClearCounts, NInv, NTypeOK, Others
  <2>4. ObjectInv(n)'
    BY <1>1, <2>1
       DEF SeqNumberMismatch, SetState, ClearCounts, NInv, NTypeOK, ObjectInv, Negotiating
  <2>5. QED
    BY <2>2, <2>3, <2>4, Frame
<1>2. CASE ExchangeDone(n, wire)
  <2>1. request' = request /\ request[n] = 0
    BY <1>2, AddRequestsNone DEF ExchangeDone, NInv, ObjectInv
  <2>2. nbrState' = [nbrState EXCEPT ![n] = "Full"] /\ UNCHANGED summary
    BY <1>2, <2>1 DEF ExchangeDone, SetState
  <2>3. /\ ddSeq' \in [Neighbors -> Seqs]
        /\ fault' \in [Neighbors -> BOOLEAN]
    BY <1>2, SuccType DEF ExchangeDone, Throws, NInv, NTypeOK
  <2>4. NTypeOK' /\ Others(n)
    BY <1>2, <2>1, <2>2, <2>3, OrdValues DEF ExchangeDone, Quiet, NInv, NTypeOK, Others
  <2>5. ObjectInv(n)'
    BY <1>2, <2>1, <2>2 DEF ExchangeDone, Quiet, NInv, NTypeOK, ObjectInv, Negotiating
  <2>6. QED
    BY <2>4, <2>5, Frame
<1>3. QED
  BY <1>1, <1>2

LEMMA QuietInv ==
  ASSUME NInv, NEW n \in Neighbors, Quiet(n),
         UNCHANGED <<nbrState, stored, inactivity, exchangeVars, listVars>>,
         fault' \in [Neighbors -> BOOLEAN]
  PROVE  NInv'
<1>1. NTypeOK' /\ Others(n)
  BY DEF Quiet, NInv, NTypeOK, Others, exchangeVars, listVars
<1>2. ObjectInv(n)'
  BY DEF Quiet, NInv, ObjectInv, exchangeVars, listVars
<1>3. QED
  BY <1>1, <1>2, Frame

LEMMA OwnerInv ==
  ASSUME NInv, NEW n \in Neighbors,
         \/ \E c \in HelloClaims, isDR \in BOOLEAN : AdjOK(n, c, isDR)
         \/ NeighborLost(n)
         \/ UnknownEvent(n)
  PROVE  NInv'
<1>1. ASSUME NEW c \in HelloClaims, NEW isDR \in BOOLEAN, AdjOK(n, c, isDR) PROVE NInv'
  <2>1. UNCHANGED <<stored, inactivity, fault>>
    BY <1>1 DEF AdjOK
  <2>2. CASE nbrState[n] = "TwoWay" /\ ProcessAdjacency(n)
    BY <2>1, <2>2, ProcessAdjacencyInv DEF NInv, NTypeOK
  <2>3. CASE nbrState[n] = "ExStart" /\ SetState(n, "TwoWay") /\ InitListData(n)
             /\ UNCHANGED exchangeVars
    <3>1. NTypeOK' /\ Others(n)
      BY <2>1, <2>3, OrdValues
         DEF SetState, InitListData, ClearCounts, exchangeVars, NInv, NTypeOK, Others
    <3>2. ObjectInv(n)'
      BY <2>1, <2>3
         DEF SetState, InitListData, ClearCounts, exchangeVars, NInv, NTypeOK, ObjectInv, Negotiating
    <3>3. QED
      BY <3>1, <3>2, Frame
  <2>4. CASE Quiet(n) /\ UNCHANGED <<nbrState, exchangeVars, listVars>>
    BY <2>1, <2>4, QuietInv DEF NInv, NTypeOK
  <2>5. QED
    BY <1>1, <2>2, <2>3, <2>4 DEF AdjOK
<1>2. CASE NeighborLost(n)
  <2>1. inactivity' \in [Neighbors -> BOOLEAN]
    BY <1>2 DEF NeighborLost, NInv, NTypeOK
  <2>2. QED
    BY <1>2, <2>1, ClearInv DEF NeighborLost
<1>3. CASE UnknownEvent(n)
  <2>1. fault' \in [Neighbors -> BOOLEAN]
    BY <1>3 DEF UnknownEvent, Throws, NInv, NTypeOK
  <2>2. QED
    BY <1>3, <2>1, QuietInv DEF UnknownEvent
<1>4. QED
  BY <1>1, <1>2, <1>3

LEMMA DBDInv ==
  ASSUME NInv, NEW n \in Neighbors, NEW wire \in DBD, NEW isDR \in BOOLEAN,
         OnDBDReceive(n, wire, isDR)
  PROVE  NInv'
<1>1. CASE DBDInInit(n, isDR)
  BY <1>1, TwoWayReceivedInv DEF DBDInInit, NInv, NTypeOK
<1>2. CASE DBDIgnored(n, wire)
  BY <1>2, QuietInv DEF DBDIgnored, NInv, NTypeOK
<1>3. QED
  BY <1>1, <1>2, NegotiateInv, ExchangeInv DEF OnDBDReceive

-----------------------------------------------------------------------------
(* The states only go forward. *)

\* From s an object may go on to t.
Forward(s, t) ==
  /\ s # "Down" => t # "Down"
  /\ StateOrd[s] > 2 => StateOrd[t] > 2
  /\ s = "Full" => t = "Full"

\* Object n goes on to state t; the others stay.
GoesTo(n, t) == t \in States /\ Forward(nbrState[n], t) /\ SetState(n, t)

LEMMA StaysForward ==
  ASSUME NInv, NEW n \in Neighbors, UNCHANGED nbrState
  PROVE  GoesTo(n, nbrState[n])
BY DEF NInv, NTypeOK, GoesTo, Forward, SetState

\* A negotiation or TwoWay is entered from a state before it, and is after both
\* Down and Init.
LEMMA TwoWayForward ==
  ASSUME NInv, NEW n \in Neighbors, nbrState[n] \in {"Down", "Init", "TwoWay"},
         SetState(n, "ExStart") \/ SetState(n, "TwoWay")
  PROVE  \E t \in States : GoesTo(n, t)
BY OrdValues DEF GoesTo, Forward

LEMMA HelloForward ==
  ASSUME NInv, NEW n \in Neighbors,
         \/ HelloOneWay(n)
         \/ \E c \in HelloClaims, isDR \in BOOLEAN : HelloTwoWay(n, c, isDR)
  PROVE  \E t \in States : GoesTo(n, t)
<1> DEFINE s == AfterHello(n)
<1>1. s = IF nbrState[n] = "Down" THEN "Init" ELSE nbrState[n]
  BY HelloTable DEF NInv, NTypeOK
<1>2. s \in States /\ Forward(nbrState[n], s)
  BY <1>1, OrdValues DEF NInv, NTypeOK, Forward
<1> HIDE DEF s
<1>3. ASSUME SetState(n, s) PROVE \E t \in States : GoesTo(n, t)
  BY <1>2, <1>3 DEF GoesTo
<1>4. CASE HelloOneWay(n)
  BY <1>3, <1>4 DEF HelloOneWay, s
<1>5. ASSUME NEW c \in HelloClaims, NEW isDR \in BOOLEAN, HelloTwoWay(n, c, isDR)
      PROVE  \E t \in States : GoesTo(n, t)
  <2>1. CASE Runs(Table, s, "TwoWayReceived") /\ TwoWayReceived(n, c, isDR)
    <3>1. nbrState[n] \in {"Down", "Init"}
      BY <1>1, <1>2, <2>1, TwoWayTable
    <3>2. QED
      BY <2>1, <3>1, TwoWayForward DEF TwoWayReceived, ProcessAdjacency
  <2>2. CASE SetState(n, s)
    BY <1>3, <2>2
  <2>3. QED
    BY <1>5, <2>1, <2>2 DEF HelloTwoWay, s
<1>6. QED
  BY <1>4, <1>5

LEMMA DBDForward ==
  ASSUME NInv, NEW n \in Neighbors, NEW wire \in DBD, NEW isDR \in BOOLEAN,
         OnDBDReceive(n, wire, isDR)
  PROVE  \E t \in States : GoesTo(n, t)
<1>1. CASE DBDInInit(n, isDR)
  BY <1>1, TwoWayForward DEF DBDInInit, TwoWayReceived, ProcessAdjacency
<1>2. CASE BecomeSlave(n, wire) \/ BecomeMaster(n, wire)
  BY <1>2, OrdValues DEF BecomeSlave, BecomeMaster, NegotiationDone, GoesTo, Forward
<1>3. CASE SeqNumberMismatch(n, wire)
  BY <1>3, OrdValues DEF SeqNumberMismatch, GoesTo, Forward
<1>4. CASE ExchangeDone(n, wire)
  BY <1>4, OrdValues DEF ExchangeDone, GoesTo, Forward
<1>5. CASE DBDIgnored(n, wire)
  BY <1>5, StaysForward DEF DBDIgnored, GoesTo
<1>6. QED
  BY <1>1, <1>2, <1>3, <1>4, <1>5 DEF OnDBDReceive

LEMMA AdjOKForward ==
  ASSUME NInv, NEW n \in Neighbors, NEW c, NEW isDR, AdjOK(n, c, isDR)
  PROVE  \E t \in States : GoesTo(n, t)
<1>1. CASE nbrState[n] = "TwoWay" /\ ProcessAdjacency(n)
  BY <1>1, TwoWayForward DEF ProcessAdjacency
<1>2. CASE nbrState[n] = "ExStart" /\ SetState(n, "TwoWay")
  BY <1>2, OrdValues DEF GoesTo, Forward
<1>3. CASE UNCHANGED nbrState
  BY <1>3, StaysForward DEF GoesTo
<1>4. QED
  BY <1>1, <1>2, <1>3 DEF AdjOK

LEMMA StepForward ==
  ASSUME NInv, NEW n \in Neighbors, NStep(n)
  PROVE  \E t \in States : GoesTo(n, t)
<1>1. CASE \/ InactivityElapsed(n) \/ SendTimerElapsed(n) \/ NeighborLost(n) \/ UnknownEvent(n)
  BY <1>1, StaysForward
     DEF InactivityElapsed, SendTimerElapsed, NeighborLost, UnknownEvent, GoesTo
<1>2. QED
  BY <1>1, HelloForward, DBDForward, AdjOKForward DEF NStep

-----------------------------------------------------------------------------
(* The theorems. *)

LEMMA InitInv == NInit => NInv
<1> SUFFICES ASSUME NInit PROVE NInv
  OBVIOUS
<1>1. stored \in [Neighbors -> Peers]
  BY DEF NInit
<1>2. QED
  BY <1>1, NeighborAssumption, OrdValues DEF NInit, NInv, NTypeOK, ObjectInv, Negotiating, Seqs

LEMMA StepInv == NInv /\ [NNext]_nvars => NInv'
<1> SUFFICES ASSUME NInv, [NNext]_nvars PROVE NInv'
  OBVIOUS
<1>1. ASSUME NEW n \in Neighbors, NStep(n) PROVE NInv'
  BY <1>1, HelloInv, TimerInv, DBDInv, OwnerInv DEF NStep
<1>2. CASE UNCHANGED nvars
  BY <1>2
     DEF nvars, exchangeVars, listVars, sendVars, NInv, NTypeOK, ObjectInv
<1>3. QED
  BY <1>1, <1>2 DEF NNext

\* Every reachable state of any number of neighbour objects satisfies the
\* inductive invariant.
THEOREM ObjectInvariant == NSpec => []NInv
BY InitInv, StepInv, PTL DEF NSpec

\* The fields of Neighbor.cs stay in their ranges.
THEOREM TypeCorrect == NSpec => []NTypeOK
<1>1. NInv => NTypeOK
  BY DEF NInv
<1>2. QED
  BY <1>1, ObjectInvariant, PTL

\* A negotiating object always holds a DBD that the timer will send again.
THEOREM KeepsSending == NSpec => []NegotiatorKeepsSending
<1>1. NInv => NegotiatorKeepsSending
  BY DEF NInv, ObjectInv, NegotiatorKeepsSending, Negotiating
<1>2. QED
  BY <1>1, ObjectInvariant, PTL

\* For any database size and sequence number width, no LSA header is listed
\* twice, none is ever asked for, and the role an object plays is that of its
\* state.
THEOREM ExchangeConsistent == NSpec => []ExchangeAgrees
<1>1. NInv => SummaryListedOnce
  BY DEF NInv, ObjectInv, SummaryListedOnce
<1>2. NInv => RoleFollowsState
  BY DEF NInv, ObjectInv, RoleFollowsState, Negotiating
<1>3. NInv => NothingRequested
  BY DEF NInv, ObjectInv, NothingRequested
<1>4. NInv => ExchangeAgrees
  BY <1>1, <1>2, <1>3 DEF ExchangeAgrees
<1>5. QED
  BY <1>4, ObjectInvariant, PTL

\* Whatever hellos, DBDs, timers and events of the owner come, in whatever
\* order: no object is in Down again once it has heard the peer, or in Init once
\* it was two-way, and none leaves Full (Neighbor.Init registers next states that
\* no handler moves to).
THEOREM NeverBack == NSpec => NoWayBack
<1> DEFINE Onward ==
      \A n \in Neighbors :
        /\ nbrState[n] # "Down" => nbrState'[n] # "Down"
        /\ StateOrd[nbrState[n]] > 2 => StateOrd[nbrState'[n]] > 2
        /\ nbrState[n] = "Full" => nbrState'[n] = "Full"
<1>1. NInv /\ [NNext]_nvars => [Onward]_nvars
  <2> SUFFICES ASSUME NInv, NEW n \in Neighbors, NStep(n) PROVE Onward
    BY DEF NNext
  <2>1. PICK t \in States : GoesTo(n, t)
    BY StepForward
  <2>2. QED
    BY <2>1 DEF GoesTo, Forward, SetState, NInv, NTypeOK
<1>2. QED
  BY <1>1, ObjectInvariant, PTL DEF NSpec, NoWayBack


-----------------------------------------------------------------------------
(* Sequence numbers. *)

LEMMA Parity == \A q \in Nat : q % 2 \in {0, 1}
OBVIOUS

LEMMA SuccParity ==
  ASSUME NEW q \in Seqs
  PROVE  Succ(q) % 2 # q % 2
<1>1. SeqMod \in Nat /\ SeqMod > 1 /\ SeqMod % 2 = 0 /\ q \in Nat /\ q < SeqMod
  BY NeighborAssumption, EvenModulus DEF Seqs
<1>2. CASE q + 1 < SeqMod
  <2>1. (q + 1) % SeqMod = q + 1
    BY <1>1, <1>2
  <2>2. QED
    BY <1>1, <2>1 DEF Succ
<1>3. CASE q + 1 = SeqMod
  <2>1. (q + 1) % SeqMod = 0
    BY <1>1, <1>3
  <2>2. QED
    BY <1>1, <1>3, <2>1 DEF Succ
<1>4. QED
  BY <1>1, <1>2, <1>3

-----------------------------------------------------------------------------
(* The send queue hands on what it was given.  *)

LEMMA PutFrom ==
  ASSUME NEW list, NEW d, NEW q \in Put(list, d)
  PROVE  q \subseteq list \cup {d}
BY DEF Put

LEMMA ReadyFrom ==
  ASSUME NEW list, NEW pend, NEW due \in BOOLEAN, NEW r \in Ready(list, pend, due)
  PROVE  r.list \cup r.pend \cup r.out \subseteq list \cup pend
<1> DEFINE overdue == due /\ pend # {}
           queues  == IF overdue THEN UNION {Put(list, d) : d \in pend} ELSE {list}
           waiting == IF overdue THEN {} ELSE pend
<1>1. PICK q \in queues :
        r \in IF waiting = {} /\ q # {}
                THEN {[list |-> q \ {d}, pend |-> {d}, out |-> {d}] : d \in Lowest(q)}
                ELSE {[list |-> q, pend |-> waiting, out |-> {}]}
  BY DEF Ready
<1>2. q \subseteq list \cup pend /\ waiting \subseteq list \cup pend
  BY PutFrom
<1>3. CASE waiting = {} /\ q # {}
  <2>1. PICK d \in Lowest(q) : r = [list |-> q \ {d}, pend |-> {d}, out |-> {d}]
    BY <1>1, <1>3
  <2>2. d \in q
    BY DEF Lowest
  <2>3. QED
    BY <1>2, <2>1, <2>2
<1>4. CASE ~(waiting = {} /\ q # {})
  <2>1. r = [list |-> q, pend |-> waiting, out |-> {}]
    BY <1>1, <1>4
  <2>2. QED
    BY <1>2, <2>1
<1>5. QED
  BY <1>3, <1>4

\* All DBDs an object has: waiting, unacknowledged and just sent.
Has(n) == sendList[n] \cup pending[n] \cup out[n]

LEMMA SendFrom ==
  ASSUME NTypeOK, NEW n \in Neighbors, NEW list, NEW pend, SendDBDReady(n, list, pend)
  PROVE  Has(n)' \subseteq list \cup pend
<1>1. RxmtDue \subseteq BOOLEAN
  BY NeighborAssumption DEF RxmtDue
<1>2. PICK due \in RxmtDue : \E r \in Ready(list, pend, due) :
        /\ sendList' = [sendList EXCEPT ![n] = r.list]
        /\ pending' = [pending EXCEPT ![n] = r.pend]
        /\ out' = [out EXCEPT ![n] = r.out]
  BY DEF SendDBDReady
<1>3. PICK r \in Ready(list, pend, due) :
        /\ sendList' = [sendList EXCEPT ![n] = r.list]
        /\ pending' = [pending EXCEPT ![n] = r.pend]
        /\ out' = [out EXCEPT ![n] = r.out]
  BY <1>2
<1>4. r.list \cup r.pend \cup r.out \subseteq list \cup pend
  BY <1>1, <1>3, ReadyFrom
<1>5. QED
  BY <1>3, <1>4 DEF Has, NTypeOK

LEMMA PrepareFrom ==
  ASSUME NTypeOK, NEW n \in Neighbors, NEW list, NEW pend, NEW d,
         PrepareSendDBD(n, list, pend, d)
  PROVE  Has(n)' \subseteq list \cup pend \cup {d}
<1>1. PICK q \in Put(list, d) : SendDBDReady(n, q, pend)
  BY DEF PrepareSendDBD
<1>2. QED
  BY <1>1, PutFrom, SendFrom

-----------------------------------------------------------------------------
(* The inductive invariant. *)

Leads(n) == stored[n].rid = "lower"
Follows(n) == stored[n].rid = "higher"

\* What the router that holds n may send.  The leader only ever offers, under a
\* number with the parity of a first one; the other one's answers repeat it.
MaySend(n, d) ==
  /\ d.init = d.master
  /\ Leads(n) => d.master /\ d.seq % 2 \in firsts[n]
  /\ Follows(n) /\ ~d.master => d.seq % 2 \in firsts[Peer[n]]

Sendable(n) == {d \in DBD : MaySend(n, d)}

\* Where an object is in the exchange, and the parity of its number there.
Progress(n) ==
  /\ attempted[n] => nbrState[n] \in {"ExStart", "Exchange", "Full"} /\ firsts[n] # {}
  /\ nbrState[n] \in {"ExStart", "Exchange", "Full"} => attempted[n]
  /\ Leads(n) =>
       /\ nbrState[n] = "ExStart" => ddSeq[n] % 2 \in firsts[n]
       /\ nbrState[n] = "Exchange" =>
            ms[n] = "Master" /\ (ddSeq[n] % 2 \in firsts[n] => firsts[n] = {0, 1})
       /\ nbrState[n] = "Full" => firsts[n] = {0, 1}
  /\ Follows(n) =>
       /\ nbrState[n] # "Full"
       /\ nbrState[n] = "Exchange" => ms[n] = "Slave"

ATypes ==
  /\ firsts \in [Neighbors -> SUBSET {0, 1}]
  /\ chan \in [Neighbors -> Seq(DBD)]
  /\ \A n \in Neighbors : {stored[n].rid, stored[Peer[n]].rid} = {"lower", "higher"}

PairInv(n) ==
  /\ Progress(n)
  /\ Has(n) \subseteq Sendable(n)
  /\ chan[n] \in Seq(Sendable(Peer[n]))

AInv == NInv /\ ATypes /\ \A n \in Neighbors : PairInv(n)

LEMMA OneLeads ==
  ASSUME ATypes, NEW n \in Neighbors
  PROVE  /\ Peer[n] \in Neighbors /\ Peer[n] # n /\ Peer[Peer[n]] = n
         /\ Leads(n) = Follows(Peer[n]) /\ Follows(n) = Leads(Peer[n])
         /\ Leads(n) = ~Follows(n)
<1>1. {stored[n].rid, stored[Peer[n]].rid} = {"lower", "higher"}
  BY DEF ATypes
<1>2. Peer[n] \in Neighbors /\ Peer[n] # n /\ Peer[Peer[n]] = n
  BY AdjacencyAssumption
<1>3. QED
  BY <1>1, <1>2 DEF Leads, Follows

-----------------------------------------------------------------------------
(* What is common to all steps: numbers are only added to the history, ids *)
(* do not change, and what could be sent can be.                           *)

Lasting ==
  /\ \A n \in Neighbors : stored'[n].rid = stored[n].rid
  /\ \A n \in Neighbors :
       firsts'[n] = IF attempted'[n] /\ ~attempted[n] THEN firsts[n] \cup {ddSeq'[n] % 2}
                    ELSE firsts[n]

LEMMA SendableLasts ==
  ASSUME ATypes, Lasting, NEW n \in Neighbors
  PROVE  Sendable(n) \subseteq Sendable(n)'
<1>1. \A k \in Neighbors : firsts[k] \subseteq firsts'[k]
  BY DEF Lasting
<1>2. \A k \in Neighbors : Leads(k)' = Leads(k) /\ Follows(k)' = Follows(k)
  BY DEF Lasting, Leads, Follows
<1>3. ASSUME NEW d \in DBD, MaySend(n, d) PROVE MaySend(n, d)'
  BY <1>1, <1>2, <1>3, OneLeads DEF MaySend
<1>4. QED
  BY <1>3 DEF Sendable

LEMMA SeqGrows ==
  ASSUME NEW S, NEW T, S \subseteq T, NEW s \in Seq(S)
  PROVE  s \in Seq(T)
OBVIOUS

LEMMA HeadTail ==
  ASSUME NEW S, NEW s \in Seq(S), s # <<>>
  PROVE  Head(s) \in S /\ Tail(s) \in Seq(S)
OBVIOUS

\* A step of one object leaves the other objects alone.
Elsewhere(n) ==
  \A k \in Neighbors \ {n} :
    /\ nbrState'[k] = nbrState[k] /\ ms'[k] = ms[k] /\ attempted'[k] = attempted[k]
    /\ ddSeq'[k] = ddSeq[k]
    /\ sendList'[k] = sendList[k] /\ pending'[k] = pending[k] /\ out'[k] = out[k]

LEMMA StepPairs ==
  ASSUME AInv, NEW n \in Neighbors, NInv', Lasting, Elsewhere(n),
         firsts' \in [Neighbors -> SUBSET {0, 1}],
         Progress(n)', Has(n)' \subseteq Sendable(n)',
         chan' \in [Neighbors -> Seq(DBD)],
         \A k \in Neighbors : chan'[k] \in Seq(Sendable(Peer[k])')
  PROVE  AInv'
<1>1. ATypes'
  BY AdjacencyAssumption DEF AInv, ATypes, Lasting
<1>2. ASSUME NEW k \in Neighbors PROVE PairInv(k)'
  <2>1. Progress(k)'
    <3>1. Leads(k)' = Leads(k) /\ Follows(k)' = Follows(k)
      BY DEF Lasting, Leads, Follows
    <3>2. CASE k # n
      <4>1. firsts'[k] = firsts[k]
        BY <3>2 DEF Lasting, Elsewhere
      <4>2. QED
        BY <3>1, <3>2, <4>1 DEF AInv, PairInv, Progress, Elsewhere
    <3>3. QED
      BY <3>2
  <2>2. Has(k)' \subseteq Sendable(k)'
    BY SendableLasts DEF AInv, PairInv, Elsewhere, Has
  <2>3. chan'[k] \in Seq(Sendable(Peer[k])')
    OBVIOUS
  <2>4. QED
    BY <2>1, <2>2, <2>3 DEF PairInv
<1>3. QED
  BY <1>1, <1>2 DEF AInv

-----------------------------------------------------------------------------
(* What a step does to the object it is about. *)

\* The object is where the invariant wants it, and the others where they were.
Moved(n) == Progress(n)' /\ Has(n)' \subseteq Sendable(n)' /\ Elsewhere(n)

LEMMA SendElsewhere ==
  ASSUME NTypeOK, NEW n \in Neighbors, NEW list, NEW pend, SendDBDReady(n, list, pend)
  PROVE  \A k \in Neighbors \ {n} :
           sendList'[k] = sendList[k] /\ pending'[k] = pending[k] /\ out'[k] = out[k]
<1>1. \E l, p, o : /\ sendList' = [sendList EXCEPT ![n] = l]
                   /\ pending' = [pending EXCEPT ![n] = p]
                   /\ out' = [out EXCEPT ![n] = o]
  BY DEF SendDBDReady
<1>2. QED
  BY <1>1 DEF NTypeOK

LEMMA PrepareElsewhere ==
  ASSUME NTypeOK, NEW n \in Neighbors, NEW list, NEW pend, NEW d,
         PrepareSendDBD(n, list, pend, d)
  PROVE  \A k \in Neighbors \ {n} :
           sendList'[k] = sendList[k] /\ pending'[k] = pending[k] /\ out'[k] = out[k]
BY SendElsewhere DEF PrepareSendDBD

\* Nothing new is prepared and nothing begins.
LEMMA StillObject ==
  ASSUME AInv, Lasting, NEW n \in Neighbors, NInv',
         ms'[n] = ms[n] /\ attempted'[n] = attempted[n] /\ ddSeq'[n] = ddSeq[n],
         \/ nbrState'[n] = nbrState[n]
         \/ ~attempted[n] /\ nbrState'[n] \in {"Init", "TwoWay"},
         Has(n)' \subseteq Has(n)
  PROVE  Progress(n)' /\ Has(n)' \subseteq Sendable(n)'
<1>1. Leads(n)' = Leads(n) /\ Follows(n)' = Follows(n) /\ firsts'[n] = firsts[n]
  BY DEF Lasting, Leads, Follows
<1>2. Progress(n)'
  BY <1>1 DEF AInv, PairInv, Progress
<1>3. QED
  BY <1>2, SendableLasts DEF AInv, PairInv

\* The first attempt, which is the only one: nothing leads back before it.
LEMMA AttemptObject ==
  ASSUME AInv, Lasting, NEW n \in Neighbors, NInv',
         nbrState[n] \in {"Down", "Init", "TwoWay"}, ProcessAdjacency(n)
  PROVE  Moved(n)
<1>1. ~attempted[n]
  BY DEF AInv, PairInv, Progress
<1>2. NTypeOK /\ NTypeOK'
  BY DEF AInv, NInv
<1>3. PICK ticks \in Ticks :
        /\ ddSeq' = [ddSeq EXCEPT ![n] = ticks]
        /\ PrepareSendDBD(n, sendList[n], {}, InitialDBD(n, ticks))
  BY <1>1 DEF ProcessAdjacency
<1>4. /\ ms' = [ms EXCEPT ![n] = "Master"] /\ attempted' = [attempted EXCEPT ![n] = TRUE]
      /\ nbrState' = [nbrState EXCEPT ![n] = "ExStart"]
  BY <1>1 DEF ProcessAdjacency, SetState
<1>5. ticks % 2 \in firsts'[n] /\ ticks \in Seqs
  <2>1. n \in DOMAIN ddSeq /\ n \in DOMAIN attempted
    BY <1>2 DEF NTypeOK
  <2>2. ddSeq'[n] = ticks /\ attempted'[n]
    BY <1>3, <1>4, <2>1
  <2>3. firsts'[n] = firsts[n] \cup {ticks % 2}
    BY <1>1, <2>2 DEF Lasting
  <2>4. ticks \in Seqs
    BY <1>3, NeighborAssumption DEF Seqs
  <2>5. QED
    BY <2>3, <2>4
<1>6. Progress(n)'
  BY <1>2, <1>3, <1>4, <1>5 DEF Progress, NTypeOK
<1>7. InitialDBD(n, ticks) \in Sendable(n)'
  <2>1. InitialDBD(n, ticks) \in DBD
    BY <1>5, OwnDBD
  <2>2. MaySend(n, InitialDBD(n, ticks))'
    BY <1>5 DEF MaySend, InitialDBD
  <2>3. QED
    BY <2>1, <2>2 DEF Sendable
<1>8. Has(n)' \subseteq Sendable(n)'
  <2>1. Has(n)' \subseteq sendList[n] \cup {InitialDBD(n, ticks)}
    BY <1>2, <1>3, PrepareFrom
  <2>2. sendList[n] \subseteq Sendable(n)'
    BY SendableLasts DEF AInv, PairInv, Has
  <2>3. QED
    BY <1>7, <2>1, <2>2
<1>9. Elsewhere(n)
  BY <1>2, <1>3, <1>4, PrepareElsewhere DEF Elsewhere, NTypeOK
<1>10. QED
  BY <1>6, <1>8, <1>9 DEF Moved

LEMMA TwoWayObject ==
  ASSUME AInv, Lasting, NEW n \in Neighbors, NInv',
         nbrState[n] \in {"Down", "Init"}, NEW c, NEW isDR, TwoWayReceived(n, c, isDR)
  PROVE  Moved(n)
<1>1. CASE ProcessAdjacency(n)
  BY <1>1, AttemptObject
<1>2. CASE SetState(n, "TwoWay") /\ Quiet(n) /\ UNCHANGED exchangeVars
  <2>1. ~attempted[n] /\ NTypeOK
    BY DEF AInv, NInv, PairInv, Progress
  <2>2. Elsewhere(n) /\ nbrState'[n] = "TwoWay" /\ Has(n)' \subseteq Has(n)
    BY <1>2, <2>1 DEF SetState, Quiet, exchangeVars, Elsewhere, Has, NTypeOK
  <2>3. QED
    BY <1>2, <2>1, <2>2, StillObject DEF exchangeVars, Moved
<1>3. QED
  BY <1>1, <1>2 DEF TwoWayReceived

LEMMA HelloObject ==
  ASSUME AInv, Lasting, NEW n \in Neighbors, NInv',
         HelloOneWay(n) \/ \E c, isDR : HelloTwoWay(n, c, isDR)
  PROVE  Moved(n)
<1> DEFINE s == AfterHello(n)
<1>1. NTypeOK
  BY DEF AInv, NInv
<1>2. s = IF nbrState[n] = "Down" THEN "Init" ELSE nbrState[n]
  BY <1>1, HelloTable DEF NTypeOK
<1> HIDE DEF s
<1>3. ASSUME SetState(n, s), Quiet(n) \/ InitListData(n), UNCHANGED exchangeVars PROVE Moved(n)
  <2>1. Elsewhere(n) /\ nbrState'[n] = s /\ Has(n)' \subseteq Has(n)
    BY <1>1, <1>3 DEF SetState, Quiet, InitListData, exchangeVars, Elsewhere, Has, NTypeOK
  <2>2. \/ nbrState'[n] = nbrState[n]
        \/ ~attempted[n] /\ nbrState'[n] = "Init"
    BY <1>2, <2>1 DEF AInv, PairInv, Progress
  <2>3. QED
    BY <1>3, <2>1, <2>2, StillObject DEF exchangeVars, Moved
<1>4. CASE HelloOneWay(n)
  BY <1>3, <1>4 DEF HelloOneWay, s
<1>5. ASSUME NEW c, NEW isDR, HelloTwoWay(n, c, isDR) PROVE Moved(n)
  <2>1. CASE Runs(Table, s, "TwoWayReceived") /\ TwoWayReceived(n, c, isDR)
    <3>1. s \in States
      BY <1>1, <1>2, OrdValues DEF NTypeOK
    <3>2. nbrState[n] \in {"Down", "Init"}
      BY <1>2, <2>1, <3>1, TwoWayTable
    <3>3. QED
      BY <2>1, <3>2, TwoWayObject
  <2>2. CASE SetState(n, s) /\ Quiet(n) /\ UNCHANGED exchangeVars
    BY <1>3, <2>2
  <2>3. QED
    BY <1>5, <2>1, <2>2 DEF HelloTwoWay, s
<1>6. QED
  BY <1>4, <1>5

LEMMA TimerObject ==
  ASSUME AInv, Lasting, NEW n \in Neighbors, NInv',
         InactivityElapsed(n) \/ SendTimerElapsed(n)
  PROVE  Moved(n)
<1>1. NTypeOK /\ UNCHANGED <<nbrState, exchangeVars>>
  BY DEF AInv, NInv, InactivityElapsed, SendTimerElapsed
<1>2. CASE InactivityElapsed(n)
  <2>1. Has(n)' \subseteq Has(n) /\ Elsewhere(n)
    BY <1>1, <1>2
       DEF InactivityElapsed, InitListData, exchangeVars, Elsewhere, Has, NTypeOK
  <2>2. QED
    BY <1>1, <2>1, StillObject DEF exchangeVars, Moved
<1>3. CASE SendTimerElapsed(n)
  <2>1. SendDBDReady(n, sendList[n], pending[n])
    BY <1>3 DEF SendTimerElapsed
  <2>2. Has(n)' \subseteq Has(n)
    BY <1>1, <2>1, SendFrom DEF Has
  <2>3. Elsewhere(n)
    BY <1>1, <2>1, SendElsewhere DEF Elsewhere, exchangeVars
  <2>4. QED
    BY <1>1, <2>2, <2>3, StillObject DEF exchangeVars, Moved
<1>4. QED
  BY <1>2, <1>3

\* A DBD of the peer is taken for an offer: the answer repeats its number.
LEMMA SlaveObject ==
  ASSUME AInv, Lasting, NEW n \in Neighbors, NInv',
         NEW wire \in Sendable(Peer[n]), BecomeSlave(n, wire)
  PROVE  Moved(n)
<1> DEFINE d == Parse(wire)
<1>1. NTypeOK /\ NTypeOK' /\ wire \in DBD /\ ATypes
  BY DEF AInv, NInv, Sendable
<1>2. d.master = wire.master /\ d.seq = wire.seq /\ d.seq \in Seqs /\ d.opts \in Options
  BY <1>1 DEF Parse, DBD
<1>3. nbrState[n] = "ExStart" /\ d.master /\ Follows(n)
  BY DEF BecomeSlave, OffersSlave, Follows
<1>4. d.seq % 2 \in firsts[Peer[n]]
  BY <1>1, <1>2, <1>3, OneLeads DEF Sendable, MaySend
<1>5. firsts[Peer[n]] \subseteq firsts'[Peer[n]]
  BY <1>1, OneLeads DEF Lasting
<1>6. /\ ms' = [ms EXCEPT ![n] = "Slave"] /\ ddSeq' = [ddSeq EXCEPT ![n] = d.seq]
      /\ nbrState' = [nbrState EXCEPT ![n] = "Exchange"] /\ UNCHANGED attempted
      /\ PrepareSendDBD(n, sendList[n], {}, SlaveDBD(n, d.seq))
  BY DEF BecomeSlave, NegotiationDone, SetState
<1> HIDE DEF d
<1>7. Follows(n)' /\ ~Leads(n)'
  BY <1>3 DEF Lasting, Leads, Follows
<1>8. Progress(n)'
  BY <1>1, <1>3, <1>6, <1>7 DEF AInv, PairInv, Progress, Lasting, NTypeOK
<1>9. SlaveDBD(n, d.seq) \in Sendable(n)'
  <2>1. SlaveDBD(n, d.seq) \in DBD
    BY <1>2, OwnDBD
  <2>2. MaySend(n, SlaveDBD(n, d.seq))'
    BY <1>4, <1>5, <1>7 DEF MaySend, SlaveDBD
  <2>3. QED
    BY <2>1, <2>2 DEF Sendable
<1>10. Has(n)' \subseteq Sendable(n)'
  <2>1. Has(n)' \subseteq sendList[n] \cup {SlaveDBD(n, d.seq)}
    BY <1>1, <1>6, PrepareFrom
  <2>2. sendList[n] \subseteq Sendable(n)'
    BY <1>1, SendableLasts DEF AInv, PairInv, Has
  <2>3. QED
    BY <1>9, <2>1, <2>2
<1>11. Elsewhere(n)
  BY <1>1, <1>6, PrepareElsewhere DEF Elsewhere, NTypeOK
<1>12. QED
  BY <1>8, <1>10, <1>11 DEF Moved

\* The answer to its offer takes the leader to the number after it.
LEMMA MasterObject ==
  ASSUME AInv, Lasting, NEW n \in Neighbors, NInv', NEW wire, BecomeMaster(n, wire)
  PROVE  Moved(n)
<1>1. NTypeOK /\ NTypeOK' /\ ATypes
  BY DEF AInv, NInv
<1>2. nbrState[n] = "ExStart" /\ Leads(n)
  BY DEF BecomeMaster, AcceptsMaster, Leads
<1>3. /\ ms' = [ms EXCEPT ![n] = "Master"] /\ ddSeq' = [ddSeq EXCEPT ![n] = Succ(@)]
      /\ nbrState' = [nbrState EXCEPT ![n] = "Exchange"] /\ UNCHANGED <<attempted, sendList>>
      /\ pending' = [pending EXCEPT ![n] = {}] /\ out' = [out EXCEPT ![n] = {}]
  BY DEF BecomeMaster, NegotiationDone, SetState
<1>4. Leads(n)' /\ ~Follows(n)'
  BY <1>2 DEF Lasting, Leads, Follows
<1>5. Succ(ddSeq[n]) % 2 \in firsts[n] => firsts[n] = {0, 1}
  <2>1. ddSeq[n] \in Seqs /\ ddSeq[n] % 2 \in firsts[n] /\ firsts[n] \subseteq {0, 1}
    BY <1>1, <1>2 DEF AInv, PairInv, Progress, NTypeOK, ATypes
  <2>2. QED
    BY <2>1, SuccParity
<1>6. Progress(n)'
  BY <1>1, <1>2, <1>3, <1>4, <1>5 DEF AInv, PairInv, Progress, Lasting, NTypeOK
<1>7. Has(n)' \subseteq Sendable(n)' /\ Elsewhere(n)
  <2>1. Has(n)' \subseteq Has(n)
    BY <1>1, <1>3 DEF Has, NTypeOK
  <2>2. Elsewhere(n)
    BY <1>1, <1>3 DEF Elsewhere, NTypeOK
  <2>3. QED
    BY <1>1, <2>1, <2>2, SendableLasts DEF AInv, PairInv
<1>8. QED
  BY <1>6, <1>7 DEF Moved

\* An unexpected DBD: the next attempt has the parity of the last one.
LEMMA MismatchObject ==
  ASSUME AInv, Lasting, NEW n \in Neighbors, NInv', NEW wire, SeqNumberMismatch(n, wire)
  PROVE  Moved(n)
<1>1. NTypeOK /\ NTypeOK' /\ ATypes /\ ddSeq[n] \in Seqs
  BY DEF AInv, NInv, NTypeOK
<1>next. PICK next \in Seqs : next = Succ(ddSeq[n])
  BY <1>1, SuccType
<1>2. nbrState[n] = "Exchange" /\ attempted[n] /\ firsts[n] # {}
  BY DEF SeqNumberMismatch, AInv, PairInv, Progress
<1>3. /\ ms' = [ms EXCEPT ![n] = "Master"] /\ ddSeq' = [ddSeq EXCEPT ![n] = next]
      /\ nbrState' = [nbrState EXCEPT ![n] = "ExStart"] /\ UNCHANGED attempted
      /\ PrepareSendDBD(n, {}, pending[n], InitialDBD(n, next))
  BY <1>next DEF SeqNumberMismatch, SetState
<1>4. /\ Leads(n)' = Leads(n) /\ Follows(n)' = Follows(n) /\ firsts'[n] = firsts[n]
      /\ Leads(n) = ~Follows(n)
  BY <1>1, <1>2, <1>3, OneLeads DEF Lasting, Leads, Follows
<1>5. Leads(n) => next % 2 \in firsts[n]
  <2>1. SUFFICES ASSUME Leads(n) PROVE next % 2 \in firsts[n]
    OBVIOUS
  <2>2. ddSeq[n] % 2 \in firsts[n] => firsts[n] = {0, 1}
    BY <1>2, <2>1 DEF AInv, PairInv, Progress
  <2>3. /\ next % 2 \in {0, 1} /\ ddSeq[n] % 2 \in {0, 1}
        /\ next % 2 # ddSeq[n] % 2
    BY <1>next, <1>1, SuccParity, Parity DEF Seqs
  <2>4. firsts[n] \subseteq {0, 1}
    BY <1>1 DEF ATypes
  <2>5. QED
    BY <1>2, <2>2, <2>3, <2>4
<1>6. Progress(n)'
  BY <1>1, <1>2, <1>3, <1>4, <1>5 DEF Progress, NTypeOK
<1>7. InitialDBD(n, next) \in Sendable(n)'
  <2>1. InitialDBD(n, next) \in DBD
    BY OwnDBD
  <2>2. MaySend(n, InitialDBD(n, next))'
    BY <1>4, <1>5 DEF MaySend, InitialDBD
  <2>3. QED
    BY <2>1, <2>2 DEF Sendable
<1>8. Has(n)' \subseteq Sendable(n)'
  <2>1. Has(n)' \subseteq pending[n] \cup {InitialDBD(n, next)}
    BY <1>1, <1>3, PrepareFrom
  <2>2. pending[n] \subseteq Sendable(n)'
    BY <1>1, SendableLasts DEF AInv, PairInv, Has
  <2>3. QED
    BY <1>7, <2>1, <2>2
<1>9. Elsewhere(n)
  BY <1>1, <1>3, PrepareElsewhere DEF Elsewhere, NTypeOK
<1>10. QED
  BY <1>6, <1>8, <1>9 DEF Moved

\* The expected DBD: nothing the leader sends is one, and of the answers only
\* one with the parity of an earlier first number.
LEMMA DoneObject ==
  ASSUME AInv, Lasting, NEW n \in Neighbors, NInv',
         NEW wire \in Sendable(Peer[n]), ExchangeDone(n, wire)
  PROVE  Moved(n)
<1> DEFINE d == Parse(wire)
<1>1. NTypeOK /\ NTypeOK' /\ wire \in DBD /\ ATypes
  BY DEF AInv, NInv, Sendable
<1>2. d.master = wire.master /\ d.init = wire.init /\ d.seq = wire.seq
  BY <1>1 DEF Parse, DBD
<1>3. nbrState[n] = "Exchange" /\ ~Unexpected(n, d)
  BY DEF ExchangeDone
<1>4. ms[n] = "Master" /\ ~d.master /\ d.seq = ddSeq[n]
  BY <1>1, <1>2, <1>3 DEF Unexpected, Sendable, MaySend
<1>5. Leads(n)
  BY <1>1, <1>3, <1>4, OneLeads DEF AInv, PairInv, Progress
<1>6. firsts[n] = {0, 1}
  <2>1. ddSeq[n] % 2 \in firsts[n]
    BY <1>1, <1>2, <1>4, <1>5, OneLeads DEF Sendable, MaySend
  <2>2. QED
    BY <1>3, <1>5, <2>1 DEF AInv, PairInv, Progress
<1>7. UNCHANGED <<ms, attempted>> /\ Quiet(n)
      /\ \E s \in {"Full", "Loading"} : SetState(n, s)
      /\ \E q : ddSeq' = [ddSeq EXCEPT ![n] = q]
  BY DEF ExchangeDone
<1>8. nbrState' = [nbrState EXCEPT ![n] = "Full"]
  BY <1>1, <1>7 DEF SetState, NInv, ObjectInv, NTypeOK
<1>9. Leads(n)' /\ ~Follows(n)' /\ firsts'[n] = firsts[n]
  BY <1>5, <1>7 DEF Lasting, Leads, Follows
<1>10. Progress(n)'
  BY <1>1, <1>3, <1>6, <1>7, <1>8, <1>9 DEF AInv, PairInv, Progress, NTypeOK
<1>11. Has(n)' \subseteq Sendable(n)' /\ Elsewhere(n)
  <2>1. Has(n)' \subseteq Has(n)
    BY <1>1, <1>7 DEF Quiet, Has, NTypeOK
  <2>2. Elsewhere(n)
    BY <1>1, <1>7, <1>8 DEF Quiet, Elsewhere, NTypeOK
  <2>3. QED
    BY <1>1, <2>1, <2>2, SendableLasts DEF AInv, PairInv
<1>12. QED
  BY <1>10, <1>11 DEF Moved

LEMMA DBDObject ==
  ASSUME AInv, Lasting, NEW n \in Neighbors, NInv',
         NEW wire \in Sendable(Peer[n]), NEW isDR, OnDBDReceive(n, wire, isDR)
  PROVE  Moved(n)
<1>1. CASE DBDInInit(n, isDR)
  BY <1>1, TwoWayObject DEF DBDInInit
<1>2. CASE DBDIgnored(n, wire)
  <2>1. NTypeOK /\ Quiet(n) /\ UNCHANGED <<nbrState, exchangeVars>>
    BY <1>2 DEF DBDIgnored, AInv, NInv
  <2>2. Has(n)' \subseteq Has(n) /\ Elsewhere(n)
    BY <2>1 DEF Quiet, exchangeVars, Elsewhere, Has, NTypeOK
  <2>3. QED
    BY <2>1, <2>2, StillObject DEF exchangeVars, Moved
<1>3. QED
  BY <1>1, <1>2, SlaveObject, MasterObject, MismatchObject, DoneObject DEF OnDBDReceive

-----------------------------------------------------------------------------
(* The segment. *)

\* What is on its way was sent by the router it comes from.
LEMMA TransmitChan ==
  ASSUME AInv, Lasting, NEW n \in Neighbors, Has(n)' \subseteq Sendable(n)',
         NEW ch \in [Neighbors -> Seq(DBD)],
         \A k \in Neighbors : ch[k] \in Seq(Sendable(Peer[k])),
         Transmit(n, ch)
  PROVE  /\ chan' \in [Neighbors -> Seq(DBD)]
         /\ \A k \in Neighbors : chan'[k] \in Seq(Sendable(Peer[k])')
<1>1. ATypes /\ Peer[n] \in Neighbors /\ Peer[Peer[n]] = n
  BY OneLeads DEF AInv
<1>2. ASSUME NEW k \in Neighbors PROVE ch[k] \in Seq(Sendable(Peer[k])')
  <2>1. Sendable(Peer[k]) \subseteq Sendable(Peer[k])'
    BY <1>1, OneLeads, SendableLasts
  <2>2. QED
    BY <2>1, SeqGrows
<1>3. CASE chan' = ch
  BY <1>2, <1>3
<1>4. ASSUME NEW d \in out'[n], chan' = [ch EXCEPT ![Peer[n]] = Append(@, d)]
      PROVE  /\ chan' \in [Neighbors -> Seq(DBD)]
             /\ \A k \in Neighbors : chan'[k] \in Seq(Sendable(Peer[k])')
  <2>1. d \in Sendable(Peer[Peer[n]])' /\ d \in DBD
    BY <1>1, <1>4 DEF Has, Sendable
  <2>2. Append(ch[Peer[n]], d) \in Seq(Sendable(Peer[Peer[n]])')
    BY <1>1, <1>2, <2>1
  <2>3. Append(ch[Peer[n]], d) \in Seq(DBD)
    BY <1>1, <2>1
  <2>4. QED
    BY <1>1, <1>2, <1>4, <2>2, <2>3
<1>5. QED
  BY <1>3, <1>4 DEF Transmit

-----------------------------------------------------------------------------
(* The steps of the pair. *)

\* A step under the lock of an object, or a timer of it, whatever it does to
\* the channels.
LEMMA ObjectStep ==
  ASSUME AInv, NEW n \in Neighbors, NStep(n), Lasting, Remembers, Moved(n), NInv',
         chan' \in [Neighbors -> Seq(DBD)],
         \A k \in Neighbors : chan'[k] \in Seq(Sendable(Peer[k])')
  PROVE  AInv'
<1>1. firsts' \in [Neighbors -> SUBSET {0, 1}]
  <2>1. ASSUME NEW k \in Neighbors PROVE ddSeq'[k] % 2 \in {0, 1}
    <3>1. ddSeq'[k] \in Nat
      BY NeighborAssumption DEF NInv, NTypeOK, Seqs
    <3>2. QED
      BY <3>1, Parity
  <2>2. firsts \in [Neighbors -> SUBSET {0, 1}]
    BY DEF AInv, ATypes
  <2>3. QED
    BY <2>1, <2>2 DEF Remembers
<1>2. QED
  BY <1>1, StepPairs DEF Moved

\* The history and the ids last through every step that leaves stored alone.
LEMMA StepLasts ==
  ASSUME AInv, Remembers, \A n \in Neighbors : stored'[n].rid = stored[n].rid
  PROVE  Lasting
BY DEF Remembers, Lasting

LEMMA SameStored ==
  ASSUME NEW n \in Neighbors, NStep(n)
  PROVE  stored' = stored
<1>1. ASSUME NEW wire \in DBD, NEW isDR \in BOOLEAN, OnDBDReceive(n, wire, isDR)
      PROVE  stored' = stored
  BY <1>1 DEF OnDBDReceive, DBDInInit, BecomeSlave, BecomeMaster, SeqNumberMismatch,
              ExchangeDone, DBDIgnored
<1>2. ASSUME NEW c \in HelloClaims, NEW isDR \in BOOLEAN, HelloTwoWay(n, c, isDR)
      PROVE  stored' = stored
  BY <1>2 DEF HelloTwoWay
<1>3. ASSUME NEW c \in HelloClaims, NEW isDR \in BOOLEAN, AdjOK(n, c, isDR)
      PROVE  stored' = stored
  BY <1>3 DEF AdjOK
<1>4. QED
  BY <1>1, <1>2, <1>3
     DEF NStep, HelloOneWay, InactivityElapsed, SendTimerElapsed, NeighborLost, UnknownEvent

LEMMA HelloStep ==
  ASSUME AInv, NEW n \in Neighbors, NEW c \in HelloClaims, NEW isDR \in BOOLEAN,
         HelloArrives(n, c, isDR)
  PROVE  AInv'
<1>1. HelloTwoWay(n, c, isDR) \/ HelloOneWay(n)
  BY DEF HelloArrives
<1>2. NStep(n) /\ Remembers /\ Transmit(n, chan)
  BY <1>1 DEF NStep, HelloArrives
<1>3. NInv' /\ Lasting
  BY <1>2, StepInv, SameStored, StepLasts DEF AInv, NNext
<1>4. Moved(n)
  BY <1>1, <1>3, HelloObject
<1>5. QED
  <2>1. chan \in [Neighbors -> Seq(DBD)] /\ \A k \in Neighbors : chan[k] \in Seq(Sendable(Peer[k]))
    BY DEF AInv, ATypes, PairInv
  <2>2. QED
    BY <1>2, <1>3, <1>4, <2>1, TransmitChan, ObjectStep DEF Moved

LEMMA TimerStep ==
  ASSUME AInv, NEW n \in Neighbors, TimerFires(n)
  PROVE  AInv'
<1>1. InactivityElapsed(n) \/ SendTimerElapsed(n)
  BY DEF TimerFires
<1>2. NStep(n) /\ Remembers /\ Transmit(n, chan)
  BY <1>1 DEF NStep, TimerFires
<1>3. NInv' /\ Lasting
  BY <1>2, StepInv, SameStored, StepLasts DEF AInv, NNext
<1>4. Moved(n)
  BY <1>1, <1>3, TimerObject
<1>5. QED
  <2>1. chan \in [Neighbors -> Seq(DBD)] /\ \A k \in Neighbors : chan[k] \in Seq(Sendable(Peer[k]))
    BY DEF AInv, ATypes, PairInv
  <2>2. QED
    BY <1>2, <1>3, <1>4, <2>1, TransmitChan, ObjectStep DEF Moved

\* What a channel still holds after its head is taken.
LEMMA TailChan ==
  ASSUME AInv, NEW n \in Neighbors, chan[n] # <<>>
  PROVE  /\ Head(chan[n]) \in Sendable(Peer[n]) /\ Head(chan[n]) \in DBD
         /\ [chan EXCEPT ![n] = Tail(@)] \in [Neighbors -> Seq(DBD)]
         /\ \A k \in Neighbors : [chan EXCEPT ![n] = Tail(@)][k] \in Seq(Sendable(Peer[k]))
<1>1. chan[n] \in Seq(Sendable(Peer[n])) /\ chan[n] \in Seq(DBD)
  BY DEF AInv, ATypes, PairInv
<1>2. /\ Head(chan[n]) \in Sendable(Peer[n]) /\ Head(chan[n]) \in DBD
      /\ Tail(chan[n]) \in Seq(Sendable(Peer[n])) /\ Tail(chan[n]) \in Seq(DBD)
  BY <1>1, HeadTail
<1>3. QED
  BY <1>2 DEF AInv, ATypes, PairInv

LEMMA DBDStep ==
  ASSUME AInv, NEW n \in Neighbors, NEW isDR \in BOOLEAN, DBDArrives(n, isDR)
  PROVE  AInv'
<1> DEFINE wire == Head(chan[n])
           rest == [chan EXCEPT ![n] = Tail(@)]
<1>1. /\ wire \in Sendable(Peer[n]) /\ wire \in DBD
      /\ rest \in [Neighbors -> Seq(DBD)]
      /\ \A k \in Neighbors : rest[k] \in Seq(Sendable(Peer[k]))
  BY TailChan DEF DBDArrives
<1>2. Remembers /\ (\/ OnDBDReceive(n, wire, isDR) /\ Transmit(n, rest)
                    \/ chan' = rest /\ UNCHANGED nvars)
  BY DEF DBDArrives
<1> HIDE DEF wire, rest
<1>3. CASE OnDBDReceive(n, wire, isDR) /\ Transmit(n, rest)
  <2>1. NStep(n)
    BY <1>1, <1>3 DEF NStep
  <2>2. NInv' /\ Lasting
    BY <1>2, <2>1, StepInv, SameStored, StepLasts DEF AInv, NNext
  <2>3. Moved(n)
    BY <1>1, <1>3, <2>2, DBDObject
  <2>4. QED
    BY <1>1, <1>2, <1>3, <2>1, <2>2, <2>3, TransmitChan, ObjectStep DEF Moved
<1>4. CASE chan' = rest /\ UNCHANGED nvars
  <2>1. firsts' = firsts
    BY <1>2, <1>4 DEF Remembers, nvars, exchangeVars, AInv, ATypes
  <2>2. /\ UNCHANGED <<nbrState, stored, attempted, ddSeq, ms, sendList, pending, out>>
        /\ NInv'
    <3>1. NInv'
      BY <1>4, StepInv DEF AInv
    <3>2. QED
      BY <1>4, <3>1 DEF nvars, exchangeVars, sendVars
  <2>3. ATypes'
    BY <1>1, <1>4, <2>1, <2>2 DEF AInv, ATypes
  <2>4. ASSUME NEW k \in Neighbors PROVE Progress(k)' = Progress(k) /\ Sendable(k)' = Sendable(k)
                                         /\ Has(k)' = Has(k)
    BY <2>1, <2>2 DEF Progress, Sendable, MaySend, Has, Leads, Follows
  <2>5. ASSUME NEW k \in Neighbors PROVE PairInv(k)'
    <3>1. Sendable(Peer[k])' = Sendable(Peer[k])
      BY <2>4, OneLeads DEF AInv
    <3>2. QED
      BY <1>1, <1>4, <2>4, <3>1 DEF AInv, PairInv
  <2>6. QED
    BY <2>2, <2>3, <2>5 DEF AInv
<1>5. QED
  BY <1>2, <1>3, <1>4

\* A restarted router has forgotten all but what its id is.
LEMMA RestartStep ==
  ASSUME AInv, NEW n \in Neighbors, Restart(n)
  PROVE  AInv'
<1>1. NTypeOK /\ ATypes /\ Remembers /\ chan' = chan
  BY DEF AInv, NInv, Restart
<1>2. PICK c \in HelloClaims :
        stored' = [stored EXCEPT ![n] = [dr |-> c.dr, bdr |-> c.bdr, rid |-> @.rid]]
  BY DEF Restart
<1>3. stored' \in [Neighbors -> Peers] /\ \A k \in Neighbors : stored'[k].rid = stored[k].rid
  <2>1. c.dr \in Claim /\ c.bdr \in Claim
    BY NeighborAssumption DEF Claim
  <2>2. [dr |-> c.dr, bdr |-> c.bdr, rid |-> stored[n].rid] \in Peers
    BY <1>1, <2>1 DEF Peers, NTypeOK
  <2>3. QED
    BY <1>1, <1>2, <2>2 DEF NTypeOK
<1>4. Lasting
  BY <1>1, <1>3, StepLasts
<1>5. NTypeOK'
  <2>1. OwnOptions[Peer[n]] \in Options /\ 0 \in Seqs /\ "Down" \in States
    BY AdjacencyAssumption, NeighborAssumption, OrdValues DEF Seqs
  <2>2. QED
    BY <1>1, <1>3, <2>1 DEF Restart, ClearCounts, NTypeOK
<1>6. /\ nbrState'[n] = "Down" /\ ms'[n] = "None" /\ attempted'[n] = FALSE
      /\ summary'[n] = 0 /\ request'[n] = 0 /\ Has(n)' = {}
  BY <1>1 DEF Restart, ClearCounts, NTypeOK, Has
<1>7. Elsewhere(n) /\ Others(n)
  BY <1>1 DEF Restart, ClearCounts, NTypeOK, Elsewhere, Others
<1>8. NInv'
  <2>1. ObjectInv(n)'
    BY <1>6 DEF ObjectInv, Negotiating
  <2>2. QED
    BY <1>5, <1>7, <2>1, Frame DEF AInv
<1>9. Progress(n)'
  BY <1>6 DEF Progress
<1>10. firsts' \in [Neighbors -> SUBSET {0, 1}]
  <2>1. firsts' = firsts
    BY <1>1, <1>6, <1>7 DEF Remembers, Elsewhere, ATypes
  <2>2. QED
    BY <1>1, <2>1 DEF ATypes
<1>11. \A k \in Neighbors : chan'[k] \in Seq(Sendable(Peer[k])')
  <2>1. TAKE k \in Neighbors
  <2>2. Sendable(Peer[k]) \subseteq Sendable(Peer[k])' /\ chan[k] \in Seq(Sendable(Peer[k]))
    BY <1>1, <1>4, OneLeads, SendableLasts DEF AInv, PairInv
  <2>3. QED
    BY <1>1, <2>2, SeqGrows
<1>12. QED
  BY <1>1, <1>4, <1>6, <1>7, <1>8, <1>9, <1>10, <1>11, StepPairs DEF ATypes

-----------------------------------------------------------------------------
(* The theorems. *)

LEMMA AInitInv == AInit => AInv
<1> SUFFICES ASSUME AInit PROVE AInv
  OBVIOUS
<1>1. NInv
  BY InitInv DEF AInit
<1>2. ATypes
  <2>1. chan \in [Neighbors -> Seq(DBD)]
    BY DEF AInit
  <2>2. QED
    BY <2>1 DEF AInit, ATypes
<1>3. ASSUME NEW n \in Neighbors PROVE PairInv(n)
  BY DEF AInit, NInit, PairInv, Progress, Has
<1>4. QED
  BY <1>1, <1>2, <1>3 DEF AInv

LEMMA AStepInv == AInv /\ [ANext]_avars => AInv'
<1> SUFFICES ASSUME AInv, [ANext]_avars PROVE AInv'
  OBVIOUS
<1>1. ASSUME NEW n \in Neighbors, AStep(n) PROVE AInv'
  BY <1>1, HelloStep, DBDStep, TimerStep, RestartStep DEF AStep
<1>2. CASE UNCHANGED avars
  <2>1. UNCHANGED nvars /\ UNCHANGED <<chan, firsts>>
    BY <1>2 DEF avars
  <2>2. NInv'
    BY <2>1, StepInv DEF AInv
  <2>3. UNCHANGED <<nbrState, stored, attempted, ddSeq, ms, sendList, pending, out>>
    BY <2>1 DEF nvars, exchangeVars, sendVars
  <2>4. ATypes'
    BY <2>1, <2>3 DEF AInv, ATypes
  <2>5. ASSUME NEW n \in Neighbors PROVE PairInv(n)'
    <3>1. \A k \in Neighbors : Leads(k)' = Leads(k) /\ Follows(k)' = Follows(k)
      BY <2>3 DEF Leads, Follows
    <3>2. Progress(n)' /\ Has(n)' = Has(n)
      BY <2>1, <2>3, <3>1 DEF AInv, PairInv, Progress, Has
    <3>3. \A k \in Neighbors : Sendable(k)' = Sendable(k)
      BY <2>1, <3>1 DEF Sendable, MaySend
    <3>4. QED
      BY <2>1, <3>2, <3>3, OneLeads DEF AInv, PairInv
  <2>6. QED
    BY <2>2, <2>4, <2>5 DEF AInv
<1>3. QED
  BY <1>1, <1>2 DEF ANext

\* Two routers that run this code keep to the inductive invariant, whatever the
\* segment between them loses and however often they restart.
THEOREM PairInvariant == ASpec => []AInv
BY AInitInv, AStepInv, PTL DEF ASpec

\* Until a router restarts, an object has begun one negotiation at most.
FreshInv ==
  /\ restarts \in Nat
  /\ restarts = 0 =>
       \A n \in Neighbors : IF attempted[n] THEN firsts[n] # {0, 1} ELSE firsts[n] = {}

LEMMA AttemptLasts ==
  ASSUME NTypeOK, NEW n \in Neighbors, NStep(n), NEW k \in Neighbors, attempted[k]
  PROVE  attempted'[k]
<1>1. CASE UNCHANGED attempted
  BY <1>1
<1>2. CASE attempted' = [attempted EXCEPT ![n] = TRUE]
  BY <1>2 DEF NTypeOK
<1>3. UNCHANGED attempted \/ attempted' = [attempted EXCEPT ![n] = TRUE]
  BY DEF NStep, HelloOneWay, HelloTwoWay, TwoWayReceived, ProcessAdjacency,
         InactivityElapsed, SendTimerElapsed, NeighborLost, UnknownEvent, AdjOK,
         OnDBDReceive, DBDInInit, BecomeSlave, BecomeMaster, SeqNumberMismatch,
         ExchangeDone, DBDIgnored, exchangeVars
<1>4. QED
  BY <1>1, <1>2, <1>3

LEMMA FreshStep == AInv /\ FreshInv /\ [ANext]_avars => FreshInv'
<1> SUFFICES ASSUME AInv, FreshInv, [ANext]_avars PROVE FreshInv'
  OBVIOUS
<1>1. ASSUME UNCHANGED restarts, Remembers,
             \A k \in Neighbors : attempted[k] => attempted'[k]
      PROVE  FreshInv'
  <2>1. \A k \in Neighbors : firsts'[k] =
          IF attempted'[k] /\ ~attempted[k] THEN firsts[k] \cup {ddSeq'[k] % 2} ELSE firsts[k]
    BY <1>1 DEF Remembers
  <2>2. SUFFICES ASSUME restarts = 0, NEW k \in Neighbors
                 PROVE  IF attempted'[k] THEN firsts'[k] # {0, 1} ELSE firsts'[k] = {}
    BY <1>1 DEF FreshInv
  <2>3. CASE attempted'[k] /\ ~attempted[k]
    <3>1. firsts'[k] = {ddSeq'[k] % 2}
      BY <2>1, <2>2, <2>3 DEF FreshInv
    <3>2. ASSUME firsts'[k] = {0, 1} PROVE FALSE
      <4>1. 0 \in {ddSeq'[k] % 2} /\ 1 \in {ddSeq'[k] % 2}
        BY <3>1, <3>2
      <4>2. QED
        BY <4>1
    <3>3. QED
      BY <2>3, <3>2
  <2>4. CASE ~(attempted'[k] /\ ~attempted[k])
    BY <1>1, <2>1, <2>2, <2>4 DEF FreshInv
  <2>5. QED
    BY <2>3, <2>4
<1>2. ASSUME NEW n \in Neighbors, NStep(n), UNCHANGED restarts, Remembers PROVE FreshInv'
  BY <1>1, <1>2, AttemptLasts DEF AInv, NInv
<1>3. ASSUME NEW n \in Neighbors, AStep(n) PROVE FreshInv'
  <2>1. CASE Restart(n)
    BY <2>1 DEF Restart, FreshInv
  <2>2. CASE TimerFires(n)
    BY <1>2, <2>2 DEF TimerFires, NStep
  <2>3. ASSUME NEW c \in HelloClaims, NEW isDR \in BOOLEAN, HelloArrives(n, c, isDR)
        PROVE  FreshInv'
    BY <1>2, <2>3 DEF HelloArrives, NStep
  <2>4. ASSUME NEW isDR \in BOOLEAN, DBDArrives(n, isDR) PROVE FreshInv'
    <3>1. Head(chan[n]) \in DBD
      BY <2>4, TailChan DEF DBDArrives
    <3>2. CASE OnDBDReceive(n, Head(chan[n]), isDR)
      BY <1>2, <2>4, <3>1, <3>2 DEF DBDArrives, NStep
    <3>3. CASE UNCHANGED nvars
      BY <1>1, <2>4, <3>3 DEF DBDArrives, nvars, exchangeVars
    <3>4. QED
      BY <2>4, <3>2, <3>3 DEF DBDArrives
  <2>5. QED
    BY <1>3, <2>1, <2>2, <2>3, <2>4 DEF AStep
<1>4. CASE UNCHANGED avars
  BY <1>4 DEF avars, nvars, exchangeVars, FreshInv
<1>5. QED
  BY <1>3, <1>4 DEF ANext

\* An adjacency completes only by an answer left over from before a restart, and
\* only on the router with the lower id: of two routers at most one ever thinks
\* that it is fully adjacent, and of two that never restart, none.
THEOREM NoFullWithoutLeftovers == ASpec => []OnlyLeftoversComplete
<1>1. AInv /\ FreshInv => OnlyLeftoversComplete
  <2>1. SUFFICES ASSUME AInv, FreshInv, NEW n \in Neighbors, nbrState[n] = "Full"
                 PROVE  stored[n].rid = "lower" /\ restarts > 0 /\ firsts[n] = {0, 1}
    BY DEF OnlyLeftoversComplete
  <2>2. Leads(n)
    BY <2>1, OneLeads DEF AInv, PairInv, Progress
  <2>3. firsts[n] = {0, 1} /\ attempted[n]
    BY <2>1, <2>2 DEF AInv, PairInv, Progress
  <2>4. QED
    BY <2>1, <2>2, <2>3 DEF FreshInv, Leads
<1>2. AInit => FreshInv
  BY DEF AInit, NInit, FreshInv
<1>3. QED
  BY <1>1, <1>2, FreshStep, PairInvariant, PTL DEF ASpec

=============================================================================
