---------------------------- MODULE MachineProofs ----------------------------
(***************************************************************************)
(* Proofs about the machine the protocols run on: Controller, for any      *)
(* modules, devices and number of times Ctrl-C is pressed, and Startup and *)
(* NodeBinding, for any machines and configurations.                       *)
(*                                                                         *)
(* What carries those of Controller is the order of two sequences of       *)
(* steps.  Enable starts the modules, sets the flag, starts the loops and  *)
(* then watches the flag; Disable stops the modules and then resets the    *)
(* flag.  So once the modules have been started a flag that is off was     *)
(* reset by a Disable, and a Disable that began after that has nobody to   *)
(* undo what it does.                                                      *)
(*                                                                         *)
(* What carries those of Startup is what each loop has made by then: after *)
(* the n-th element the first n have what the loop makes of them, and what *)
(* a loop has made no later one changes.                                   *)
(***************************************************************************)
EXTENDS Controller, NodeBinding, FiniteSetTheorems, TLAPS

LoopIsOpen ==
    \A d \in CaptureDevices : /\ d \in breaks => handle[d] = "open"
                              /\ handle[d] = "open" => loop[d] # "over"

InOrder ==
    /\ progress # "modules" => starting = {}
    /\ watching => progress = "waiting"
    /\ progress \in {"waiting", "returned"} => \A d \in CaptureDevices : loop[d] # "idle"
    /\ breaks # {} => progress = "returned"

(* Only a Disable resets the flag that SetEnabled has set.                 *)
OffMeansStopped ==
    /\ progress # "modules" /\ ~isEnabled => stopped
    /\ progress = "returned" => stopped

NoneBefore ==
    disables = 0 => /\ ~disabling /\ began = "none"
                    /\ progress # "modules" => isEnabled /\ progress # "returned"

Off(modules) == \A m \in modules : ~moduleOn[m]

(* How far the first Disable is, if it began when the modules were started.*)
FirstLate ==
    began = "late" =>
        /\ progress # "modules"
        /\ disables = 1 /\ disabling =>
              isEnabled /\ progress # "returned" /\ Off(Modules \ stopping)
        /\ disables = 1 /\ ~disabling => Off(Modules)

CtrlInv ==
    /\ CtrlTypeOK /\ LoopIsOpen /\ InOrder
    /\ OffMeansStopped /\ NoneBefore /\ FirstLate
    /\ HandlesOutliveTheirUse

LEMMA InitCtrlInv == CtrlInit => CtrlInv
<1> SUFFICES ASSUME CtrlInit PROVE CtrlInv
  OBVIOUS
<1> USE ControllerAssumption DEF CtrlInit
<1>1. CtrlTypeOK
  <2>1. moduleOn \in [Modules -> BOOLEAN] /\ disables \in 0 .. MaxDisables
    BY SMT
  <2>2. /\ loop \in [CaptureDevices -> {"idle", "started", "loop", "waiting", "handling", "over"}]
        /\ breaks \subseteq {d \in CaptureDevices : loop[d] \notin {"idle", "over"}}
    BY SMT
  <2>3. failed \subseteq CaptureDevices
    BY SMT
  <2> QED
    BY <2>1, <2>2, <2>3 DEF CtrlTypeOK
<1>2. LoopIsOpen /\ InOrder
  BY SMT DEF LoopIsOpen, InOrder
<1>3. OffMeansStopped /\ NoneBefore /\ FirstLate
  BY SMT DEF OffMeansStopped, NoneBefore, FirstLate
<1>4. HandlesOutliveTheirUse
  BY SMT DEF HandlesOutliveTheirUse
<1> QED
  BY <1>1, <1>2, <1>3, <1>4 DEF CtrlInv

(* The steps by what they touch: the modules and flags, or one loop.       *)
FlagStep ==
    \/ \E m \in Modules : StartModule(m) \/ StopModule(m)
    \/ SetEnabled \/ StartWatch \/ BeginDisable \/ EndDisable \/ Watch

LoopStep(d) ==
    \/ StartThread(d) \/ RunIt(d) \/ PacketArrives(d) \/ Begin(d) \/ Handled(d)
    \/ LoopEnds(d) \/ LoopFails(d) \/ Send(d)

LEMMA Steps == CtrlNext => FlagStep \/ \E d \in CaptureDevices : LoopStep(d)
BY Zenon DEF CtrlNext, Enable, Disable, Loop, FlagStep, LoopStep

LEMMA FlagStepInv == CtrlInv /\ FlagStep => CtrlInv'
<1> SUFFICES ASSUME CtrlInv, FlagStep PROVE CtrlInv'
  OBVIOUS
<1> USE ControllerAssumption
    DEF CtrlInv, enableVars, disableVars, handleVars, captureVars
<1>1. ASSUME NEW m \in Modules, StartModule(m) PROVE CtrlInv'
  <2> USE <1>1 DEF StartModule
  <2>1. CtrlTypeOK' /\ LoopIsOpen' /\ HandlesOutliveTheirUse'
    BY SMT DEF CtrlTypeOK, LoopIsOpen, HandlesOutliveTheirUse
  <2>2. progress = "modules"
    BY DEF InOrder
  <2>3. InOrder' /\ OffMeansStopped' /\ NoneBefore' /\ FirstLate'
    BY <2>2, SMT DEF InOrder, OffMeansStopped, NoneBefore, FirstLate
  <2> QED
    BY <2>1, <2>3
<1>2. ASSUME NEW m \in Modules, StopModule(m) PROVE CtrlInv'
  <2> USE <1>2 DEF StopModule
  <2>1. CtrlTypeOK' /\ LoopIsOpen' /\ InOrder' /\ HandlesOutliveTheirUse'
    BY SMT DEF CtrlTypeOK, LoopIsOpen, InOrder, HandlesOutliveTheirUse
  <2>2. OffMeansStopped' /\ NoneBefore'
    BY SMT DEF OffMeansStopped, NoneBefore
  <2>3. FirstLate'
    BY SMT DEF FirstLate, Off, CtrlTypeOK
  <2> QED
    BY <2>1, <2>2, <2>3
<1>3. CASE SetEnabled
  <2> USE <1>3 DEF SetEnabled
  <2>1. CtrlTypeOK' /\ LoopIsOpen' /\ InOrder' /\ HandlesOutliveTheirUse'
    BY SMT DEF CtrlTypeOK, LoopIsOpen, InOrder, HandlesOutliveTheirUse
  <2>2. OffMeansStopped' /\ NoneBefore' /\ FirstLate'
    BY SMT DEF OffMeansStopped, NoneBefore, FirstLate
  <2> QED
    BY <2>1, <2>2
<1>4. CASE StartWatch
  <2> USE <1>4 DEF StartWatch
  <2>1. CtrlTypeOK' /\ LoopIsOpen' /\ InOrder' /\ HandlesOutliveTheirUse'
    BY SMT DEF CtrlTypeOK, LoopIsOpen, InOrder, HandlesOutliveTheirUse
  <2>2. OffMeansStopped' /\ NoneBefore' /\ FirstLate'
    BY SMT DEF OffMeansStopped, NoneBefore, FirstLate, Off
  <2> QED
    BY <2>1, <2>2
<1>5. CASE BeginDisable
  <2> USE <1>5 DEF BeginDisable
  <2>1. CtrlTypeOK' /\ LoopIsOpen' /\ InOrder' /\ HandlesOutliveTheirUse'
    BY SMT DEF CtrlTypeOK, LoopIsOpen, InOrder, HandlesOutliveTheirUse
  <2>2. OffMeansStopped' /\ NoneBefore'
    BY SMT DEF OffMeansStopped, NoneBefore, CtrlTypeOK
  <2>3. FirstLate'
    BY SMT DEF FirstLate, NoneBefore, Off, CtrlTypeOK
  <2> QED
    BY <2>1, <2>2, <2>3
<1>6. CASE EndDisable
  <2>1. /\ disabling /\ stopping = {} /\ disabling' = FALSE /\ isEnabled' = FALSE
        /\ stopped' \in BOOLEAN
        /\ progress # "modules" => stopped' = TRUE
        /\ stopped => stopped' = TRUE
        /\ UNCHANGED <<enableVars, moduleOn, stopping, disables, began, captureVars, watching>>
    BY <1>6, Zenon DEF EndDisable
  <2>2. CtrlTypeOK'
    BY <2>1, Zenon DEF CtrlTypeOK
  <2>3. LoopIsOpen' /\ InOrder' /\ HandlesOutliveTheirUse'
    BY <2>1, SMT DEF LoopIsOpen, InOrder, HandlesOutliveTheirUse
  <2>4. OffMeansStopped' /\ NoneBefore'
    BY <2>1, SMT DEF OffMeansStopped, NoneBefore
  <2>5. FirstLate'
    BY <2>1, SMT DEF FirstLate, Off
  <2> QED
    BY <2>2, <2>3, <2>4, <2>5
<1>7. CASE Watch
  <2>1. progress = "waiting" /\ ~isEnabled /\ stopped
    BY <1>7, SMT DEF Watch, InOrder, OffMeansStopped
  <2>2. UNCHANGED <<starting, isEnabled, moduleOn, disableVars, loop, handleVars>>
    BY <1>7 DEF Watch
  <2>3. CASE /\ breaks' = {d \in CaptureDevices : handle[d] = "open"}
             /\ watching' = FALSE /\ progress' = "returned" /\ dead' = dead
    <3>1. CtrlTypeOK'
      <4>1. breaks' \subseteq {d \in CaptureDevices : loop[d] \notin {"idle", "over"}}
        BY <2>1, <2>3, Zenon DEF LoopIsOpen, InOrder
      <4> QED
        BY <2>1, <2>2, <2>3, <4>1, Zenon DEF CtrlTypeOK
    <3>2. LoopIsOpen' /\ InOrder' /\ HandlesOutliveTheirUse'
      BY <2>1, <2>2, <2>3, SMT DEF LoopIsOpen, InOrder, HandlesOutliveTheirUse
    <3>3. OffMeansStopped' /\ NoneBefore' /\ FirstLate'
      BY <2>1, <2>2, <2>3, SMT DEF OffMeansStopped, NoneBefore, FirstLate, Off, CtrlTypeOK
    <3> QED
      BY <3>1, <3>2, <3>3
  <2>4. CASE /\ \E d \in CaptureDevices : handle[d] # "open"
             /\ dead' = TRUE /\ UNCHANGED <<breaks, watching, progress>>
    <3>1. CtrlTypeOK' /\ LoopIsOpen' /\ InOrder' /\ HandlesOutliveTheirUse'
      BY <2>1, <2>2, <2>4, SMT DEF CtrlTypeOK, LoopIsOpen, InOrder, HandlesOutliveTheirUse
    <3>2. OffMeansStopped' /\ NoneBefore' /\ FirstLate'
      BY <2>1, <2>2, <2>4, SMT DEF OffMeansStopped, NoneBefore, FirstLate, Off
    <3> QED
      BY <3>1, <3>2
  <2> QED
    BY <1>7, <2>3, <2>4, Zenon DEF Watch
<1> QED
  BY <1>1, <1>2, <1>3, <1>4, <1>5, <1>6, <1>7 DEF FlagStep

LEMMA LoopStepInv ==
    ASSUME CtrlInv, NEW d \in CaptureDevices, LoopStep(d)
    PROVE  CtrlInv'
<1> USE DEF CtrlInv, enableVars, disableVars, handleVars, captureVars, Moves, Closes
(* No loop touches the flags, so only what is said of the loops is left.   *)
<1>1. UNCHANGED <<progress, starting, isEnabled, moduleOn, disabling, stopping, disables,
                  began, stopped, watching>>
  BY Zenon DEF LoopStep, StartThread, RunIt, PacketArrives, Begin, Handled, LoopEnds,
               LoopFails, Send
<1>2. OffMeansStopped' /\ NoneBefore' /\ FirstLate'
  BY <1>1, SMT DEF OffMeansStopped, NoneBefore, FirstLate, Off
<1> USE DEF CtrlTypeOK, LoopIsOpen, InOrder, HandlesOutliveTheirUse
<1>3. CASE StartThread(d)
  <2> USE <1>3 DEF StartThread
  <2>1. CtrlTypeOK'
    BY SMT
  <2>2. LoopIsOpen'
    BY SMT
  <2>3. InOrder'
    BY SMT
  <2>4. HandlesOutliveTheirUse'
    BY SMT
  <2> QED
    BY <1>2, <2>1, <2>2, <2>3, <2>4
<1>4. CASE RunIt(d)
  <2>1. /\ loop[d] = "started"
        /\ handle[d] = "open" => dead' = dead
        /\ \/ handle[d] = "open" /\ loop' = [loop EXCEPT ![d] = "loop"]
           \/ handle[d] # "open" /\ loop' = [loop EXCEPT ![d] = "over"]
        /\ dead' \in BOOLEAN
        /\ UNCHANGED <<breaks, handle, failed>>
    BY <1>4, Zenon DEF RunIt
  <2>2. CtrlTypeOK'
    BY <1>1, <2>1, SMT
  <2>3. LoopIsOpen'
    BY <1>1, <2>1, SMT
  <2>4. InOrder'
    BY <1>1, <2>1, SMT
  <2>5. HandlesOutliveTheirUse'
    <3> SUFFICES ASSUME failed = {}, progress # "returned"
                 PROVE  ~dead' /\ \A e \in CaptureDevices : handle[e] = "open"
      BY <1>1, <2>1, Zenon
    <3>1. ~dead /\ \A e \in CaptureDevices : handle[e] = "open"
      BY Zenon
    <3>2. dead' = dead
      BY <2>1, <3>1
    <3> QED
      BY <3>1, <3>2
  <2> QED
    BY <1>2, <2>2, <2>3, <2>4, <2>5
<1>5. CASE PacketArrives(d)
  <2> USE <1>5 DEF PacketArrives
  <2>1. CtrlTypeOK'
    BY SMT
  <2>2. LoopIsOpen'
    BY SMT
  <2>3. InOrder'
    BY SMT
  <2>4. HandlesOutliveTheirUse'
    BY SMT
  <2> QED
    BY <1>2, <2>1, <2>2, <2>3, <2>4
<1>6. CASE Begin(d)
  <2> USE <1>6 DEF Begin
  <2>1. CtrlTypeOK'
    BY SMT
  <2>2. LoopIsOpen'
    BY SMT
  <2>3. InOrder'
    BY SMT
  <2>4. HandlesOutliveTheirUse'
    BY SMT
  <2> QED
    BY <1>2, <2>1, <2>2, <2>3, <2>4
<1>7. CASE Handled(d)
  <2> USE <1>7 DEF Handled
  <2>1. CtrlTypeOK'
    BY SMT
  <2>2. LoopIsOpen'
    BY SMT
  <2>3. InOrder'
    BY SMT
  <2>4. HandlesOutliveTheirUse'
    BY SMT
  <2> QED
    BY <1>2, <2>1, <2>2, <2>3, <2>4
<1>8. CASE LoopEnds(d)
  <2> USE <1>8 DEF LoopEnds
  <2>1. CtrlTypeOK'
    BY SMT
  <2>2. LoopIsOpen'
    BY SMT
  <2>3. InOrder'
    BY SMT
  <2>4. HandlesOutliveTheirUse'
    BY SMT
  <2> QED
    BY <1>2, <2>1, <2>2, <2>3, <2>4
<1>9. CASE LoopFails(d)
  <2> USE <1>9 DEF LoopFails
  <2>1. CtrlTypeOK'
    BY SMT
  <2>2. LoopIsOpen'
    BY SMT
  <2>3. InOrder'
    BY SMT
  <2>4. HandlesOutliveTheirUse'
    BY SMT
  <2> QED
    BY <1>2, <2>1, <2>2, <2>3, <2>4
<1>10. CASE Send(d)
  <2> USE <1>10 DEF Send
  <2>1. CtrlTypeOK'
    BY SMT
  <2>2. LoopIsOpen'
    BY SMT
  <2>3. InOrder'
    BY SMT
  <2>4. HandlesOutliveTheirUse'
    BY SMT
  <2> QED
    BY <1>2, <2>1, <2>2, <2>3, <2>4
<1> QED
  BY <1>3, <1>4, <1>5, <1>6, <1>7, <1>8, <1>9, <1>10, Zenon DEF LoopStep

LEMMA NextCtrlInv == CtrlInv /\ [CtrlNext]_ctrlVars => CtrlInv'
<1> SUFFICES ASSUME CtrlInv, [CtrlNext]_ctrlVars PROVE CtrlInv'
  OBVIOUS
<1>1. CASE CtrlNext
  BY <1>1, Steps, FlagStepInv, LoopStepInv, Zenon
<1>2. CASE UNCHANGED ctrlVars
  BY <1>2, SMT
     DEF ctrlVars, enableVars, disableVars, handleVars, captureVars, CtrlInv, CtrlTypeOK,
         LoopIsOpen, InOrder, OffMeansStopped, NoneBefore, FirstLate, Off,
         HandlesOutliveTheirUse
<1> QED
  BY <1>1, <1>2

THEOREM Inductive == CtrlSpec => []CtrlInv
BY InitCtrlInv, NextCtrlInv, PTL DEF CtrlSpec

(* The variables of the controller keep their types; in particular only a  *)
(* loop that has been started and is not over is told to break.            *)
THEOREM TypeCorrect == CtrlSpec => []CtrlTypeOK
<1>1. CtrlInv => CtrlTypeOK
  BY DEF CtrlInv
<1> QED
  BY <1>1, Inductive, PTL

(* Enable returns and loops are told to break only after a Disable whose   *)
(* last step came when the modules were started, and a single Disable that *)
(* began then leaves no module on (RoutingController.cs:436-441, 596-606). *)
THEOREM EarlyDisablesAreLost == CtrlSpec => []EarlyDisableIsLost
<1>1. CtrlInv => EarlyDisableIsLost
  <2> SUFFICES ASSUME CtrlInv PROVE EarlyDisableIsLost
    OBVIOUS
  <2>1. progress = "returned" \/ breaks # {} => stopped
    BY DEF CtrlInv, InOrder, OffMeansStopped
  <2>2. progress = "returned" /\ began = "late" /\ disables = 1
          => \A m \in Modules : ~moduleOn[m]
    BY Zenon DEF CtrlInv, FirstLate, Off
  <2> QED
    BY <2>1, <2>2 DEF EarlyDisableIsLost
<1> QED
  BY <1>1, Inductive, PTL

(* While no adapter has failed and Enable has not returned, the handles    *)
(* are open and nothing has ended the process                              *)
(* (RoutingController.cs:422-463, Monitor.cpp:228-236).                    *)
THEOREM HandlesStayOpen == CtrlSpec => []HandlesOutliveTheirUse
<1>1. CtrlInv => HandlesOutliveTheirUse
  BY DEF CtrlInv
<1> QED
  BY <1>1, Inductive, PTL


-----------------------------------------------------------------------------
(* Addresses: the class is told by the first octet.                        *)

LEMMA ClassBits ==
  ASSUME NEW a \in SUBSET Bits
  PROVE  /\ GetClass(a) \in {"A", "B", "C", "D"}
         /\ GetClass(a) = "D" <=> 31 \in a /\ 30 \in a /\ 29 \in a
         /\ GetClass(a) = "C" <=> 31 \in a /\ 30 \in a /\ 29 \notin a
         /\ GetClass(a) = "B" <=> 31 \in a /\ 30 \notin a
<1>1. 29 .. 31 = {29, 30, 31} /\ 30 .. 31 = {30, 31}
  OBVIOUS
<1>2. 29 .. 31 \subseteq a <=> 31 \in a /\ 30 \in a /\ 29 \in a
  BY <1>1
<1>3. 30 .. 31 \subseteq a <=> 31 \in a /\ 30 \in a
  BY <1>1
<1>4. QED
  BY <1>2, <1>3 DEF GetClass

LEMMA FirstOctetTellsClass ==
  ASSUME NEW a \in SUBSET Bits, NEW b \in SUBSET Bits,
         GetNetwork(a, NetworkAMask) = GetNetwork(b, NetworkAMask)
  PROVE  GetClass(a) = GetClass(b)
<1>1. 31 \in NetworkAMask /\ 30 \in NetworkAMask /\ 29 \in NetworkAMask
  BY DEF NetworkAMask
<1>2. \A x \in {29, 30, 31} : x \in a <=> x \in b
  BY <1>1 DEF GetNetwork
<1>3. QED
  BY <1>2, ClassBits

LEMMA Masks ==
  ASSUME NEW a \in SUBSET Bits, GetClass(a) # "D"
  PROVE  /\ NetworkAMask \subseteq OwnClassMask(a) /\ OwnClassMask(a) \subseteq Bits
         /\ OwnClassMask(a) = CASE GetClass(a) = "A" -> NetworkAMask
                                [] GetClass(a) = "B" -> NetworkBMask
                                [] GetClass(a) = "C" -> NetworkCMask
<1>1. GetClass(a) \in {"A", "B", "C"}
  BY ClassBits
<1>2. /\ NetworkAMask \subseteq NetworkBMask /\ NetworkBMask \subseteq NetworkCMask
      /\ NetworkCMask \subseteq Bits
  BY DEF NetworkAMask, NetworkBMask, NetworkCMask, Bits
<1>3. QED
  BY <1>1, <1>2 DEF OwnClassMask

LEMMA ClassAddress ==
  ASSUME NEW n \in SUBSET Bits
  PROVE  /\ GetClassAddress(n) = FirstOctet(n)
         /\ FirstOctet(n) \subseteq NetworkAMask /\ FirstOctet(n) \in SUBSET Bits
         /\ GetClass(FirstOctet(n)) # "D"
<1>1. NetworkAMask \subseteq Bits /\ n \cap NetworkAMask \in SUBSET Bits /\ {} \in SUBSET Bits
  BY DEF NetworkAMask, Bits
<1>2. CASE GetClass(n) = "D"
  <2>1. GetClassAddress(n) = {} /\ FirstOctet(n) = {}
    BY <1>2 DEF GetClassAddress, GetClassMask, GetNetwork, FirstOctet
  <2>2. QED
    BY <1>1, <2>1, ClassBits
<1>3. CASE GetClass(n) # "D"
  <2>1. GetClassAddress(n) = n \cap NetworkAMask /\ FirstOctet(n) = n \cap NetworkAMask
    BY <1>3 DEF GetClassAddress, GetClassMask, GetNetwork, FirstOctet
  <2>2. GetNetwork(n \cap NetworkAMask, NetworkAMask) = GetNetwork(n, NetworkAMask)
    BY DEF GetNetwork
  <2>3. GetClass(n \cap NetworkAMask) = GetClass(n)
    BY <1>1, <2>2, FirstOctetTellsClass
  <2>4. QED
    BY <1>1, <1>3, <2>1, <2>3
<1>4. QED
  BY <1>2, <1>3

\* The two sets of masks together: what a network of the RIP section reaches.
LEMMA ClassServes ==
  ASSUME NEW a \in SUBSET Bits, NEW n \in SUBSET Bits
  PROVE  IsSameNetwork(a, GetClassAddress(n), OwnClassMask(GetClassAddress(n)))
           <=> /\ GetClass(a) \in {"A", "B", "C"} /\ Classful(a) \subseteq NetworkAMask
               /\ GetNetwork(a, NetworkAMask) = FirstOctet(n)
<1> DEFINE x == FirstOctet(n)
           m == OwnClassMask(x)
<1>1. /\ GetClassAddress(n) = x /\ x \subseteq NetworkAMask /\ x \in SUBSET Bits
      /\ GetClass(x) # "D"
  BY ClassAddress
<1>2. NetworkAMask \subseteq m /\ m \subseteq Bits
  BY <1>1, Masks
<1>3. ASSUME GetNetwork(a, NetworkAMask) = x
      PROVE  GetClass(a) = GetClass(x) /\ OwnClassMask(a) = m
  <2>1. GetNetwork(x, NetworkAMask) = x
    BY <1>1 DEF GetNetwork
  <2>2. GetClass(a) = GetClass(x)
    BY <1>1, <1>3, <2>1, FirstOctetTellsClass
  <2>3. QED
    BY <2>2 DEF OwnClassMask
<1>4. ASSUME IsSameNetwork(a, x, m)
      PROVE  /\ GetClass(a) \in {"A", "B", "C"} /\ Classful(a) \subseteq NetworkAMask
             /\ GetNetwork(a, NetworkAMask) = x
  <2>1. a \cap m = x
    BY <1>1, <1>2, <1>4 DEF IsSameNetwork, GetNetwork
  <2>2. GetNetwork(a, NetworkAMask) = x
    BY <1>1, <1>2, <2>1 DEF GetNetwork
  <2>3. GetClass(a) \in {"A", "B", "C"} /\ OwnClassMask(a) = m
    BY <1>1, <1>3, <2>2, ClassBits
  <2>4. QED
    BY <1>1, <2>1, <2>2, <2>3 DEF Classful, GetNetwork
<1>5. ASSUME Classful(a) \subseteq NetworkAMask, GetNetwork(a, NetworkAMask) = x
      PROVE  IsSameNetwork(a, x, m)
  <2>1. a \cap m \subseteq NetworkAMask
    BY <1>3, <1>5 DEF Classful, GetNetwork
  <2>2. a \cap m = x
    BY <1>2, <1>5, <2>1 DEF GetNetwork
  <2>3. QED
    BY <1>1, <1>2, <2>2 DEF IsSameNetwork, GetNetwork
<1> HIDE DEF x, m
<1>6. QED
  BY <1>1, <1>4, <1>5 DEF x, m

-----------------------------------------------------------------------------
(* Numbers: what the dictionary of the bridge numbers and what the walk    *)
(* down the list of pcap comes to.                                         *)

LEMMA SetupFields ==
  ASSUME setup \in Setups
  PROVE  /\ setup.pcap \in Seq([id : Ids, described : BOOLEAN])
         /\ setup.adapters \in Seq([id : Ids, addresses : Seq(IPConfiguration) \ {<<>>}])
         /\ setup.interfaces \in Seq([id : Ids, ipMtu : Nat, isDisabled : BOOLEAN,
                                      inBraces : BOOLEAN])
         /\ setup.loopbacks \in Seq([id : Ids, primary : IPConfiguration,
                                     secondaries : SUBSET IPConfiguration])
         /\ setup.rip \in Seq(SUBSET Bits)
         /\ setup.networks \in Seq([network : SUBSET Bits, wildcard : SUBSET Bits, area : Nat])
         /\ \A i, j \in DOMAIN setup.pcap : setup.pcap[i].id = setup.pcap[j].id => i = j
<1>1. setup \in SetupType
  BY StartupAssumption
<1>2. NamesDiffer(setup.pcap)
  BY NamedOnce
<1>3. QED
  BY <1>1, <1>2 DEF SetupType, NamesDiffer

LEMMA IntervalSize ==
  ASSUME NEW i \in Nat, i > 0
  PROVE  IsFiniteSet(1 .. i - 1) /\ Cardinality(1 .. i - 1) = i - 1
<1>1. 1 \in Int /\ i - 1 \in Int
  OBVIOUS
<1>2. IsFiniteSet(1 .. i - 1) /\ Cardinality(1 .. i - 1) = IF 1 > i - 1 THEN 0 ELSE i - 1 - 1 + 1
  BY <1>1, FS_Interval
<1>3. QED
  BY <1>2

\* An adapter has one entry at most, and its number is less than its place.
LEMMA OneEntry ==
  ASSUME setup \in Setups, NEW id, NEW i \in Entries(id)
  PROVE  /\ Entries(id) = {i} /\ Index(id) = Number(i)
         /\ i \in DOMAIN setup.pcap /\ Number(i) \in Nat /\ Number(i) <= i - 1
<1>1. DOMAIN setup.pcap = 1 .. Len(setup.pcap) /\ Len(setup.pcap) \in Nat
  BY SetupFields
<1>2. Entries(id) = {i} /\ i \in DOMAIN setup.pcap
  BY SetupFields DEF Entries, Described
<1>3. Index(id) = Number(i)
  <2>1. (CHOOSE k \in {i} : \A j \in {i} : k <= j) = i
    BY <1>1, <1>2
  <2>2. QED
    BY <1>2, <2>1 DEF Index
<1> DEFINE before == {j \in Described : j < i}
<1>4. before \subseteq 1 .. i - 1 /\ i \in Nat /\ i > 0
  BY <1>1, <1>2 DEF Described
<1>5. IsFiniteSet(1 .. i - 1) /\ Cardinality(1 .. i - 1) = i - 1
  BY <1>4, IntervalSize
<1>6. IsFiniteSet(before) /\ Cardinality(before) <= Cardinality(1 .. i - 1)
  BY <1>4, <1>5, FS_Subset
<1>7. Cardinality(before) \in Nat
  BY <1>6, FS_CardinalityType
<1>8. QED
  BY <1>2, <1>3, <1>5, <1>6, <1>7 DEF Number

\* The number of an adapter that the list of pcap describes is less than the
\* length of that list.
LEMMA IndexInList ==
  ASSUME setup \in Setups, NEW id
  PROVE  Index(id) \in Nat /\ (Index(id) > 0 => Index(id) + 1 \in DOMAIN setup.pcap)
<1>1. CASE Entries(id) = {}
  BY <1>1 DEF Index
<1>2. CASE Entries(id) # {}
  <2>1. PICK i \in Entries(id) : TRUE
    BY <1>2
  <2>2. DOMAIN setup.pcap = 1 .. Len(setup.pcap) /\ Len(setup.pcap) \in Nat
    BY SetupFields
  <2>3. QED
    BY <2>1, <2>2, OneEntry
<1>3. QED
  BY <1>1, <1>2

\* Two numbers that are given lead to two adapters.
LEMMA OpenedOnce ==
  ASSUME setup \in Setups, NEW d, NEW e, Index(d) # Index(e)
  PROVE  Opened(Index(d)) # Opened(Index(e))
<1>1. /\ Index(d) \in Nat /\ (Index(d) > 0 => Index(d) + 1 \in DOMAIN setup.pcap)
      /\ Index(e) \in Nat /\ (Index(e) > 0 => Index(e) + 1 \in DOMAIN setup.pcap)
  BY IndexInList
<1>2. DOMAIN setup.pcap = 1 .. Len(setup.pcap) /\ Len(setup.pcap) \in Nat
  BY SetupFields
<1>3. Index(d) + 1 \in DOMAIN setup.pcap /\ Index(e) + 1 \in DOMAIN setup.pcap
  BY <1>1, <1>2
<1>4. Index(d) + 1 # Index(e) + 1
  BY <1>1
<1> HIDE DEF Index
<1>5. setup.pcap[Index(d) + 1].id # setup.pcap[Index(e) + 1].id
  BY <1>3, <1>4, SetupFields
<1>6. QED
  BY <1>5 DEF Opened

\* An adapter behind none without a description has the number of its place.
LEMMA PlainIsOpened ==
  ASSUME setup \in Setups, NEW d, Plain(d)
  PROVE  Opened(Index(d)) = d
<1>1. DOMAIN setup.pcap = 1 .. Len(setup.pcap) /\ Len(setup.pcap) \in Nat
  BY SetupFields
<1>2. PICK i \in DOMAIN setup.pcap :
        setup.pcap[i].id = d /\ \A j \in 1 .. i : setup.pcap[j].described
  BY DEF Plain
<1>3. i \in Entries(d)
  BY <1>1, <1>2 DEF Entries, Described
<1>4. {j \in Described : j < i} = 1 .. i - 1
  <2>1. DOMAIN setup.pcap \subseteq Nat \ {0} /\ i \in 1 .. Len(setup.pcap)
    BY <1>1, <1>2
  <2>2. i \in Nat /\ \A j \in 1 .. i - 1 : j \in DOMAIN setup.pcap /\ j < i
    BY <1>1, <2>1
  <2>3. \A j \in 1 .. i - 1 : j \in Described
    BY <1>2, <2>2 DEF Described
  <2>4. \A j \in Described : j \in Nat \ {0}
    BY <2>1 DEF Described
  <2>5. QED
    BY <2>2, <2>3, <2>4
<1>5. Cardinality(1 .. i - 1) = i - 1
  BY <1>1, <1>2, IntervalSize
<1>6. Index(d) = i - 1
  BY <1>3, <1>4, <1>5, OneEntry DEF Number
<1>7. QED
  BY <1>1, <1>2, <1>6 DEF Opened

-----------------------------------------------------------------------------
(* The inductive invariant: what each loop has made when the next begins,  *)
(* and how far the one that runs has come.                                 *)

SettingUp == enabling \in {"adapters", "interfaces", "loopbacks"}

DeviceRecord ==
  [number : Nat, primary : IPConfiguration, secondaries : SUBSET IPConfiguration,
   isLoopback : BOOLEAN, isEnabled : BOOLEAN]

\* Every device that is no loopback has the number of its adapter.
DevicesInv ==
  /\ setup \in Setups
  /\ enabling \in Phases /\ position \in Nat \ {0}
  /\ enabling = "monitors" => position = 1
  /\ devices \in [DOMAIN devices -> DeviceRecord]
  /\ \A d \in DOMAIN devices : ~devices[d].isLoopback => devices[d].number = Index(d)

\* CallbackArray tells the device of each number, and that is how it is known
\* that no number is given twice.
MonitorsInv ==
  /\ SettingUp => DOMAIN monitors = {}
  /\ \A d \in DOMAIN monitors :
       /\ d \in DOMAIN devices /\ ~devices[d].isLoopback
       /\ Index(d) \in DOMAIN callbacks /\ callbacks[Index(d)] = d
       /\ monitors[d].adapter = Opened(Index(d))

\* The interfaces that the networks of the RIP section before the i-th reach.
ServedBy(d, i) ==
  LET a == devices[d].primary.address
  IN  /\ GetClass(a) \in {"A", "B", "C"} /\ Classful(a) \subseteq NetworkAMask
      /\ GetNetwork(a, NetworkAMask) = FirstOctet(setup.rip[i])

RipInv ==
  /\ SettingUp \/ enabling = "monitors" => ripActive = {}
  /\ ripActive = DOMAIN catalog
  /\ enabling = "rip" =>
       ripActive = {d \in DOMAIN devices :
                      \E i \in DOMAIN setup.rip : i < position /\ ServedBy(d, i)}
  /\ enabling \in {"ospf", "areas", "running"} => ripActive = {d \in DOMAIN devices : Served(d)}
  /\ \A d \in ripActive : d \in DOMAIN devices /\ Network(devices[d].primary) \in catalog[d]

\* The interfaces that are chosen are in a network, and wait for their area.
ChosenBefore(i) ==
  {d \in DOMAIN devices : \E j \in DOMAIN setup.networks : j < i /\ d \in Chosen(j)}
EverChosen == {d \in DOMAIN devices : \E j \in DOMAIN setup.networks : d \in Chosen(j)}

AreasInv ==
  /\ SettingUp \/ enabling \in {"monitors", "rip"} => chosen = {}
  /\ SettingUp \/ enabling \in {"monitors", "rip", "ospf"} => DOMAIN areaOf = {}
  /\ enabling = "ospf" => chosen = ChosenBefore(position)
  /\ enabling = "areas" => chosen \cup DOMAIN areaOf = EverChosen
  /\ enabling = "running" => DOMAIN areaOf = EverChosen
  /\ \A d \in DOMAIN areaOf :
       /\ d \in DOMAIN devices /\ devices[d].isEnabled
       /\ \E i \in DOMAIN setup.networks : InAreaOf(d, i)

StartInv == DevicesInv /\ MonitorsInv /\ RipInv /\ AreasInv

-----------------------------------------------------------------------------
(* What the operators depend on.                                           *)

LEMMA SameNumbers ==
  ASSUME setup' = setup
  PROVE  \A d : Index(d)' = Index(d) /\ \A n : Opened(n)' = Opened(n)
BY DEF Index, Opened, Entries, Described, Number

LEMMA SameDevices ==
  ASSUME UNCHANGED <<setup, devices>>
  PROVE  /\ \A d, i : ServedBy(d, i)' = ServedBy(d, i)
         /\ \A i : Chosen(i)' = Chosen(i)
         /\ \A d : Matching(d)' = Matching(d)
         /\ EverChosen' = EverChosen
BY DEF ServedBy, Chosen, Matching, EverChosen, InterfacesIn, Command, Mask

LEMMA ServedByOne ==
  \A d : Served(d) <=> \E i \in DOMAIN setup.rip : ServedBy(d, i)
BY DEF Served, ServedBy

-----------------------------------------------------------------------------
(* The devices.                                                            *)

LEMMA DevicesInit == StartInit => DevicesInv
<1>1. Nowhere \in [{} -> DeviceRecord] /\ DOMAIN Nowhere = {}
  BY DEF Nowhere
<1>2. QED
  BY <1>1 DEF StartInit, DevicesInv, Phases

LEMMA Listed ==
  ASSUME NEW S, NEW list \in Seq(S), NEW i \in DOMAIN list
  PROVE  list[i] \in S
OBVIOUS

\* One more device, of which the record is right.
LEMMA OneMoreDevice ==
  ASSUME DevicesInv, NEW id, NEW r \in DeviceRecord,
         ~r.isLoopback => r.number = Index(id)
  PROVE  /\ Add(devices, id, r) \in [DOMAIN Add(devices, id, r) -> DeviceRecord]
         /\ \A d \in DOMAIN Add(devices, id, r) :
              ~Add(devices, id, r)[d].isLoopback => Add(devices, id, r)[d].number = Index(d)
<1> DEFINE more == Add(devices, id, r)
<1>1. /\ DOMAIN more = DOMAIN devices \cup {id}
      /\ \A d \in DOMAIN devices : more[d] = devices[d]
      /\ id \notin DOMAIN devices => more[id] = r
      /\ more = [d \in DOMAIN more |-> more[d]]
  BY DEF Add
<1>2. /\ devices \in [DOMAIN devices -> DeviceRecord]
      /\ \A d \in DOMAIN devices : ~devices[d].isLoopback => devices[d].number = Index(d)
  BY DEF DevicesInv
<1> HIDE DEF more
<1>3. \A d \in DOMAIN more :
        more[d] \in DeviceRecord /\ (~more[d].isLoopback => more[d].number = Index(d))
  BY <1>1, <1>2
<1>4. QED
  BY <1>1, <1>3 DEF more

LEMMA DevicesStep ==
  ASSUME DevicesInv, [StartNext]_startVars
  PROVE  DevicesInv'
<1> USE DEF DevicesInv
<1>1. setup' = setup
  BY DEF StartNext, startVars, ripVars, areaVars, lsdbVars, SetupAdapter, SetupInterface,
         SetupLoopback, Initialize, SetupRipNetwork, SetupOspfNetwork, CreateInterface,
         InitializeOspf, NextPhase
<1>2. setup \in Setups /\ \A d : Index(d)' = Index(d)
  BY <1>1, SameNumbers
<1>3. CASE SetupAdapter
  <2> DEFINE a == setup.adapters[position]
  <2>1. enabling' \in Phases /\ position' \in Nat \ {0} /\ enabling' # "monitors"
    BY <1>3 DEF SetupAdapter, Walks, Stays
  <2>2. CASE a.id \notin Configured
    BY <1>1, <1>2, <1>3, <2>1, <2>2 DEF SetupAdapter
  <2>3. CASE a.id \in Configured
    <3> DEFINE r == [number |-> Index(a.id), primary |-> PrimaryAddress(a),
                     secondaries |-> Secondaries(a), isLoopback |-> FALSE,
                     isEnabled |-> FALSE]
    <3>1. devices' = Add(devices, a.id, r)
      BY <1>3, <2>3 DEF SetupAdapter
    <3>2. a.addresses \in Seq(IPConfiguration) /\ a.addresses # <<>>
      <4>1. position \in DOMAIN setup.adapters
        BY <1>3 DEF SetupAdapter, Walks
      <4>2. a \in [id : Ids, addresses : Seq(IPConfiguration) \ {<<>>}]
        <5>1. PICK S : S = [id : Ids, addresses : Seq(IPConfiguration) \ {<<>>}]
          OBVIOUS
        <5>2. setup.adapters \in Seq(S)
          BY <1>2, <5>1, SetupFields, Zenon
        <5>3. a \in S
          BY <4>1, <5>2, Listed
        <5>4. QED
          BY <5>1, <5>3
      <4> HIDE DEF a
      <4>3. a.addresses \in Seq(IPConfiguration) \ {<<>>}
        BY <4>2
      <4>4. QED
        BY <4>3
    <3>3. PrimaryAddress(a) \in IPConfiguration /\ Secondaries(a) \in SUBSET IPConfiguration
      <4>1. Len(a.addresses) \in Nat /\ DOMAIN a.addresses = 1 .. Len(a.addresses)
            /\ Len(a.addresses) # 0
        BY <3>2
      <4>2. \A i \in 1 .. Len(a.addresses) : a.addresses[i] \in IPConfiguration
        BY <3>2, <4>1
      <4>3. PrimaryAddress(a) = a.addresses[1]
        BY <3>2 DEF PrimaryAddress
      <4>4. QED
        BY <4>1, <4>2, <4>3 DEF Secondaries
    <3>4. r \in DeviceRecord /\ (~r.isLoopback => r.number = Index(a.id))
      BY <1>2, <3>3, IndexInList DEF DeviceRecord
    <3> HIDE DEF r
    <3>5. QED
      BY <1>1, <1>2, <2>1, <3>1, <3>4, OneMoreDevice
  <2>4. QED
    BY <2>2, <2>3
<1>4. CASE SetupLoopback
  <2> DEFINE a == setup.loopbacks[position]
             r == [number |-> 0, primary |-> a.primary, secondaries |-> a.secondaries,
                   isLoopback |-> TRUE, isEnabled |-> TRUE]
  <2>1. enabling' \in Phases /\ position' \in Nat \ {0} /\ enabling' # "monitors"
    BY <1>4 DEF SetupLoopback, Walks, Stays
  <2>2. devices' = Add(devices, a.id, r)
    BY <1>4 DEF SetupLoopback
  <2>3. a.primary \in IPConfiguration /\ a.secondaries \in SUBSET IPConfiguration
    <3>1. position \in DOMAIN setup.loopbacks
      BY <1>4 DEF SetupLoopback, Walks
    <3>2. a \in [id : Ids, primary : IPConfiguration, secondaries : SUBSET IPConfiguration]
      BY <1>2, <3>1, SetupFields, Listed
    <3>3. QED
      BY <3>2
  <2>4. r \in DeviceRecord /\ r.isLoopback
    BY <2>3 DEF DeviceRecord
  <2> HIDE DEF r
  <2>5. QED
    BY <1>1, <1>2, <2>1, <2>2, <2>4, OneMoreDevice
<1>5. CASE SetupInterface
  <2> DEFINE e == setup.interfaces[position]
  <2>1. enabling' \in Phases /\ position' \in Nat \ {0} /\ enabling' # "monitors"
    BY <1>5 DEF SetupInterface, Walks, Stays, StartThrows, Phases
  <2>2. CASE devices' = devices
    BY <1>1, <1>2, <2>1, <2>2
  <2>3. CASE devices' = [devices EXCEPT ![e.id].isEnabled = ~e.isDisabled]
    <3>1. \A d \in DOMAIN devices :
            /\ devices'[d] \in DeviceRecord
            /\ devices'[d].number = devices[d].number
            /\ devices'[d].isLoopback = devices[d].isLoopback
      <4>1. SUFFICES ASSUME NEW d \in DOMAIN devices
                     PROVE  /\ devices'[d] \in DeviceRecord
                            /\ devices'[d].number = devices[d].number
                            /\ devices'[d].isLoopback = devices[d].isLoopback
        OBVIOUS
      <4>2. devices[d] \in DeviceRecord
        BY <4>1
      <4>3. devices'[d] \in {devices[d], [devices[d] EXCEPT !.isEnabled = ~e.isDisabled]}
        BY <2>3, <4>1
      <4>4. (~e.isDisabled) \in BOOLEAN
        OBVIOUS
      <4> HIDE DEF e
      <4>5. QED
        BY <4>2, <4>3, <4>4 DEF DeviceRecord
    <3>2. DOMAIN devices' = DOMAIN devices /\ devices' = [d \in DOMAIN devices |-> devices'[d]]
      BY <2>3
    <3>3. QED
      BY <1>1, <1>2, <2>1, <3>1, <3>2
  <2>4. QED
    BY <1>5, <2>2, <2>3 DEF SetupInterface
<1>6. CASE NextPhase
  <2>1. devices' = devices
    BY <1>6 DEF NextPhase
  <2>2. /\ enabling' \in Phases /\ position' \in Nat \ {0}
        /\ enabling' = "monitors" => position' = 1
    BY <1>6 DEF NextPhase, Leaves, Phases
  <2>3. QED
    BY <1>1, <1>2, <2>1, <2>2
<1>7. CASE \E d \in DOMAIN devices : Initialize(d)
  BY <1>1, <1>2, <1>7 DEF Initialize, Stays, StartThrows, Phases
<1>8. CASE SetupRipNetwork
  BY <1>1, <1>2, <1>8 DEF SetupRipNetwork, Walks, Stays
<1>9. CASE SetupOspfNetwork
  BY <1>1, <1>2, <1>9 DEF SetupOspfNetwork, Walks, Stays, StartThrows, Phases
<1>10. CASE \E d \in chosen : CreateInterface(d)
  BY <1>1, <1>2, <1>10 DEF CreateInterface
<1>11. CASE InitializeOspf
  BY <1>1, <1>2, <1>11 DEF InitializeOspf, Phases
<1>12. CASE UNCHANGED startVars
  BY <1>1, <1>2, <1>12 DEF startVars
<1>13. QED
  BY <1>3, <1>4, <1>5, <1>6, <1>7, <1>8, <1>9, <1>10, <1>11, <1>12 DEF StartNext

-----------------------------------------------------------------------------
(* What a step can touch.                                                  *)

LEMMA WhileSettingUp ==
  ASSUME [StartNext]_startVars, SettingUp
  PROVE  UNCHANGED <<setup, callbacks, monitors, ripVars, areaVars>>
<1>1. enabling \notin {"monitors", "rip", "ospf", "areas"}
  BY DEF SettingUp
<1>2. QED
  BY <1>1 DEF StartNext, startVars, ripVars, areaVars, lsdbVars, SetupAdapter, SetupInterface,
     SetupLoopback, Initialize, SetupRipNetwork, SetupOspfNetwork, CreateInterface,
     InitializeOspf, NextPhase, Walks

LEMMA OnceSetUp ==
  ASSUME [StartNext]_startVars, ~SettingUp
  PROVE  UNCHANGED <<setup, devices>> /\ ~SettingUp'
<1> USE DEF SettingUp
<1>1. CASE NextPhase
  BY <1>1 DEF NextPhase, Leaves
<1>2. CASE (\E d \in DOMAIN devices : Initialize(d)) \/ SetupRipNetwork \/ SetupOspfNetwork
  BY <1>2 DEF Initialize, SetupRipNetwork, SetupOspfNetwork, Walks, Stays, StartThrows
<1>3. CASE (\E d \in chosen : CreateInterface(d)) \/ InitializeOspf \/ UNCHANGED startVars
  BY <1>3 DEF CreateInterface, InitializeOspf, startVars
<1>4. CASE SetupAdapter \/ SetupInterface \/ SetupLoopback
  BY <1>4 DEF SetupAdapter, SetupInterface, SetupLoopback, Walks
<1>5. QED
  BY <1>1, <1>2, <1>3, <1>4 DEF StartNext

\* Once the devices are set up, each part is the work of one loop.
LEMMA OneLoopEach ==
  ASSUME [StartNext]_startVars, ~SettingUp
  PROVE  /\ (\E d \in DOMAIN devices : Initialize(d)) \/ UNCHANGED <<callbacks, monitors>>
         /\ SetupRipNetwork \/ UNCHANGED ripVars
         /\ \/ SetupOspfNetwork \/ \E d \in chosen : CreateInterface(d)
            \/ UNCHANGED <<chosen, areaOf>>
BY DEF SettingUp, StartNext, startVars, ripVars, areaVars, SetupAdapter, SetupInterface,
       SetupLoopback, Initialize, SetupRipNetwork, SetupOspfNetwork, CreateInterface,
       InitializeOspf, NextPhase, Walks

-----------------------------------------------------------------------------
(* The monitors.                                                           *)

LEMMA MonitorsInit == StartInit => MonitorsInv
BY DEF StartInit, MonitorsInv, Nowhere

LEMMA MonitorsStep ==
  ASSUME DevicesInv, MonitorsInv, [StartNext]_startVars
  PROVE  MonitorsInv'
<1> USE DEF MonitorsInv
<1>1. CASE SettingUp
  <2>1. DOMAIN monitors' = {}
    BY <1>1, WhileSettingUp
  <2>2. QED
    BY <2>1
<1>2. CASE ~SettingUp
  <2>1. UNCHANGED <<setup, devices>> /\ ~SettingUp'
    BY <1>2, OnceSetUp
  <2>2. \A d : Index(d)' = Index(d) /\ \A n : Opened(n)' = Opened(n)
    BY <2>1, SameNumbers
  <2>3. CASE UNCHANGED <<callbacks, monitors>>
    BY <2>1, <2>2, <2>3
  <2>4. ASSUME NEW d \in DOMAIN devices, Initialize(d)
        PROVE  MonitorsInv'
    <3>1. d \notin DOMAIN monitors /\ ~devices[d].isLoopback
      BY <2>4 DEF Initialize, Unmonitored
    <3>2. devices[d].number = Index(d)
      BY <3>1 DEF DevicesInv
    <3>3. CASE UNCHANGED <<callbacks, monitors>>
      BY <2>1, <2>2, <3>3
    <3>4. CASE ~UNCHANGED <<callbacks, monitors>>
      <4>1. Index(d) \notin DOMAIN callbacks /\ callbacks' = Add(callbacks, Index(d), d)
        BY <2>4, <3>2, <3>4 DEF Initialize
      <4>2. PICK h : monitors' = Add(monitors, d, [adapter |-> Opened(Index(d)), handle |-> h])
        BY <2>4, <3>2, <3>4 DEF Initialize
      <4>3. /\ DOMAIN callbacks' = DOMAIN callbacks \cup {Index(d)}
            /\ \A n \in DOMAIN callbacks : callbacks'[n] = callbacks[n]
            /\ callbacks'[Index(d)] = d
        BY <4>1 DEF Add
      <4>4. /\ DOMAIN monitors' = DOMAIN monitors \cup {d}
            /\ \A e \in DOMAIN monitors : monitors'[e] = monitors[e]
            /\ monitors'[d].adapter = Opened(Index(d))
        BY <3>1, <4>2 DEF Add
      <4>5. QED
        BY <2>1, <2>2, <3>1, <4>3, <4>4
    <3>5. QED
      BY <3>3, <3>4
  <2>5. QED
    BY <1>2, <2>3, <2>4, OneLoopEach
<1>3. QED
  BY <1>1, <1>2

-----------------------------------------------------------------------------
(* The interfaces of RIP.                                                  *)

LEMMA RipInit == StartInit => RipInv
BY DEF StartInit, RipInv, Nowhere, SettingUp

\* What GetInterfaceListForAddress finds for the i-th network, and that it
\* finds it by the masks of RipModule as well.
LEMMA FoundForNetwork ==
  ASSUME DevicesInv, NEW i \in DOMAIN setup.rip
  PROVE  LET network == setup.rip[i]
             list == InterfacesInClass(GetClassAddress(network))
         IN  /\ list = {d \in DOMAIN devices : ServedBy(d, i)}
             /\ \A d \in list : IsSameNetwork(devices[d].primary.address, network,
                                              GetClassMask(network))
<1> DEFINE network == setup.rip[i]
           x == GetClassAddress(network)
           list == InterfacesInClass(x)
<1>1. network \in SUBSET Bits
  <2>1. setup.rip \in Seq(SUBSET Bits)
    BY SetupFields DEF DevicesInv
  <2>2. QED
    BY <2>1, Listed
<1>2. x \in SUBSET Bits /\ GetClass(x) # "D" /\ x = FirstOctet(network)
  BY <1>1, ClassAddress
<1>3. \A d \in DOMAIN devices : devices[d].primary.address \in SUBSET Bits
  BY DEF DevicesInv, DeviceRecord, IPConfiguration
<1>4. list = {d \in DOMAIN devices :
                IsSameNetwork(devices[d].primary.address, x, OwnClassMask(x))}
  BY <1>2, Masks DEF InterfacesInClass, InterfacesIn
<1>5. list = {d \in DOMAIN devices : ServedBy(d, i)}
  <2>1. \A d \in DOMAIN devices :
          IsSameNetwork(devices[d].primary.address, x, OwnClassMask(x)) <=> ServedBy(d, i)
    BY <1>1, <1>3, ClassServes DEF ServedBy
  <2>2. QED
    BY <1>4, <2>1
<1>6. \A d \in DOMAIN devices :
        ServedBy(d, i) => IsSameNetwork(devices[d].primary.address, network,
                                        GetClassMask(network))
  <2>1. SUFFICES ASSUME NEW d \in DOMAIN devices, ServedBy(d, i)
                 PROVE  IsSameNetwork(devices[d].primary.address, network,
                                      GetClassMask(network))
    OBVIOUS
  <2>2. GetNetwork(devices[d].primary.address, NetworkAMask) = FirstOctet(network)
    BY <2>1 DEF ServedBy
  <2>3. CASE GetClass(network) = "D"
    BY <2>3 DEF IsSameNetwork, GetNetwork, GetClassMask
  <2>4. CASE GetClass(network) # "D"
    BY <2>2, <2>4 DEF IsSameNetwork, GetClassMask, FirstOctet
  <2>5. QED
    BY <2>3, <2>4
<1>7. QED
  BY <1>5, <1>6

LEMMA RipStep ==
  ASSUME DevicesInv, RipInv, [StartNext]_startVars
  PROVE  RipInv'
<1> USE DEF RipInv
<1>1. CASE SettingUp
  <2>1. ripActive' = ripActive /\ catalog' = catalog /\ ripActive = {}
    BY <1>1, WhileSettingUp DEF ripVars
  <2>2. enabling' \notin {"rip", "ospf", "areas", "running"}
    BY <1>1 DEF SettingUp, StartNext, startVars, SetupAdapter, SetupInterface, SetupLoopback,
       Initialize, SetupRipNetwork, SetupOspfNetwork, CreateInterface, InitializeOspf,
       NextPhase, Leaves, Walks, Stays, StartThrows
  <2>3. QED
    BY <2>1, <2>2
<1>2. CASE ~SettingUp
  <2>1. UNCHANGED <<setup, devices>> /\ ~SettingUp'
    BY <1>2, OnceSetUp
  <2>2. \A d, i : ServedBy(d, i)' = ServedBy(d, i)
    BY <2>1, SameDevices
  <2>3. \A d : Served(d)' = Served(d)
    BY <2>1 DEF Served
  <2>4. CASE ~SetupRipNetwork
    <3>1. ripActive' = ripActive /\ catalog' = catalog
      BY <1>2, <2>4, OneLoopEach DEF ripVars
    <3>2. \A d \in ripActive' :
            d \in DOMAIN devices' /\ Network(devices'[d].primary) \in catalog'[d]
      BY <2>1, <3>1
    <3>3. CASE NextPhase
      <4>1. CASE enabling = "monitors"
        <5>1. enabling' = "rip" /\ position' = 1
          BY <3>3, <4>1 DEF NextPhase, Leaves, DevicesInv
        <5>2. \A i \in DOMAIN setup.rip : ~(i < 1)
          <6>1. setup.rip \in Seq(SUBSET Bits)
            BY SetupFields DEF DevicesInv
          <6>2. QED
            BY <6>1
        <5>3. QED
          BY <2>1, <3>1, <3>2, <4>1, <5>1, <5>2
      <4>2. CASE enabling = "rip"
        <5>1. enabling' = "ospf" /\ position = Len(setup.rip) + 1
          BY <3>3, <4>2 DEF NextPhase, Leaves
        <5>2. \A i \in DOMAIN setup.rip : i < position
          <6>1. setup.rip \in Seq(SUBSET Bits)
            BY SetupFields DEF DevicesInv
          <6>2. QED
            BY <5>1, <6>1
        <5>3. ripActive = {d \in DOMAIN devices : Served(d)}
          BY <4>2, <5>2, ServedByOne
        <5>4. QED
          BY <2>1, <2>3, <3>1, <3>2, <5>1, <5>3
      <4>3. CASE enabling = "ospf"
        <5>1. enabling' = "areas"
          BY <3>3, <4>3 DEF NextPhase, Leaves
        <5>2. QED
          BY <2>1, <2>3, <3>1, <3>2, <4>3, <5>1
      <4>4. QED
        BY <1>2, <3>3, <4>1, <4>2, <4>3 DEF NextPhase, Leaves, SettingUp
    <3>4. CASE ~NextPhase
      <4>1. \/ enabling' = enabling /\ (enabling = "rip" => position' = position)
            \/ enabling' = "thrown"
            \/ enabling = "areas" /\ enabling' = "running"
        <5>1. CASE (\E d \in DOMAIN devices : Initialize(d)) \/ SetupOspfNetwork
          BY <5>1 DEF Initialize, SetupOspfNetwork, Walks, Stays, StartThrows
        <5>2. CASE (\E d \in chosen : CreateInterface(d)) \/ InitializeOspf \/ UNCHANGED startVars
          BY <5>2 DEF CreateInterface, InitializeOspf, startVars
        <5>3. CASE SetupAdapter \/ SetupInterface \/ SetupLoopback
          BY <1>2, <5>3 DEF SetupAdapter, SetupInterface, SetupLoopback, Walks, SettingUp
        <5>4. QED
          BY <2>4, <3>4, <5>1, <5>2, <5>3 DEF StartNext
      <4>2. QED
        BY <2>1, <2>2, <2>3, <3>1, <3>2, <4>1
    <3>5. QED
      BY <3>3, <3>4
  <2>5. CASE SetupRipNetwork
    <3> DEFINE network == setup.rip[position]
               list == InterfacesInClass(GetClassAddress(network))
               primary(d) == Network(devices[d].primary)
    <3>1. /\ enabling = "rip" /\ enabling' = "rip"
          /\ position \in DOMAIN setup.rip /\ position' = position + 1
          /\ ripActive' = ripActive \cup list
          /\ DOMAIN catalog' = DOMAIN catalog \cup list
      BY <2>5 DEF SetupRipNetwork, Walks, Stays
    <3>2. /\ list = {d \in DOMAIN devices : ServedBy(d, position)}
          /\ \A d \in list : IsSameNetwork(devices[d].primary.address, network,
                                           GetClassMask(network))
      BY <3>1, FoundForNetwork
    <3>3. \A d \in DOMAIN catalog \cup list :
            primary(d) \in catalog'[d] \/ (d \in DOMAIN catalog /\ primary(d) \notin catalog[d])
      BY <2>5, <3>2 DEF SetupRipNetwork
    <3>4. \A i \in DOMAIN setup.rip : i < position' <=> i < position \/ i = position
      <4>1. DOMAIN setup.rip \subseteq Nat
        <5>1. setup.rip \in Seq(SUBSET Bits)
          BY SetupFields DEF DevicesInv
        <5>2. QED
          BY <5>1
      <4>2. QED
        BY <3>1, <4>1
    <3> HIDE DEF list, primary
    <3>5. ripActive' = {d \in DOMAIN devices :
                          \E i \in DOMAIN setup.rip : i < position' /\ ServedBy(d, i)}
      BY <3>1, <3>2, <3>4
    <3>6. \A d \in ripActive' : d \in DOMAIN devices /\ primary(d) \in catalog'[d]
      BY <3>1, <3>2, <3>3 DEF primary
    <3>7. QED
      BY <2>1, <2>2, <3>1, <3>5, <3>6 DEF primary
  <2>6. QED
    BY <2>4, <2>5
<1>3. QED
  BY <1>1, <1>2

-----------------------------------------------------------------------------
(* The interfaces of OSPF and their areas.                                 *)

LEMMA AreasInit == StartInit => AreasInv
BY DEF StartInit, AreasInv, Nowhere, SettingUp

\* The order of wildcards as numbers is an order by parts as well: no proper part
\* of a wildcard comes after it.
LEMMA PartsAreLess ==
  ASSUME NEW a \in SUBSET Bits, NEW b \in SUBSET Bits, a \subseteq b, a # b
  PROVE  Less(a, b)
BY DEF Less

LEMMA NetworkFields ==
  ASSUME DevicesInv
  PROVE  \A i \in DOMAIN setup.networks :
           i \in Nat /\ Command(i).network \in SUBSET Bits /\ Command(i).wildcard \in SUBSET Bits
<1>1. setup.networks \in Seq([network : SUBSET Bits, wildcard : SUBSET Bits, area : Nat])
  BY SetupFields DEF DevicesInv
<1>2. DOMAIN setup.networks \subseteq Nat
  BY <1>1
<1>3. \A i \in DOMAIN setup.networks :
        setup.networks[i] \in [network : SUBSET Bits, wildcard : SUBSET Bits, area : Nat]
  BY <1>1, Listed
<1>4. QED
  BY <1>2, <1>3 DEF Command

\* The i-th network chooses the interfaces it matches, but for those that are
\* down, and a passive setting.
LEMMA ChosenIsMatching ==
  ASSUME DevicesInv, NEW i \in DOMAIN setup.networks, NEW d
  PROVE  d \in Chosen(i) <=> /\ d \in DOMAIN devices /\ devices[d].isEnabled
                             /\ ~setup.passive /\ i \in Matching(d)
BY DEF Chosen, Matching, InterfacesIn, IsSameNetwork, GetNetwork

LEMMA AreasStep ==
  ASSUME DevicesInv, AreasInv, [StartNext]_startVars
  PROVE  AreasInv'
<1> USE DEF AreasInv
<1>1. CASE SettingUp
  <2>1. chosen' = chosen /\ areaOf' = areaOf /\ chosen = {} /\ DOMAIN areaOf = {}
    BY <1>1, WhileSettingUp DEF areaVars
  <2>2. enabling' \notin {"ospf", "areas", "running"}
    BY <1>1 DEF SettingUp, StartNext, startVars, SetupAdapter, SetupInterface, SetupLoopback,
       Initialize, SetupRipNetwork, SetupOspfNetwork, CreateInterface, InitializeOspf,
       NextPhase, Leaves, Walks, Stays, StartThrows
  <2>3. QED
    BY <2>1, <2>2
<1>2. CASE ~SettingUp
  <2>1. UNCHANGED <<setup, devices>> /\ ~SettingUp'
    BY <1>2, OnceSetUp
  <2>2. /\ \A d : Matching(d)' = Matching(d)
        /\ EverChosen' = EverChosen
        /\ \A i : Command(i)' = Command(i)
    BY <2>1, SameDevices DEF Command
  <2>3. position' = position => ChosenBefore(position)' = ChosenBefore(position)
    BY <2>1, SameDevices DEF ChosenBefore
  <2>4. areaOf' = areaOf => \A d, i : InAreaOf(d, i)' = InAreaOf(d, i)
    BY <2>2 DEF InAreaOf
  <2>5. areaOf' = areaOf =>
          \A d \in DOMAIN areaOf' :
            /\ d \in DOMAIN devices' /\ devices'[d].isEnabled
            /\ \E i \in DOMAIN setup'.networks : InAreaOf(d, i)'
    BY <2>1, <2>4
  <2>6. CASE SetupOspfNetwork
    <3>1. /\ enabling = "ospf" /\ position \in DOMAIN setup.networks /\ position' = position + 1
          /\ areaOf' = areaOf
      BY <2>6 DEF SetupOspfNetwork, Walks
    <3>2. CASE enabling' = "thrown"
      BY <2>1, <2>5, <3>1, <3>2 DEF SettingUp
    <3>3. CASE enabling' = "ospf"
      <4>1. chosen' = chosen \cup Chosen(position)
        BY <2>6, <3>3 DEF SetupOspfNetwork, StartThrows
      <4>2. \A i \in DOMAIN setup.networks : i < position' <=> i < position \/ i = position
        BY <3>1, NetworkFields
      <4>3. Chosen(position) \subseteq DOMAIN devices
        BY <3>1, ChosenIsMatching
      <4>4. ChosenBefore(position)' = chosen'
        <5>1. ChosenBefore(position)' =
                {d \in DOMAIN devices :
                   \E j \in DOMAIN setup.networks : j < position' /\ d \in Chosen(j)}
          BY <2>1, SameDevices DEF ChosenBefore
        <5>2. QED
          BY <3>1, <4>1, <4>2, <4>3, <5>1 DEF ChosenBefore
      <4>5. QED
        BY <2>1, <2>5, <3>1, <3>3, <4>4
    <3>4. QED
      BY <2>6, <3>1, <3>2, <3>3 DEF SetupOspfNetwork, StartThrows, Stays
  <2>7. CASE \E d \in chosen : CreateInterface(d)
    <3>1. PICK d \in chosen : CreateInterface(d)
      BY <2>7
    <3>2. /\ enabling = "areas" /\ enabling' = "areas" /\ chosen' = chosen \ {d}
      BY <3>1 DEF CreateInterface
    <3>3. PICK i \in Matching(d) :
            MostSpecific(i, Matching(d)) /\ areaOf' = Add(areaOf, d, Command(i).area)
      BY <3>1 DEF CreateInterface
    <3>4. /\ DOMAIN areaOf' = DOMAIN areaOf \cup {d}
          /\ \A e \in DOMAIN areaOf : areaOf'[e] = areaOf[e]
          /\ d \notin DOMAIN areaOf => areaOf'[d] = Command(i).area
      BY <3>3 DEF Add
    <3>5. chosen' \cup DOMAIN areaOf' = EverChosen
      BY <3>2, <3>4
    <3>6. d \in DOMAIN devices /\ devices[d].isEnabled
      BY <3>2, ChosenIsMatching DEF EverChosen
    <3>7. \A e \in DOMAIN areaOf' : \E j \in DOMAIN setup.networks : InAreaOf(e, j)'
      <4>1. \A e \in DOMAIN areaOf, j \in DOMAIN setup.networks :
              InAreaOf(e, j) => InAreaOf(e, j)'
        BY <2>2, <3>4 DEF InAreaOf
      <4>2. d \notin DOMAIN areaOf => InAreaOf(d, i)'
        <5>1. \A j \in Matching(d) :
                /\ Command(j).wildcard \in SUBSET Bits /\ Command(i).wildcard \in SUBSET Bits
                /\ ~Less(Command(j).wildcard, Command(i).wildcard)
          BY <3>3, NetworkFields DEF MostSpecific, Matching
        <5>2. \A j \in Matching(d) : ~(Command(j).wildcard \subseteq Command(i).wildcard
                                        /\ Command(j).wildcard # Command(i).wildcard)
          BY <5>1, PartsAreLess
        <5>3. QED
          BY <2>2, <3>3, <3>4, <5>2 DEF InAreaOf
      <4>3. i \in DOMAIN setup.networks
        BY <3>3 DEF Matching
      <4>4. QED
        BY <3>4, <4>1, <4>2, <4>3
    <3>8. QED
      BY <2>1, <2>2, <3>2, <3>4, <3>5, <3>6, <3>7
  <2>8. CASE ~SetupOspfNetwork /\ ~\E d \in chosen : CreateInterface(d)
    <3>1. chosen' = chosen /\ areaOf' = areaOf
      BY <1>2, <2>8, OneLoopEach
    <3>2. CASE NextPhase
      <4>1. CASE enabling = "rip"
        <5>1. enabling' = "ospf" /\ position' = 1
          BY <3>2, <4>1 DEF NextPhase, Leaves
        <5>2. \A i \in DOMAIN setup.networks : ~(i < 1)
          <6>1. setup.networks \in Seq([network : SUBSET Bits, wildcard : SUBSET Bits, area : Nat])
            BY SetupFields DEF DevicesInv
          <6>2. QED
            BY <6>1
        <5>3. ChosenBefore(position)' = {}
          BY <2>1, <5>1, <5>2 DEF ChosenBefore
        <5>4. QED
          BY <2>1, <2>5, <3>1, <4>1, <5>1, <5>3
      <4>2. CASE enabling = "ospf"
        <5>1. enabling' = "areas" /\ position = Len(setup.networks) + 1
          BY <3>2, <4>2 DEF NextPhase, Leaves
        <5>2. \A i \in DOMAIN setup.networks : i < position
          <6>1. setup.networks \in Seq([network : SUBSET Bits, wildcard : SUBSET Bits, area : Nat])
            BY SetupFields DEF DevicesInv
          <6>2. QED
            BY <5>1, <6>1
        <5>3. chosen = EverChosen
          BY <4>2, <5>2 DEF ChosenBefore, EverChosen
        <5>4. QED
          BY <2>1, <2>2, <2>5, <3>1, <4>2, <5>1, <5>3
      <4>3. CASE enabling = "monitors"
        <5>1. enabling' = "rip"
          BY <3>2, <4>3 DEF NextPhase, Leaves
        <5>2. QED
          BY <2>1, <2>5, <3>1, <4>3, <5>1
      <4>4. QED
        BY <1>2, <3>2, <4>1, <4>2, <4>3 DEF NextPhase, Leaves, SettingUp
    <3>3. CASE InitializeOspf
      <4>1. enabling = "areas" /\ chosen = {} /\ enabling' = "running"
        BY <3>3 DEF InitializeOspf
      <4>2. QED
        BY <2>1, <2>2, <2>5, <3>1, <4>1
    <3>4. CASE ~NextPhase /\ ~InitializeOspf
      <4>1. \/ enabling' = enabling /\ (enabling = "ospf" => position' = position)
            \/ enabling' = "thrown"
        <5>1. CASE (\E d \in DOMAIN devices : Initialize(d)) \/ SetupRipNetwork
          BY <5>1 DEF Initialize, SetupRipNetwork, Walks, Stays, StartThrows
        <5>2. CASE UNCHANGED startVars
          BY <5>2 DEF startVars
        <5>3. CASE SetupAdapter \/ SetupInterface \/ SetupLoopback
          BY <1>2, <5>3 DEF SetupAdapter, SetupInterface, SetupLoopback, Walks, SettingUp
        <5>4. QED
          BY <2>8, <3>4, <5>1, <5>2, <5>3 DEF StartNext
      <4>2. CASE enabling' = "thrown"
        BY <2>1, <2>5, <3>1, <4>2
      <4>3. CASE enabling' = enabling /\ (enabling = "ospf" => position' = position)
        BY <2>1, <2>2, <2>3, <2>5, <3>1, <4>3
      <4>4. QED
        BY <4>1, <4>2, <4>3
    <3>5. QED
      BY <3>2, <3>3, <3>4
  <2>9. QED
    BY <2>6, <2>7, <2>8
<1>3. QED
  BY <1>1, <1>2

-----------------------------------------------------------------------------
(* The theorems.                                                           *)

\* Every state of the start satisfies the inductive invariant.
THEOREM StartInvariant == StartSpec => []StartInv
<1>1. StartInit => StartInv
  BY DevicesInit, MonitorsInit, RipInit, AreasInit DEF StartInv
<1>2. StartInv /\ [StartNext]_startVars => StartInv'
  BY DevicesStep, MonitorsStep, RipStep, AreasStep DEF StartInv
<1>3. QED
  BY <1>1, <1>2, PTL DEF StartSpec

\* Which interfaces RIP serves is told by the first octets of its networks,
\* on every machine and for every configuration.
THEOREM FirstOctetsServe == StartSpec => []OnlyFirstOctetServes
<1>1. StartInv => OnlyFirstOctetServes
  BY DEF StartInv, RipInv, OnlyFirstOctetServes
<1>2. QED
  BY <1>1, StartInvariant, PTL

\* The most specific match wins, although wildcards are compared as numbers.
THEOREM SpecificWins == StartSpec => []MostSpecificWins
<1>1. ASSUME StartInv, enabling = "running", ~setup.passive
      PROVE  EverChosen = {d \in DOMAIN devices : devices[d].isEnabled /\ Matching(d) # {}}
  <2>1. \A d \in DOMAIN devices :
          (\E i \in DOMAIN setup.networks : d \in Chosen(i))
            <=> devices[d].isEnabled /\ Matching(d) # {}
    <3>1. \A d : Matching(d) \subseteq DOMAIN setup.networks
      BY DEF Matching
    <3>2. QED
      BY <1>1, <3>1, ChosenIsMatching DEF StartInv
  <2>2. QED
    BY <2>1 DEF EverChosen
<1>2. StartInv => MostSpecificWins
  BY <1>1 DEF StartInv, AreasInv, MostSpecificWins
<1>3. QED
  BY <1>2, StartInvariant, PTL

\* No adapter is opened twice, and a device whose adapter no other one without a
\* description comes before gets its own.
THEOREM OwnAdapterIsOpened == StartSpec => []OpensItsAdapter
<1>1. ASSUME StartInv
      PROVE  OpensItsAdapter
  <2>1. \A d \in DOMAIN monitors :
          callbacks[Index(d)] = d /\ monitors[d].adapter = Opened(Index(d))
    BY <1>1 DEF StartInv, MonitorsInv
  <2>2. setup \in Setups
    BY <1>1 DEF StartInv, DevicesInv
  <2>3. \A d, e \in DOMAIN monitors : d # e => Index(d) # Index(e)
    BY <2>1
  <2>4. \A d, e \in DOMAIN monitors : d # e => monitors[d].adapter # monitors[e].adapter
    BY <2>1, <2>2, <2>3, OpenedOnce
  <2>5. \A d \in DOMAIN monitors : Plain(d) => monitors[d].adapter = d
    BY <2>1, <2>2, PlainIsOpened
  <2>6. QED
    BY <2>4, <2>5 DEF OpensItsAdapter
<1>2. QED
  BY <1>1, StartInvariant, PTL

-----------------------------------------------------------------------------
(* What the script for Node.js sees.                                       *)

LEMMA NamesOfAdapters ==
  ASSUME setup \in Setups
  PROVE  /\ \A i, j \in DOMAIN setup.adapters :
              setup.adapters[i].id = setup.adapters[j].id => i = j
         /\ \A i \in DOMAIN setup.adapters, j \in DOMAIN setup.loopbacks :
              setup.adapters[i].id # setup.loopbacks[j].id
<1> DEFINE a == setup.adapters
           l == setup.loopbacks
           both == a \o l
<1>1. a \in Seq([id : Ids, addresses : Seq(IPConfiguration) \ {<<>>}])
      /\ l \in Seq([id : Ids, primary : IPConfiguration, secondaries : SUBSET IPConfiguration])
  BY SetupFields
<1>2. \A i, j \in DOMAIN both : both[i].id = both[j].id => i = j
  BY NamedOnce DEF NamesDiffer
<1> HIDE DEF a, l
<1>3. /\ DOMAIN a = 1 .. Len(a) /\ DOMAIN l = 1 .. Len(l) /\ Len(a) \in Nat /\ Len(l) \in Nat
      /\ DOMAIN both = 1 .. Len(a) + Len(l)
      /\ \A i \in 1 .. Len(a) : both[i] = a[i]
      /\ \A j \in 1 .. Len(l) : both[Len(a) + j] = l[j]
  BY <1>1
<1> HIDE DEF both
<1>4. \A i \in DOMAIN a : i \in DOMAIN both /\ both[i] = a[i]
  BY <1>3
<1>5. \A j \in DOMAIN l : Len(a) + j \in DOMAIN both /\ both[Len(a) + j] = l[j]
                          /\ \A i \in DOMAIN a : i # Len(a) + j
  BY <1>3
<1>6. QED
  BY <1>2, <1>4, <1>5 DEF a, l

\* A device with the name of an adapter has the adapter's number and address.
NamesakesInv ==
  \A i \in DOMAIN setup.adapters :
    LET a == setup.adapters[i] IN
    a.id \in DOMAIN devices => /\ devices[a.id].primary = PrimaryAddress(a)
                               /\ devices[a.id].number = Index(a.id)

LEMMA NamesakesStep ==
  ASSUME DevicesInv, NamesakesInv, [StartNext]_startVars
  PROVE  NamesakesInv'
<1> USE DEF NamesakesInv
<1>1. setup' = setup /\ setup \in Setups
  BY WhileSettingUp, OnceSetUp DEF DevicesInv
<1>2. /\ \A d : Index(d)' = Index(d)
      /\ \A a : PrimaryAddress(a)' = PrimaryAddress(a)
  BY <1>1, SameNumbers DEF PrimaryAddress
<1>3. CASE devices' = devices
  BY <1>1, <1>2, <1>3
<1>4. CASE SetupAdapter
  <2> DEFINE a == setup.adapters[position]
             r == [number |-> Index(a.id), primary |-> PrimaryAddress(a),
                   secondaries |-> Secondaries(a), isLoopback |-> FALSE, isEnabled |-> FALSE]
  <2>1. position \in DOMAIN setup.adapters /\ devices' \in {devices, Add(devices, a.id, r)}
    BY <1>4 DEF SetupAdapter, Walks
  <2>2. ASSUME devices' = Add(devices, a.id, r)
        PROVE  NamesakesInv'
    <3>1. /\ DOMAIN devices' = DOMAIN devices \cup {a.id}
          /\ \A d \in DOMAIN devices : devices'[d] = devices[d]
          /\ a.id \notin DOMAIN devices => /\ devices'[a.id].primary = PrimaryAddress(a)
                                           /\ devices'[a.id].number = Index(a.id)
      BY <2>2 DEF Add
    <3>2. \A i \in DOMAIN setup.adapters : setup.adapters[i].id = a.id => i = position
      BY <1>1, <2>1, NamesOfAdapters
    <3>3. QED
      BY <1>1, <1>2, <2>1, <3>1, <3>2
  <2>3. QED
    BY <1>3, <2>1, <2>2
<1>5. CASE SetupLoopback
  <2> DEFINE a == setup.loopbacks[position]
  <2>1. position \in DOMAIN setup.loopbacks
    BY <1>5 DEF SetupLoopback, Walks
  <2>2. /\ DOMAIN devices' = DOMAIN devices \cup {a.id}
        /\ \A d \in DOMAIN devices : devices'[d] = devices[d]
    BY <1>5 DEF SetupLoopback, Add
  <2>3. \A i \in DOMAIN setup.adapters : setup.adapters[i].id # a.id
    BY <1>1, <2>1, NamesOfAdapters
  <2>4. QED
    BY <1>1, <1>2, <2>2, <2>3
<1>6. CASE SetupInterface
  <2> DEFINE e == setup.interfaces[position]
  <2>1. \/ devices' = devices
        \/ devices' = [devices EXCEPT ![e.id].isEnabled = ~e.isDisabled]
    BY <1>6 DEF SetupInterface
  <2>2. /\ DOMAIN devices' = DOMAIN devices
        /\ \A d \in DOMAIN devices : /\ devices'[d].primary = devices[d].primary
                                     /\ devices'[d].number = devices[d].number
    BY <2>1 DEF DevicesInv, DeviceRecord
  <2>3. QED
    BY <1>1, <1>2, <2>2
<1>7. CASE ~(SetupAdapter \/ SetupLoopback \/ SetupInterface)
  <2>1. devices' = devices
    BY <1>7 DEF StartNext, startVars, Initialize, SetupRipNetwork, SetupOspfNetwork,
       CreateInterface, InitializeOspf, NextPhase
  <2>2. QED
    BY <1>3, <2>1
<1>8. QED
  BY <1>4, <1>5, <1>6, <1>7

\* "False" is true: the list of secondary addresses is empty.
LEMMA NoneIsSecondary ==
  ASSUME NEW a, a.addresses \in Seq(IPConfiguration), a.addresses # <<>>
  PROVE  /\ ScriptDevice(a).primary = {PrimaryAddress(a)}
         /\ ScriptDevice(a).secondaries = {}
<1> DEFINE list == AddressList(a)
<1>1. /\ DOMAIN list = DOMAIN a.addresses
      /\ \A i \in DOMAIN list : /\ list[i].address = a.addresses[i]
                                /\ list[i].isPrimary \in {"True", "False"}
  BY DEF AddressList, IsPrimary, BooleanText
<1>2. 1 \in DOMAIN a.addresses /\ Head(a.addresses) = a.addresses[1]
  OBVIOUS
<1>3. \A i \in DOMAIN list : Truthy(list[i].isPrimary)
  BY <1>1 DEF Truthy
<1> HIDE DEF list
<1>4. GetPrimaryIPConfiguration(list) = {PrimaryAddress(a)}
  BY <1>1, <1>2, <1>3 DEF GetPrimaryIPConfiguration, PrimaryAddress
<1>5. GetSecondaryIPConfigurationList(list) = {}
  BY <1>3 DEF GetSecondaryIPConfigurationList
<1>6. QED
  BY <1>4, <1>5 DEF ScriptDevice, list

\* The script takes the number from the same list, and -1 where Startup takes 0.
LEMMA ScriptNumber ==
  ASSUME setup \in Setups, NEW id
  PROVE  /\ Entries(id) # {} => GetDeviceIndexByID(id) = Index(id) /\ Index(id) \in Nat
         /\ Entries(id) = {} => GetDeviceIndexByID(id) = -1 /\ Index(id) = 0
<1> DEFINE numbers == {entry.index : entry \in {e \in DeviceIndexDictionary : e.id = id}}
<1>1. numbers = {Number(i) : i \in Entries(id)}
  <2>1. ASSUME NEW i \in Entries(id)
        PROVE  Number(i) \in numbers
    <3> DEFINE record == [index |-> Number(i), id |-> setup.pcap[i].id]
    <3>1. record \in DeviceIndexDictionary /\ record.id = id
      BY <2>1 DEF DeviceIndexDictionary, Entries
    <3>2. record.index = Number(i)
      OBVIOUS
    <3> HIDE DEF record
    <3>3. QED
      BY <3>1, <3>2
  <2>2. ASSUME NEW e \in DeviceIndexDictionary, e.id = id
        PROVE  \E i \in Entries(id) : e.index = Number(i)
    <3>1. PICK i \in Described : e = [index |-> Number(i), id |-> setup.pcap[i].id]
      BY DEF DeviceIndexDictionary
    <3>2. e.id = setup.pcap[i].id /\ e.index = Number(i)
      BY <3>1
    <3>3. QED
      BY <2>2, <3>2 DEF Entries
  <2>3. \A n \in numbers : \E e \in DeviceIndexDictionary : e.id = id /\ n = e.index
    OBVIOUS
  <2> HIDE DEF numbers
  <2>4. QED
    BY <2>1, <2>2, <2>3
<1> HIDE DEF numbers
<1>2. GetDeviceIndexByID(id) =
        IF numbers = {} THEN -1 ELSE CHOOSE n \in numbers : \A m \in numbers : n <= m
  BY DEF GetDeviceIndexByID, numbers
<1>3. CASE Entries(id) = {}
  BY <1>1, <1>2, <1>3 DEF Index
<1>4. CASE Entries(id) # {}
  <2>1. PICK i \in Entries(id) : TRUE
    BY <1>4
  <2>2. numbers = {Number(i)} /\ Index(id) = Number(i) /\ Number(i) \in Nat
    BY <1>1, <2>1, OneEntry
  <2>3. (CHOOSE n \in {Number(i)} : \A m \in {Number(i)} : n <= m) = Number(i)
    BY <2>2
  <2>4. QED
    BY <1>2, <2>2, <2>3
<1>5. QED
  BY <1>3, <1>4

\* On every machine the script for Node.js has each device's address and number,
\* but for those that pcap does not describe.
THEOREM TheScriptAgrees == StartSpec => []ScriptAgrees
<1>1. StartInit => NamesakesInv
  BY DEF StartInit, NamesakesInv, Nowhere
<1>2. StartInv /\ NamesakesInv /\ [StartNext]_startVars => NamesakesInv'
  BY NamesakesStep DEF StartInv
<1>3. ASSUME StartInv, NamesakesInv
      PROVE  ScriptAgrees
  <2>1. setup \in Setups
    BY <1>3 DEF StartInv, DevicesInv
  <2>2. SUFFICES ASSUME NEW i \in DOMAIN setup.adapters,
                        setup.adapters[i].id \in DOMAIN devices
                 PROVE  LET a == setup.adapters[i]
                            number == IF Entries(a.id) = {} THEN -1 ELSE devices[a.id].number
                        IN  /\ ScriptDevice(a).primary = {devices[a.id].primary}
                            /\ ScriptDevice(a).index = number
                            /\ number = -1 => devices[a.id].number = 0
    BY DEF ScriptAgrees
  <2> DEFINE a == setup.adapters[i]
  <2>3. a \in [id : Ids, addresses : Seq(IPConfiguration) \ {<<>>}]
    BY <2>1, SetupFields, Listed
  <2>4. a.addresses \in Seq(IPConfiguration) /\ a.addresses # <<>>
    BY <2>3
  <2>5. /\ devices[a.id].primary = PrimaryAddress(a)
        /\ devices[a.id].number = Index(a.id)
    BY <1>3, <2>2 DEF NamesakesInv
  <2>6. ScriptDevice(a).primary = {PrimaryAddress(a)}
    BY <2>4, NoneIsSecondary
  <2>7. ScriptDevice(a).index = GetDeviceIndexByID(a.id)
    BY DEF ScriptDevice
  <2> HIDE DEF a
  <2>8. /\ Entries(a.id) # {} => ScriptDevice(a).index = Index(a.id) /\ Index(a.id) \in Nat
        /\ Entries(a.id) = {} => ScriptDevice(a).index = -1 /\ Index(a.id) = 0
    BY <2>1, <2>7, ScriptNumber
  <2>9. QED
    BY <2>5, <2>6, <2>8 DEF a
<1>4. QED
  BY <1>1, <1>2, <1>3, StartInvariant, PTL DEF StartSpec

\* The script takes every address for a primary one: on no machine does an
\* adapter have a secondary address there.
THEOREM SecondariesAreMissed == StartSpec => []ScriptMissesSecondaries
<1>1. ASSUME StartInv, NEW i \in DOMAIN setup.adapters
      PROVE  ScriptDevice(setup.adapters[i]).secondaries = {}
  <2>1. setup \in Setups
    BY <1>1 DEF StartInv, DevicesInv
  <2>2. setup.adapters[i] \in [id : Ids, addresses : Seq(IPConfiguration) \ {<<>>}]
    BY <2>1, SetupFields, Listed
  <2>3. setup.adapters[i].addresses \in Seq(IPConfiguration) \ {<<>>}
    BY <2>2
  <2>4. QED
    BY <2>3, NoneIsSecondary
<1>2. StartInv => ScriptMissesSecondaries
  BY <1>1 DEF ScriptMissesSecondaries
<1>3. QED
  BY <1>2, StartInvariant, PTL

-----------------------------------------------------------------------------
(* The books of the start: what no other property rests on.                *)

\* Less is the order of numbers, so that some address of a set is the lowest.
LEMMA LessIsTransitive ==
  ASSUME NEW a \in SUBSET Bits, NEW b \in SUBSET Bits, NEW c \in SUBSET Bits,
         Less(a, b), Less(b, c)
  PROVE  Less(a, c)
<1>1. PICK i \in b \ a : \A j \in a \ b : j < i
  BY DEF Less
<1>2. PICK k \in c \ b : \A j \in b \ c : j < k
  BY DEF Less
<1>3. a \subseteq Nat /\ b \subseteq Nat /\ c \subseteq Nat
  BY DEF Bits
<1>4. i \in Nat /\ k \in Nat /\ i # k
  BY <1>1, <1>2, <1>3
<1>5. CASE i < k
  <2>1. k \in c \ a
    BY <1>1, <1>2, <1>4, <1>5
  <2>2. \A j \in a \ c : j < k
    BY <1>1, <1>2, <1>3, <1>4, <1>5
  <2>3. QED
    BY <2>1, <2>2 DEF Less
<1>6. CASE k < i
  <2>1. i \in c \ a
    BY <1>1, <1>2, <1>4, <1>6
  <2>2. \A j \in a \ c : j < i
    BY <1>1, <1>2, <1>3, <1>4, <1>6
  <2>3. QED
    BY <2>1, <2>2 DEF Less
<1>7. QED
  BY <1>4, <1>5, <1>6

LEMMA LowestIsThere ==
  ASSUME NEW S \in SUBSET SUBSET Bits, S # {}
  PROVE  Lowest(S) \in S
<1> DEFINE Below(a) == {b \in S : Less(b, a)}
           T == {Below(a) : a \in S}
           R == StrictSubsetOrdering(S)
<1>1. IsFiniteSet(S)
  <2>1. IsFiniteSet(Bits)
    <3>1. Bits \in SUBSET Nat /\ 31 \in Nat /\ \A b \in Bits : b <= 31
      BY DEF Bits
    <3>2. QED
      BY <3>1, FS_BoundedSetOfNaturals
  <2>2. IsFiniteSet(SUBSET Bits)
    BY <2>1, FS_SUBSET
  <2>3. QED
    BY <2>2, FS_Subset
<1>2. IsWellFoundedOn(R, SUBSET S)
  BY <1>1, FS_FiniteSubsetsOfFinite, FS_StrictSubsetOrderingWellFounded
<1>3. T \subseteq SUBSET S /\ T # {}
  OBVIOUS
<1>4. PICK x \in T : \A y \in T : <<y, x>> \notin R
  <2> HIDE DEF T, R
  <2>1. QED
    BY <1>2, <1>3, WFMin
<1>5. PICK a \in S : x = Below(a)
  BY <1>4
<1>6. \A b \in S : ~Less(b, a)
  <2>1. SUFFICES ASSUME NEW b \in S, Less(b, a)
                 PROVE  FALSE
    OBVIOUS
  <2>2. Below(b) \subseteq Below(a)
    BY <2>1, LessIsTransitive
  <2>3. b \in Below(a) /\ b \notin Below(b)
    BY <2>1 DEF Less
  <2>4. <<Below(b), Below(a)>> \in R
    <3>1. Below(b) \in SUBSET S /\ Below(a) \in SUBSET S /\ Below(b) # Below(a)
      BY <2>3
    <3> HIDE DEF Below
    <3>2. QED
      BY <2>2, <3>1 DEF StrictSubsetOrdering
  <2>5. QED
    BY <1>4, <1>5, <2>4
<1>7. QED
  BY <1>6 DEF Lowest

\* An interface waits for its area or has one, the areas are those of the
\* interfaces, and once the devices are set up there is one at least, of which
\* the router can have its id.
BooksInv ==
  /\ \A n \in DOMAIN callbacks : callbacks[n] \in DOMAIN devices
  /\ chosen \cup DOMAIN areaOf \subseteq ospfActive /\ chosen \cap DOMAIN areaOf = {}
  /\ areas = {0} \cup {areaOf[d] : d \in DOMAIN areaOf}
  /\ raised \subseteq DOMAIN areaOf /\ routerId \subseteq Bits
  /\ enabling \notin {"adapters", "interfaces", "thrown"} => DOMAIN devices # {}

LEMMA BooksInit == StartInit => BooksInv
BY DEF StartInit, BooksInv, Nowhere

LEMMA DevicesStay ==
  ASSUME [StartNext]_startVars
  PROVE  DOMAIN devices \subseteq DOMAIN devices'
BY DEF StartNext, startVars, SetupAdapter, SetupInterface, SetupLoopback, Initialize,
       SetupRipNetwork, SetupOspfNetwork, CreateInterface, InitializeOspf, NextPhase, Add

LEMMA RouterIdIsAddress ==
  ASSUME DevicesInv, DOMAIN devices # {}
  PROVE  FoundRouterId \subseteq Bits
<1>1. \A d \in DOMAIN devices : devices[d].primary.address \in SUBSET Bits
  <2>1. \A d \in DOMAIN devices : devices[d] \in DeviceRecord
    BY DEF DevicesInv
  <2>2. QED
    BY <2>1 DEF DeviceRecord, IPConfiguration
<1>2. ASSUME NEW S \in SUBSET DOMAIN devices, S # {}
      PROVE  LowestAddress(S) \in SUBSET Bits
  <2> DEFINE A == {devices[d].primary.address : d \in S}
  <2>1. A \in SUBSET SUBSET Bits /\ A # {}
    BY <1>1, <1>2
  <2> HIDE DEF A
  <2>2. Lowest(A) \in SUBSET Bits
    BY <2>1, LowestIsThere
  <2>3. QED
    BY <2>2 DEF LowestAddress, A
<1>3. QED
  BY <1>2 DEF FoundRouterId

LEMMA BooksStep ==
  ASSUME DevicesInv, AreasInv, BooksInv, [StartNext]_startVars
  PROVE  BooksInv'
<1>1. DOMAIN devices \subseteq DOMAIN devices'
  BY DevicesStay
<1>2. \A n \in DOMAIN callbacks' : callbacks'[n] \in DOMAIN devices'
  <2>1. CASE callbacks' = callbacks
    BY <1>1, <2>1 DEF BooksInv
  <2>2. CASE callbacks' # callbacks
    <3>1. PICK d \in DOMAIN devices : Initialize(d)
      BY <2>2 DEF StartNext, startVars, SetupAdapter, SetupInterface, SetupLoopback,
         SetupRipNetwork, SetupOspfNetwork, CreateInterface, InitializeOspf, NextPhase
    <3>2. callbacks' = Add(callbacks, devices[d].number, d)
      BY <2>2, <3>1 DEF Initialize
    <3>3. QED
      BY <1>1, <3>2 DEF BooksInv, Add
  <2>3. QED
    BY <2>1, <2>2
<1>3. enabling' \notin {"adapters", "interfaces", "thrown"} => DOMAIN devices' # {}
  <2>1. CASE NextPhase
    <3>1. devices' = devices
      BY <2>1 DEF NextPhase
    <3>2. devices # Nowhere => DOMAIN devices # {}
      BY DEF DevicesInv, Nowhere
    <3>3. QED
      BY <2>1, <3>1, <3>2 DEF NextPhase, Leaves, BooksInv
  <2>2. CASE InitializeOspf
    BY <1>1, <2>2 DEF InitializeOspf, BooksInv
  <2>3. CASE ~NextPhase /\ ~InitializeOspf
    <3>1. enabling' \in {enabling, "thrown"}
      BY <2>3 DEF StartNext, startVars, SetupAdapter, SetupInterface, SetupLoopback, Initialize,
         SetupRipNetwork, SetupOspfNetwork, CreateInterface, Walks, Stays, StartThrows
    <3>2. QED
      BY <1>1, <3>1 DEF BooksInv
  <2>4. QED
    BY <2>1, <2>2, <2>3
<1>4. /\ chosen' \cup DOMAIN areaOf' \subseteq ospfActive' /\ chosen' \cap DOMAIN areaOf' = {}
      /\ areas' = {0} \cup {areaOf'[d] : d \in DOMAIN areaOf'}
      /\ DOMAIN areaOf \subseteq DOMAIN areaOf'
  <2>1. CASE UNCHANGED areaVars
    BY <2>1 DEF BooksInv, areaVars
  <2>2. CASE SetupOspfNetwork
    <3>1. DOMAIN areaOf = {}
      BY <2>2 DEF AreasInv, SetupOspfNetwork, Walks
    <3>2. QED
      BY <2>2, <3>1 DEF BooksInv, SetupOspfNetwork
  <2>3. CASE \E d \in chosen : CreateInterface(d)
    <3>1. PICK d \in chosen : CreateInterface(d)
      BY <2>3
    <3>2. PICK i \in Matching(d) :
            /\ chosen' = chosen \ {d} /\ ospfActive' = ospfActive
            /\ areas' = areas \cup {Command(i).area}
            /\ areaOf' = Add(areaOf, d, Command(i).area)
      BY <3>1 DEF CreateInterface
    <3>3. d \notin DOMAIN areaOf
      BY DEF BooksInv
    <3>4. /\ DOMAIN areaOf' = DOMAIN areaOf \cup {d}
          /\ \A e \in DOMAIN areaOf : areaOf'[e] = areaOf[e]
          /\ areaOf'[d] = Command(i).area
      BY <3>2, <3>3 DEF Add
    <3>5. areas' = {0} \cup {areaOf'[e] : e \in DOMAIN areaOf'}
      BY <3>2, <3>4 DEF BooksInv
    <3>6. QED
      BY <3>2, <3>4, <3>5 DEF BooksInv
  <2>4. QED
    BY <2>1, <2>2, <2>3 DEF StartNext, startVars, areaVars, SetupAdapter, SetupInterface,
       SetupLoopback, Initialize, SetupRipNetwork, InitializeOspf, NextPhase
<1>5. raised' \subseteq DOMAIN areaOf' /\ routerId' \subseteq Bits
  <2>1. CASE UNCHANGED lsdbVars
    BY <1>4, <2>1 DEF BooksInv, lsdbVars
  <2>2. CASE InitializeOspf
    <3>1. raised' \subseteq DOMAIN areaOf /\ routerId' = FoundRouterId
      BY <2>2 DEF InitializeOspf
    <3>2. DOMAIN devices # {}
      BY <2>2 DEF InitializeOspf, BooksInv
    <3>3. QED
      BY <1>4, <3>1, <3>2, RouterIdIsAddress
  <2>3. QED
    BY <2>1, <2>2 DEF StartNext, startVars, lsdbVars, SetupAdapter, SetupInterface,
       SetupLoopback, Initialize, SetupRipNetwork, SetupOspfNetwork, CreateInterface, NextPhase
<1>6. QED
  BY <1>2, <1>3, <1>4, <1>5 DEF BooksInv

\* Every variable of the start keeps its type: each callback is that of a
\* device, each interface is in an area that is there, and the router's id is
\* one of its addresses (RoutingController.cs:400-593, OspfModule.cs:65-154).
THEOREM StartTypes == StartSpec => []StartTypeOK
<1>1. StartInit => BooksInv
  BY BooksInit
<1>2. StartInv /\ BooksInv /\ [StartNext]_startVars => BooksInv'
  BY BooksStep DEF StartInv
<1>3. ASSUME StartInv, BooksInv
      PROVE  StartTypeOK
  <2>1. \A d \in DOMAIN devices :
          devices[d].primary \in IPConfiguration /\ devices[d].isEnabled \in BOOLEAN
    BY <1>3 DEF StartInv, DevicesInv, DeviceRecord
  <2>2. /\ DOMAIN monitors \subseteq DOMAIN devices
        /\ ripActive = DOMAIN catalog /\ ripActive \subseteq DOMAIN devices
    BY <1>3 DEF StartInv, MonitorsInv, RipInv
  <2>3. enabling \in Phases /\ position \in Nat
    BY <1>3 DEF StartInv, DevicesInv
  <2>4. QED
    BY <1>3, <2>1, <2>2, <2>3 DEF BooksInv, StartTypeOK
<1>4. QED
  BY <1>1, <1>2, <1>3, StartInvariant, PTL DEF StartSpec

=============================================================================
