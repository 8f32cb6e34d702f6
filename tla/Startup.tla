------------------------------ MODULE Startup ------------------------------
(***************************************************************************)
(* What RoutingController.Enable does before the capture threads start:    *)
(* the devices are taken from the adapters, the configuration and the      *)
(* loopbacks, a monitor is opened for each device that is no loopback, and *)
(* RIP and OSPF choose their interfaces by the networks of their sections. *)
(*                                                                         *)
(* It runs on one thread, and whatever it throws ends it: "enabling" is    *)
(* then "thrown", and what was added so far stays.                         *)
(*                                                                         *)
(* External: pcap_open_live, pcap_compile and pcap_setfilter may fail; the *)
(* list of pcap and that of GetAdaptersInfo are two lists, each in an      *)
(* order of its own; Map.Add on a key that is present throws or replaces.  *)
(***************************************************************************)
EXTENDS Addresses, Sequences, FiniteSets

CONSTANTS
    Ids,    \* names of adapters, as pcap and Windows give them, and of loopbacks
    Setups  \* machines and their configurations, see SetupType

(* An address with its mask.                                               *)
IPConfiguration == [address : SUBSET Bits, mask : SUBSET Bits]

(* pcap: the adapters pcap_findalldevs lists; adapters: what               *)
(* GetAdaptersInfo tells of them; interfaces, loopbacks: of the system     *)
(* section; rip: the networks of the RIP section; networks: those of the   *)
(* OSPF section; passive: some OSPF interface is set passive; filter: a    *)
(* filter is given to Enable.                                              *)
SetupType ==
    [pcap : Seq([id : Ids, described : BOOLEAN]),
     adapters : Seq([id : Ids, addresses : Seq(IPConfiguration) \ {<<>>}]),
     interfaces : Seq([id : Ids, ipMtu : Nat, isDisabled : BOOLEAN, inBraces : BOOLEAN]),
     loopbacks : Seq([id : Ids, primary : IPConfiguration,
                      secondaries : SUBSET IPConfiguration]),
     rip : Seq(SUBSET Bits),
     networks : Seq([network : SUBSET Bits, wildcard : SUBSET Bits, area : Nat]),
     passive : BOOLEAN, filter : BOOLEAN]

ASSUME StartupAssumption == Setups \subseteq SetupType

(* pcap names no adapter twice, nor does Windows, whose names no number of *)
(* a loopback is like.                                                     *)
NamesDiffer(list) == \A i, j \in DOMAIN list : list[i].id = list[j].id => i = j
ASSUME NamedOnce ==
    \A s \in Setups : NamesDiffer(s.pcap) /\ NamesDiffer(s.adapters \o s.loopbacks)

VARIABLES
    setup,      \* never changes
    enabling,   \* which loop Enable is in
    position,   \* the element of its list that comes next
    devices,    \* DeviceConfigurationMap
    callbacks,  \* Monitor.CallbackArray: number of an adapter -> device
    monitors,   \* _monitorList: the adapter that was opened, its handle
    ripActive,  \* ActiveInterfaceList of RIP
    catalog,    \* RoutingNetworkMap: device -> networks with their masks
    chosen,     \* keys of networkInterfaceMap that have no interface yet
    ospfActive, \* ActiveInterfaceList of OSPF
    areas,      \* keys of AreaMap
    areaOf,     \* OspfInterfaceMap, and the area each interface is in
    routerId,   \* RouterID
    routerLsa,  \* of each area: whether it says ABR, and its links
    raised      \* interfaces for which InterfaceUp has been raised

ripVars == <<ripActive, catalog>>
areaVars == <<chosen, ospfActive, areas, areaOf>>
lsdbVars == <<routerId, routerLsa, raised>>
startVars == <<setup, enabling, position, devices, callbacks, monitors, ripVars, areaVars, lsdbVars>>

Nowhere == [d \in {} |-> {}]

(* Add of a Map or Dictionary that does not have the key.                  *)
Add(map, key, value) ==
    [k \in DOMAIN map \cup {key} |-> IF k \in DOMAIN map THEN map[k] ELSE value]

StartInit ==
    /\ setup \in Setups
    /\ enabling = "adapters" /\ position = 1
    /\ devices = Nowhere /\ callbacks = Nowhere /\ monitors = Nowhere
    /\ ripActive = {} /\ catalog = Nowhere
    /\ chosen = {} /\ ospfActive = {} /\ areas = {0} /\ areaOf = Nowhere
    /\ routerId = {} /\ routerLsa = Nowhere /\ raised = {}

(* One turn of a loop, and the way on to the next loop.                    *)
Walks(now, list) == enabling = now /\ position \in DOMAIN list /\ position' = position + 1
Stays == UNCHANGED enabling
StartThrows == enabling' = "thrown"
Leaves(now, list, then) ==
    enabling = now /\ position = Len(list) + 1 /\ position' = 1 /\ enabling' = then

Configured == {setup.interfaces[i].id : i \in DOMAIN setup.interfaces}

(* GetDeviceIndexDictionary numbers the adapters that have a description,  *)
(* in the order of pcap, from 0.                                           *)
Described == {i \in DOMAIN setup.pcap : setup.pcap[i].described}
Number(i) == Cardinality({j \in Described : j < i})

(* Of an adapter: that of the first entry with its name; 0 if there is     *)
(* none.                                                                   *)
Entries(id) == {i \in Described : setup.pcap[i].id = id}
Index(id) ==
    IF Entries(id) = {} THEN 0
    ELSE Number(CHOOSE i \in Entries(id) : \A j \in Entries(id) : i <= j)

(* A bug a change could bring in: the walk goes one element too far.       *)
OpenedNext(number) ==
    setup.pcap[IF number + 2 \in DOMAIN setup.pcap THEN number + 2 ELSE 1].id

(* Initialize walks that many elements down the list of all adapters.      *)
Opened(number) == setup.pcap[number + 1].id

(* GetDeviceDictionary: the first address of an adapter is the primary one.*)
PrimaryAddress(a) == Head(a.addresses)
Secondaries(a) == {a.addresses[i] : i \in 2 .. Len(a.addresses)}

(* The first loop of SetupDeviceInformation.                               *)
SetupAdapter ==
    /\ Walks("adapters", setup.adapters) /\ Stays
    /\ LET a == setup.adapters[position] IN
       devices' = IF a.id \in Configured
                  THEN Add(devices, a.id,
                           [number |-> Index(a.id),
                            primary |-> PrimaryAddress(a), secondaries |-> Secondaries(a),
                            isLoopback |-> FALSE, isEnabled |-> FALSE])
                  ELSE devices
    /\ UNCHANGED <<setup, callbacks, monitors, ripVars, areaVars, lsdbVars>>

(* The second one.  An id is looked for as it is written, so one in braces *)
(* is not found, though the first loop has found it; lines 523-555 cannot  *)
(* be reached, as what was not found has been passed over.                 *)
SetupInterface ==
    /\ Walks("interfaces", setup.interfaces)
    /\ LET element == setup.interfaces[position]
           found == element.id \in DOMAIN devices /\ ~element.inBraces
       IN
       \/ ~found /\ Stays /\ UNCHANGED devices
       \/ found /\ element.ipMtu < 68 /\ StartThrows /\ UNCHANGED devices
       \/ /\ found /\ element.ipMtu >= 68 /\ Stays
          /\ devices' = [devices EXCEPT ![element.id].isEnabled = ~element.isDisabled]
    /\ UNCHANGED <<setup, callbacks, monitors, ripVars, areaVars, lsdbVars>>

(* The third one.                                                          *)
SetupLoopback ==
    /\ Walks("loopbacks", setup.loopbacks) /\ Stays
    /\ LET a == setup.loopbacks[position] IN
       devices' = Add(devices, a.id,
                      [number |-> 0, primary |-> a.primary, secondaries |-> a.secondaries,
                       isLoopback |-> TRUE, isEnabled |-> TRUE])
    /\ UNCHANGED <<setup, callbacks, monitors, ripVars, areaVars, lsdbVars>>

(* What a handle is after Initialize: nothing on top of a failed open, and *)
(* closed, but not reset, after a filter that failed.  Enable looks at     *)
(* neither.                                                                *)
Handles == {"none", "open"} \cup (IF setup.filter THEN {"closed"} ELSE {})

Unmonitored == {d \in DOMAIN devices \ DOMAIN monitors : ~devices[d].isLoopback}

Initialize(d) ==
    /\ enabling = "monitors" /\ d \in Unmonitored
    /\ LET number == devices[d].number IN
       \/ number \in DOMAIN callbacks /\ StartThrows /\ UNCHANGED <<callbacks, monitors>>
       \/ /\ number \notin DOMAIN callbacks /\ Stays
          /\ callbacks' = Add(callbacks, number, d)
          /\ \E h \in Handles :
                monitors' = Add(monitors, d, [adapter |-> Opened(number), handle |-> h])
    /\ UNCHANGED <<setup, position, devices, ripVars, areaVars, lsdbVars>>

(* GetInterfaceListForAddress(address, mask): the interfaces whose primary *)
(* address is in the network.  Module's overloads pass neither the wish    *)
(* for secondary addresses on nor use it.                                  *)
InterfacesIn(address, mask) ==
    {d \in DOMAIN devices : IsSameNetwork(devices[d].primary.address, address, mask)}

(* GetInterfaceListForAddress(address); a class D address throws, but none *)
(* is what GetClassAddress yields.                                         *)
InterfacesInClass(address) ==
    InterfacesIn(address, OwnClassMask(address))

Network(c) == <<GetNetwork(c.address, c.mask), c.mask>>

(* RipModule.SetupInterfaceData: one network of the RIP section.           *)
SetupRipNetwork ==
    /\ Walks("rip", setup.rip) /\ Stays
    /\ LET network == setup.rip[position]
           list == InterfacesInClass(GetClassAddress(network))
           worthy(d) ==
              IF d \in list /\ IsSameNetwork(devices[d].primary.address, network,
                                             GetClassMask(network))
              THEN {Network(devices[d].primary)} \cup {Network(c) : c \in devices[d].secondaries}
              ELSE {}
           known(d) == IF d \in DOMAIN catalog THEN catalog[d] ELSE {}
       IN  /\ catalog' = [d \in DOMAIN catalog \cup list |-> known(d) \cup worthy(d)]
           /\ ripActive' = ripActive \cup list
    /\ UNCHANGED <<setup, devices, callbacks, monitors, areaVars, lsdbVars>>

Command(i) == setup.networks[i]
Mask(i) == FlipBits(Command(i).wildcard)

(* The passive settings are looked at without looking whose they are: one  *)
(* of them takes all interfaces away, and none leaves all of them, whether *)
(* passive is the default or not.                                          *)
Chosen(i) ==
    {d \in InterfacesIn(Command(i).network, Mask(i)) : devices[d].isEnabled /\ ~setup.passive}

(* OspfModule.SetupInterfaceData: one network of the OSPF section.  An     *)
(* interface that an earlier network has chosen is added again.            *)
SetupOspfNetwork ==
    /\ Walks("ospf", setup.networks)
    /\ \/ /\ Chosen(position) \cap chosen # {} /\ StartThrows
          /\ UNCHANGED <<chosen, ospfActive>>
       \/ /\ Stays
          /\ chosen' = chosen \cup Chosen(position)
          /\ ospfActive' = ospfActive \cup Chosen(position)
    /\ UNCHANGED <<setup, devices, callbacks, monitors, ripVars, areas, areaOf, lsdbVars>>

(* The networks that an interface is in.                                   *)
Matching(d) ==
    {i \in DOMAIN setup.networks :
        IsSameNetwork(GetNetwork(Command(i).network, Mask(i)), devices[d].primary.address, Mask(i))}

(* A bug a change could bring in: ordered by the mask, as it comes out of  *)
(* FlipBits.                                                               *)
LeastMask(i, S) == \A j \in S : ~Less(Mask(j), Mask(i)) /\ (Mask(j) = Mask(i) => i <= j)

(* OrderBy(wildcard).First(): the first of those with the lowest wildcard. *)
MostSpecific(i, S) ==
    \A j \in S : /\ ~Less(Command(j).wildcard, Command(i).wildcard)
                 /\ Command(j).wildcard = Command(i).wildcard => i <= j

(* The second loop: the interface is created in its area.  (The network    *)
(* that chose it matches, so the test of line 115 never passes it over.)   *)
CreateInterface(d) ==
    /\ enabling = "areas" /\ d \in chosen
    /\ chosen' = chosen \ {d}
    /\ \E i \in Matching(d) :
          /\ MostSpecific(i, Matching(d))
          /\ areas' = areas \cup {Command(i).area}
          /\ areaOf' = Add(areaOf, d, Command(i).area)
    /\ UNCHANGED <<setup, enabling, position, devices, callbacks, monitors, ripVars,
                   ospfActive, lsdbVars>>

(* The loopback with the lowest address, or the device with the lowest.    *)
LowestAddress(S) == Lowest({devices[d].primary.address : d \in S})
FoundRouterId ==
    LET loopbacks == {d \in DOMAIN devices : devices[d].isLoopback}
    IN  LowestAddress(IF loopbacks # {} THEN loopbacks ELSE DOMAIN devices)

(* Area 0 is there from the start, so that any other makes an ABR.         *)
IsAbr == 0 \in areas /\ areas # {0}

(* Area.InitLSBD: what a link joins is known by the device alone.          *)
InitLSBD(a) ==
    [isAbr |-> IsAbr,
     links |-> {<<d, IF devices[d].isLoopback THEN "Stub" ELSE "Transit">> :
                   d \in {e \in DOMAIN areaOf : areaOf[e] = a}}]

(* OspfModule.Initialize; InterfaceUp where the device is not              *)
(* administratively down.                                                  *)
InitializeOspf ==
    /\ enabling = "areas" /\ chosen = {}
    /\ enabling' = "running"
    /\ routerId' = FoundRouterId
    /\ routerLsa' = [a \in areas |-> InitLSBD(a)]
    /\ raised' = {d \in DOMAIN areaOf : devices[d].isEnabled}
    /\ UNCHANGED <<setup, position, devices, callbacks, monitors, ripVars, areaVars>>

(* From one loop to the next; without a device there is nothing to do.     *)
NextPhase ==
    /\ \/ Leaves("adapters", setup.adapters, "interfaces")
       \/ Leaves("interfaces", setup.interfaces,
                 IF devices = Nowhere THEN "thrown" ELSE "loopbacks")
       \/ Leaves("loopbacks", setup.loopbacks, "monitors")
       \/ Leaves("rip", setup.rip, "ospf")
       \/ Leaves("ospf", setup.networks, "areas")
       \/ enabling = "monitors" /\ Unmonitored = {} /\ enabling' = "rip" /\ UNCHANGED position
    /\ UNCHANGED <<setup, devices, callbacks, monitors, ripVars, areaVars, lsdbVars>>

StartNext ==
    \/ SetupAdapter \/ SetupInterface \/ SetupLoopback
    \/ (\E d \in DOMAIN devices : Initialize(d))
    \/ SetupRipNetwork \/ SetupOspfNetwork
    \/ (\E d \in chosen : CreateInterface(d))
    \/ InitializeOspf \/ NextPhase

StartSpec == StartInit /\ [][StartNext]_startVars
-----------------------------------------------------------------------------
Phases == {"adapters", "interfaces", "loopbacks", "monitors", "rip", "ospf", "areas",
           "running", "thrown"}

StartTypeOK ==
    /\ enabling \in Phases /\ position \in Nat
    /\ \A d \in DOMAIN devices :
          devices[d].primary \in IPConfiguration /\ devices[d].isEnabled \in BOOLEAN
    /\ DOMAIN monitors \subseteq DOMAIN devices
    /\ \A n \in DOMAIN callbacks : callbacks[n] \in DOMAIN devices
    /\ ripActive = DOMAIN catalog /\ ripActive \subseteq DOMAIN devices
    /\ chosen \cup DOMAIN areaOf \subseteq ospfActive
    /\ areas = {0} \cup {areaOf[d] : d \in DOMAIN areaOf}
    /\ raised \subseteq DOMAIN areaOf /\ routerId \subseteq Bits

(* What a reader of the sample configuration expects: with the network     *)
(* 192.168.5.0 in the RIP section, the loopback 192.168.5.11 takes part in *)
(* RIP; an interface does that is in the classful network of a line of     *)
(* that section (README.md:80, 124).  It does not in the code: the masks   *)
(* of the two sides differ (IPAddress.cs:227-239, RoutingController.cs:    *)
(* 780-798).                                                               *)
RipNetworksServe ==
    enabling \in {"ospf", "areas", "running"} =>
        \A d \in DOMAIN devices : \A i \in DOMAIN setup.rip :
            LET network == setup.rip[i] IN
            GetClass(network) # "D"
                /\ IsSameNetwork(devices[d].primary.address, network, OwnClassMask(network))
                => d \in ripActive

(* What the code does: a network of the RIP section serves an interface by *)
(* its first octet alone, and only if the class of the interface's address *)
(* leaves nothing behind the first octet: an interface in a network of     *)
(* class B or C is hardly ever active.  One of class D serves the          *)
(* interfaces whose first octet is zero, such as an adapter without an     *)
(* address, which Windows says is 0.0.0.0.  An interface that is served    *)
(* has its primary network in the catalogue (RipModule.cs:34-66,           *)
(* IPAddress.cs:227-239, RoutingController.cs:780-798).                    *)
FirstOctet(network) ==
    IF GetClass(network) = "D" THEN {} ELSE GetNetwork(network, NetworkAMask)
Classful(a) == GetNetwork(a, OwnClassMask(a))
Served(d) ==
    LET a == devices[d].primary.address
    IN  /\ GetClass(a) \in {"A", "B", "C"} /\ Classful(a) \subseteq NetworkAMask
        /\ \E i \in DOMAIN setup.rip : GetNetwork(a, NetworkAMask) = FirstOctet(setup.rip[i])
OnlyFirstOctetServes ==
    /\ enabling \in {"ospf", "areas", "running"}
          => ripActive = {d \in DOMAIN devices : Served(d)}
    /\ \A d \in ripActive : Network(devices[d].primary) \in catalog[d]

(* "Of the ones that match, the most specific match wins": an OSPF         *)
(* interface is in the area of a network that it is in, and no other       *)
(* network that it is in is a proper part of that one, though wildcards    *)
(* are compared as numbers.  No interface is on a device that is           *)
(* administratively down, and in the end every other device in some        *)
(* network has one, unless an interface is passive (OspfModule.cs:65-154). *)
InAreaOf(d, i) ==
    /\ i \in Matching(d) /\ areaOf[d] = Command(i).area
    /\ \A j \in Matching(d) :
          ~(Command(j).wildcard \subseteq Command(i).wildcard
            /\ Command(j).wildcard # Command(i).wildcard)
MostSpecificWins ==
    /\ \A d \in DOMAIN areaOf :
          /\ d \in DOMAIN devices /\ devices[d].isEnabled
          /\ \E i \in DOMAIN setup.networks : InAreaOf(d, i)
    /\ enabling = "running" /\ ~setup.passive
          => DOMAIN areaOf = {d \in DOMAIN devices : devices[d].isEnabled /\ Matching(d) # {}}

(* No adapter is opened for two devices, and the one that is opened is the *)
(* device's own unless an adapter without a description is listed before   *)
(* it, or it has none itself: the numbers leave out such adapters, the     *)
(* walk does not (Monitor.cpp:101-107, 182, RoutingController.cs:487).     *)
Plain(d) ==
    \E i \in DOMAIN setup.pcap :
        setup.pcap[i].id = d /\ \A j \in 1 .. i : setup.pcap[j].described
OpensItsAdapter ==
    \A d \in DOMAIN monitors :
        /\ Plain(d) => monitors[d].adapter = d
        /\ \A e \in DOMAIN monitors \ {d} : monitors[e].adapter # monitors[d].adapter
=============================================================================
