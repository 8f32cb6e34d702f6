------------------------------ MODULE MCMachine ------------------------------
(***************************************************************************)
(* Small instances of the machine the protocols run on: what the           *)
(* controller sets up at its start, what the one for Node.js sees of it,   *)
(* the life cycle of the controller with its capture loops, and the        *)
(* pipeline that takes captured frames apart.                              *)
(*                                                                         *)
(* They share no variable, so the product of their state spaces tells      *)
(* nothing that each does not tell alone: "part" says which one is looked  *)
(* at, the others stay in their initial states.                            *)
(***************************************************************************)
EXTENDS Controller, Pipeline, NodeBinding

VARIABLE part   \* never changes

Parts == {"controller", "pipeline", "startup"}

(* The handlers that are always used, and all of them.                     *)
Configurations == {{}, {"OSPF", "RIP", "Image", "TCP", "MPLS", "Icmp"}}

(* What routers of this kind send, heard by others and by themselves.      *)
OwnFrames == {[f EXCEPT ![1].own = TRUE] : f \in Built}

IP(words, protocol, data) == EthernetIIBytes(FALSE, 2048, IPv4Bytes(words, protocol, data))
Ospf(type, data) == IP(5, 89, OspfBytes(type, data))
Tcp(syn, options, size, beyond) == IP(5, 6, TcpBytes(syn, options, size, beyond))

(* What others send: each kind of packet there is a handler for, with and  *)
(* without what is optional in it; IP headers with options; the lengths of *)
(* 802.3 frames on both sides of where they are misread; SYNs whose        *)
(* options end with their header, with EOL, or neither.                    *)
OspfFrames ==
    {Ospf(3, LsrBytes), Ospf(5, LsackBytes), Ospf(4, LsuBytes(0, <<>>))}
    \cup {Ospf(1, HelloBytes(n, FALSE, <<>>)) : n \in 0 .. 2}
    \cup {Ospf(2, DbdBytes(n, FALSE, <<>>)) : n \in 0 .. 2}
    \cup {Ospf(4, LsuBytes(1, OtherLsa(type))) : type \in 2 .. 5}
    \cup {Ospf(4, LsuBytes(2, RouterLsa(links) \o OtherLsa(2))) : links \in 0 .. 2}
    \cup {Ospf(4, LsuBytes(2, OtherLsa(2) \o RouterLsa(1)))}

LanFrames ==
    {EthernetIIBytes(FALSE, 2054, ArpBytes(2)), EthernetIIBytes(FALSE, 34525, <<>>)}
    \cup {Ieee8023(FALSE, length, <<3, 66, 66>>, FALSE, StpBytes) :
               length \in {38, 255, 300, 356, 1500}}
    \cup {Ieee8023(FALSE, length, <<170, 170, 3>>, TRUE, CiscoBytes) : length \in {3, 512}}
    \cup {Ieee8023(FALSE, 38, <<66, 66, 3>>, FALSE, StpBytes)}

DatagramFrames ==
    {IP(5, 1, IcmpBytes(3, <<>>)), IP(5, 1, IcmpBytes(0, IcmpEchoBytes)),
     IP(6, 1, IcmpBytes(8, IcmpEchoBytes)), IP(5, 47, <<>>),
     IP(15, 17, UdpBytes(520, RipBytes(2))), IP(5, 17, UdpBytes(53, <<>>)),
     IP(5, 17, UdpBytes(676, LdpBytes)), IP(6, 17, UdpBytes(5200, ImageBytes))}

SegmentFrames ==
    {Tcp(FALSE, <<>>, 0, <<>>), Tcp(TRUE, <<"MSS">>, 4, <<>>),
     Tcp(TRUE, <<"MSS", "NOP", "WSOPT">>, 8, <<>>),
     Tcp(TRUE, <<"MSS", "SACKPermitted", "TSOPT", "NOP", "WSOPT">>, 20, <<>>),
     Tcp(TRUE, <<"WSOPT", "EOL">>, 4, <<>>), Tcp(TRUE, <<>>, 0, <<"NOP", "NOP", "EOL">>),
     Tcp(TRUE, <<"MSS", "NOP">>, 4, <<"UTO", "Fastopen">>),
     Tcp(TRUE, <<"MSS", "Experimental">>, 8, <<>>)}

AllTraffic ==
    Built \cup OwnFrames \cup OspfFrames \cup LanFrames \cup DatagramFrames
        \cup SegmentFrames

(* Machines with two adapters and a tap, and configurations of them: lists *)
(* of pcap with and without descriptions, in both orders; interfaces that  *)
(* are missing, disabled, in braces, or have too small an MTU; addresses   *)
(* and networks of every class, the networks nested as in the sample       *)
(* configuration, in both orders, and twice the same.                      *)
Prefix(length) == {b \in Bits : b >= 32 - length}
At(address, length) == [address |-> address, mask |-> Prefix(length)]
Adapter(id, addresses) == [id |-> id, addresses |-> addresses]
PcapIf(id, described) == [id |-> id, described |-> described]
Element(id, mtu, disabled) ==
    [id |-> id, ipMtu |-> mtu, isDisabled |-> disabled, inBraces |-> FALSE]
Nets(area, address, wildcard) == [network |-> address, wildcard |-> wildcard, area |-> area]

Machine ==
    [pcap |-> <<PcapIf("e1", TRUE), PcapIf("e2", TRUE)>>,
     adapters |-> <<Adapter("e2", <<At(From(10, 2, 0, 1), 16), At(From(10, 9, 0, 1), 24)>>),
                    Adapter("e1", <<At(From(10, 1, 1, 1), 24)>>)>>,
     interfaces |-> <<Element("e1", 1500, FALSE), Element("e2", 1500, FALSE)>>,
     loopbacks |-> <<[id |-> "0", primary |-> At(From(10, 91, 1, 1), 16),
                      secondaries |-> {At(From(10, 191, 1, 1), 24)}],
                     [id |-> "4", primary |-> At(From(192, 168, 5, 11), 24),
                      secondaries |-> {}]>>,
     rip |-> <<From(10, 91, 0, 0), From(192, 168, 5, 0)>>,
     networks |-> <<Nets(0, From(10, 1, 1, 0), From(0, 0, 0, 255))>>,
     passive |-> FALSE, filter |-> FALSE]

Lists == {<<PcapIf("e1", a), PcapIf("e2", TRUE)>> : a \in BOOLEAN}
    \cup {<<PcapIf("e2", TRUE), PcapIf("t", a), PcapIf("e1", TRUE)>> : a \in BOOLEAN}
    \cup {<<PcapIf("t", a), PcapIf("e1", TRUE), PcapIf("e2", b)>> : a, b \in BOOLEAN}

Interfaces == {<<>>, <<Element("e2", 60, FALSE)>>, <<Element("e9", 60, FALSE)>>}
    \cup {<<Element("e1", 1500, a), Element("e2", 68, b)>> : a, b \in BOOLEAN}
    \cup {<<Element("e1", 1500, FALSE), [Element("e2", 60, FALSE) EXCEPT !.inBraces = TRUE]>>}

Sample == <<Nets(0, From(10, 1, 1, 0), From(0, 0, 0, 255)),
            Nets(2, From(10, 1, 0, 0), From(0, 0, 255, 255)),
            Nets(1, From(10, 1, 1, 0), From(0, 255, 255, 255)),
            Nets(0, From(172, 16, 0, 0), From(0, 0, 255, 255))>>

Captures == {[Machine EXCEPT !.pcap = l, !.interfaces = i, !.filter = f] :
                l \in Lists, i \in Interfaces, f \in BOOLEAN}

Routings ==
    {[Machine EXCEPT !.adapters[2].addresses = <<p>>, !.rip = r, !.networks = n,
                     !.interfaces[2].isDisabled = d, !.passive = v] :
        p \in {At(From(10, 1, 1, 1), 24), At(From(172, 16, 4, 1), 24), At(From(172, 0, 4, 1), 24),
               At(From(192, 0, 0, 7), 24), At(From(0, 0, 0, 0), 0)},
        r \in {<<>>, Machine.rip, <<From(172, 16, 0, 0), From(224, 0, 0, 0), From(192, 168, 5, 0)>>},
        n \in {<<>>, Sample, Reverse(Sample),
               Append(Sample, Nets(3, From(10, 1, 1, 0), From(0, 0, 0, 255)))},
        d, v \in BOOLEAN}

(* A machine without adapters: Enable has nothing to do.                   *)
Bare ==
    [pcap |-> <<>>, adapters |-> <<>>, interfaces |-> <<>>, loopbacks |-> <<>>,
     rip |-> <<>>, networks |-> <<>>, passive |-> FALSE, filter |-> FALSE]

Machines == {Bare} \cup Captures \cup Routings

MachineInit ==
    /\ part \in Parts
    /\ CtrlInit
    /\ part # "controller" => \A d \in CaptureDevices : handle[d] = "open"
    /\ PipeInit
    /\ part # "pipeline" => routers = {} /\ ~llsFirst
    /\ StartInit
    /\ part # "startup" => setup = Bare

MachineNext ==
    /\ UNCHANGED part
    /\ \/ part = "controller" /\ CtrlNext /\ UNCHANGED <<pipeVars, startVars>>
       \/ part = "pipeline" /\ PipeNext /\ UNCHANGED <<ctrlVars, startVars>>
       \/ part = "startup" /\ StartNext /\ UNCHANGED <<ctrlVars, pipeVars>>

(* Only the controller can take a step of its own from its initial state,  *)
(* so fairness asks nothing of a part that rests.                          *)
MachineSpec ==
    /\ MachineInit /\ [][MachineNext]_<<part, ctrlVars, pipeVars, startVars>>
    /\ \/ part = "controller" /\ CtrlFairness
       \/ part # "controller" /\ PipeFairness
=============================================================================
