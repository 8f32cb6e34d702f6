------------------------------- MODULE Pipeline -------------------------------
(***************************************************************************)
(* RoutingController.Begin: a captured frame is taken apart by a chain of  *)
(* handlers, each of which reads its header and asks GetNextHandler for    *)
(* the next one; then the handlers tell the modules, innermost first.      *)
(* Begin holds one lock from the first handler to the last callback, so    *)
(* frames are taken one at a time, whatever device they come from.         *)
(*                                                                         *)
(* A handler finds the header of an outer layer by walking from Parent to  *)
(* Parent (GetValue).  A handler that repeats (an LSA, a link) must become *)
(* a sibling of the one before it, not its child: SharedParentProperty,    *)
(* kept by the one ROOT there is, says so to the loop in Begin.            *)
(*                                                                         *)
(* Left out: the values of the fields that nothing here depends on, IPv4   *)
(* fragments (the bytes behind the header are a payload's first), frames   *)
(* that are shorter than their headers say, the handler of HTTP (behind a  *)
(* TCP SYN only) and those that are not exported (EIGRP, BGP).             *)
(***************************************************************************)
EXTENDS Frames

CONSTANTS
    Traffic,        \* the frames that are captured
    RouterSets      \* the values looked at of config.Routers

None == "none"      \* a null handler
Null == -1          \* a property that was never set

VARIABLES
    routers,        \* config.Routers
    llsFirst,       \* the catalog lists OSPFLLSDATABLOCK before OSPFLSA
    phase,          \* "idle", "parse" (a turn of the loop), "options", "tell", "down"
    frame,          \* the frame in hand
    stack,          \* parserStack
    following,      \* nextHandler
    shared,         \* SharedParentProperty
    offset,         \* CommonData.Offset
    taken,          \* TCP options that were read past
    optionsOffset,
    teller,         \* where in the stack the callbacks are
    told            \* who was called, with which headers

given == <<routers, llsFirst>>
pipeVars == <<routers, llsFirst, phase, frame, stack, following, shared, offset,
              taken, optionsOffset, teller, told>>
-----------------------------------------------------------------------------
(* HandlerMetadata: the name of a handler and of those it may follow.      *)
Parents ==
  [ROOT |-> {"NONE"}, L2SELECTION |-> {"ROOT"},
   ETHERNETII |-> {"L2SELECTION"}, IEEE8023 |-> {"L2SELECTION"},
   STP |-> {"IEEE8023"}, CISCO |-> {"IEEE8023"},
   ARP |-> {"ETHERNETII"}, IPV4 |-> {"ETHERNETII"}, IPV6 |-> {"ETHERNETII"},
   UDP |-> {"IPV4", "IPV6"}, TCP |-> {"IPV4", "IPV6"}, ICMP |-> {"IPV4"},
   ICMPECHO |-> {"ICMP"}, RIP |-> {"UDP"}, IMAGE |-> {"UDP"},
   LDP |-> {"UDP"}, LDPMESSAGE |-> {"LDP"}, LDPMESSAGETLV |-> {"LDPMESSAGE"},
   OSPF |-> {"IPV4"}, OSPFHELLO |-> {"OSPF"}, OSPFDBD |-> {"OSPF"},
   OSPFLSR |-> {"OSPF"}, OSPFLSU |-> {"OSPF"}, OSPFLSACK |-> {"OSPF"},
   OSPFLLSDATABLOCK |-> {"OSPFHELLO", "OSPFDBD"},
   OSPFLLSDATABLOCKTLV |-> {"OSPFLLSDATABLOCK"},
   OSPFLSA |-> {"OSPFDBD", "OSPFLSU", "OSPFLSACK"},
   OSPFLSAROUTE |-> {"OSPFLSA"}, OSPFLSAROUTELINK |-> {"OSPFLSAROUTE"},
   OSPFLSANETWORK |-> {"OSPFLSA"}, OSPFLSASUMMARY |-> {"OSPFLSA"},
   OSPFLSAEXTERNAL |-> {"OSPFLSA"}]

Handlers == DOMAIN Parents

(* AssemblyModule: the assembly that exports a handler.                    *)
Exports ==
  [INTERNAL |-> {"ROOT"},
   SYSTEM |-> {"L2SELECTION", "ETHERNETII", "IEEE8023", "STP", "CISCO", "ARP", "IPV4",
               "IPV6", "UDP"},
   Icmp |-> {"ICMP", "ICMPECHO"}, RIP |-> {"RIP"}, Image |-> {"IMAGE"}, TCP |-> {"TCP"},
   MPLS |-> {"LDP", "LDPMESSAGE", "LDPMESSAGETLV"},
   OSPF |-> {"OSPF", "OSPFHELLO", "OSPFDBD", "OSPFLSR", "OSPFLSU", "OSPFLSACK",
             "OSPFLLSDATABLOCK", "OSPFLLSDATABLOCKTLV", "OSPFLSA", "OSPFLSAROUTE",
             "OSPFLSAROUTELINK", "OSPFLSANETWORK", "OSPFLSASUMMARY", "OSPFLSAEXTERNAL"}]

(* OnImportsSatisfied indexes the handlers of the assemblies that are      *)
(* always used and of those that are configured.  ICMP is compared by      *)
(* case, and the assembly says Icmp: its handlers have to be configured    *)
(* although its module does not.                                           *)
Always == {"SYSTEM", "INTERNAL", "ICMP"}
Indexed == UNION {Exports[a] : a \in DOMAIN Exports \cap (Always \cup routers)}
-----------------------------------------------------------------------------
(* The header of the frame that the handler of this name reads.            *)
HeaderFor(name) ==
    LET first == CHOOSE k \in DOMAIN frame :
                    frame[k].name = name /\ \A j \in 1 .. k - 1 : frame[j].name # name
    IN  frame[first]

(* GetValue and SetValue: from the k-th handler of the stack st outwards   *)
(* to the one that owns the property; 0 when the walk ends without it.     *)
Holder(st, k, owner) ==
    LET walk[i \in 0 .. k] ==
            IF i = 0 \/ st[i].name = owner THEN i ELSE walk[st[i].parent]
    IN  walk[k]

Finds(st, owner) ==
    LET i == Holder(st, Len(st), owner) IN i # 0 /\ st[i].set

(* The handlers the k-th one can walk to.                                  *)
Ancestors(st, k) ==
    LET walk[i \in 0 .. k] == IF i = 0 THEN {} ELSE {i} \cup walk[st[i].parent]
    IN  walk[k]

(* GetHeaderPackage: the headers that were set on the way out.             *)
Package(st, k) == {st[i].name : i \in {j \in Ancestors(st, k) : st[j].set}}

(* Each byte is written with decimal digits, two at least, and the digits  *)
(* are read as hexadecimal ones.                                           *)
Digits(byte) == (byte \div 100) * 256 + ((byte \div 10) % 10) * 16 + (byte % 10)

TypeOrLengthInt32(h) ==
    Digits(h.high) * (IF h.low < 100 THEN 256 ELSE 4096) + Digits(h.low)

LayerId == [ARP |-> 2054, IPV4 |-> 2048, IPV6 |-> 34525]
Protocol == [ICMP |-> 1, TCP |-> 6, UDP |-> 17, OSPF |-> 89]
DestinationPort == [RIP |-> 520, IMAGE |-> 5200, LDP |-> 676]
PacketType == [OSPFHELLO |-> {1}, OSPFDBD |-> {2}, OSPFLSR |-> {3}, OSPFLSU |-> {4},
               OSPFLSACK |-> {5}]
LsaType == [OSPFLSAROUTE |-> {1}, OSPFLSANETWORK |-> {2}, OSPFLSASUMMARY |-> {3, 4},
            OSPFLSAEXTERNAL |-> {5}]

(* The handlers that repeat, with the owner of their index and maximum.    *)
CounterOf == [OSPFLSA |-> "OSPF", OSPFLSAROUTELINK |-> "OSPFLSAROUTE"]

Counter(st, c) ==
    LET i == Holder(st, Len(st), CounterOf[c])
    IN  IF i = 0 THEN [index |-> Null, max |-> Null]
        ELSE [index |-> st[i].index, max |-> st[i].max]

(* The options of the last packet promise an LLS data block and the        *)
(* datagram has bytes behind the packet.                                   *)
LlsFits ==
    /\ \E n \in {"OSPFHELLO", "OSPFDBD"} : n \in Names(frame) /\ HeaderFor(n).lls
    /\ HeaderFor("IPV4").total - 4 * HeaderFor("IPV4").words - HeaderFor("OSPF").length > 0

(* CheckForNext of handler c, made a child of the last one of st.  (That    *)
(* of ICMPECHO also wants a code of 0, which no other code comes with.)    *)
CheckForNext(c, st) ==
    \/ c \in {"L2SELECTION", "LDPMESSAGE", "LDPMESSAGETLV", "OSPFLLSDATABLOCKTLV"}
    \/ c = "ETHERNETII" /\ TypeOrLengthInt32(HeaderFor("L2SELECTION")) >= 1536
    \/ c = "IEEE8023" /\ TypeOrLengthInt32(HeaderFor("L2SELECTION")) <= 1500
    \/ c = "STP" /\ HeaderFor("IEEE8023").dsap = 66 /\ HeaderFor("IEEE8023").ssap = 66
    \/ c = "CISCO" /\ HeaderFor("IEEE8023").cisco
    \/ c \in DOMAIN LayerId /\ TypeOrLengthInt32(HeaderFor("L2SELECTION")) = LayerId[c]
    \/ c \in DOMAIN Protocol /\ Finds(st, "IPV4") /\ HeaderFor("IPV4").protocol = Protocol[c]
    \/ c \in DOMAIN DestinationPort /\ HeaderFor("UDP").port = DestinationPort[c]
    \/ c = "ICMPECHO" /\ HeaderFor("ICMP").type \in {0, 8}
    \/ c \in DOMAIN PacketType /\ HeaderFor("OSPF").type \in PacketType[c]
    \/ c = "OSPFLLSDATABLOCK" /\ LlsFits
    \/ c \in DOMAIN LsaType /\ HeaderFor("OSPFLSA").type \in LsaType[c]
    \/ c \in DOMAIN CounterOf /\ Counter(st, c).index < Counter(st, c).max
-----------------------------------------------------------------------------
PipeInit ==
    /\ routers \in RouterSets
    /\ llsFirst \in BOOLEAN
    /\ phase = "idle"
    /\ frame = <<>>
    /\ stack = <<>>
    /\ following = None
    /\ shared = FALSE
    /\ offset = 0
    /\ taken = 0
    /\ optionsOffset = 0
    /\ teller = 0
    /\ told = <<>>

(* A frame is captured, and Begin starts with ROOT.                        *)
Captured(f) ==
    /\ phase = "idle"
    /\ frame' = f
    /\ phase' = "parse"
    /\ following' = "ROOT"
    /\ UNCHANGED <<given, stack, shared, offset, taken, optionsOffset, teller, told>>

(* Begin returns, and its locals are gone; ROOT stays, with its property.  *)
Return ==
    /\ phase' = "idle"
    /\ frame' = <<>>
    /\ stack' = <<>>
    /\ following' = None
    /\ offset' = 0
    /\ taken' = 0
    /\ optionsOffset' = 0
    /\ teller' = 0
    /\ told' = <<>>
    /\ UNCHANGED given

(* The first half of a turn: the next handler is attached to the last one, *)
(* or to its parent, is initialised and put on the stack.  "set" says that *)
(* Parse stores the header.  Initialize also clears SharedParentProperty.  *)
Attached(name, set) ==
    LET last == Len(stack)
    IN  Append(stack, [name |-> name, at |-> offset, set |-> set,
                       parent |-> IF shared /\ last > 0 THEN stack[last].parent ELSE last,
                       index |-> Null, max |-> Null])

Turn(name) == phase = "parse" /\ following = name

(* Parse returns null: the loop ends and the callbacks begin.              *)
Ends(st) ==
    /\ stack' = st
    /\ following' = None
    /\ phase' = "tell"
    /\ teller' = Len(st)
    /\ UNCHANGED <<given, frame, told>>

(* An exception leaves Begin, and with it the callback of the capture      *)
(* loop, where nobody handles it.                                          *)
Throws(st) ==
    /\ stack' = st
    /\ phase' = "down"
    /\ shared' = FALSE
    /\ UNCHANGED <<given, frame, following, teller, told>>

(* Only OSPFDBD has two followers that can both fit.                       *)
FirstOf(fits) ==
    IF fits = {} THEN None
    ELSE IF {"OSPFLSA", "OSPFLLSDATABLOCK"} \subseteq fits
         THEN IF llsFirst THEN "OSPFLLSDATABLOCK" ELSE "OSPFLSA"
         ELSE CHOOSE c \in fits : TRUE

(* GetNextHandler: the first follower that fits.  One that repeats counts  *)
(* itself, and asks to be a sibling (CheckForIteration), which takes an    *)
(* index that somebody has set.                                            *)
GetNextHandler(st) ==
    LET tried == {c \in Indexed : st[Len(st)].name \in Parents[c]}
        next == FirstOf({c \in tried : CheckForNext(c, st)})
    IN  IF \E c \in tried \cap DOMAIN CounterOf : Counter(st, c).index = Null
        THEN Throws(st)
        ELSE IF next = None
        THEN Ends(st) /\ shared' = FALSE
        ELSE /\ following' = next
             /\ phase' = "parse"
             /\ shared' = (next \in DOMAIN CounterOf)
             /\ stack' = IF next \in DOMAIN CounterOf
                         THEN [st EXCEPT ![Holder(st, Len(st), CounterOf[next])].index = @ + 1]
                         ELSE st
             /\ UNCHANGED <<given, frame, teller, told>>

(* A bug a change could bring in: the index is left to be set later.       *)
DeclareMaxOnly(st, owner, max) ==
    LET i == Holder(st, Len(st), owner)
    IN  IF max = 0 THEN Ends(st) /\ shared' = FALSE
        ELSE GetNextHandler([st EXCEPT ![i].max = max])

(* DeclareInteration: nothing to repeat is the end of the frame.           *)
DeclareInteration(st, owner, max) ==
    LET i == Holder(st, Len(st), owner)
    IN  IF max = 0 THEN Ends(st) /\ shared' = FALSE
        ELSE GetNextHandler([st EXCEPT ![i].index = 0, ![i].max = max])

(* Whatever is loaded, the offset is moved by its size.                    *)
Scroll(bytes) == offset' = offset + bytes

(* Most handlers read a header, store it and look for the next handler.    *)
Reads(name, bytes) ==
    /\ Turn(name)
    /\ Scroll(bytes)
    /\ GetNextHandler(Attached(name, TRUE))

LoadHeader(name, fields) == Reads(name, Bytes(fields))
-----------------------------------------------------------------------------
(* ROOT reads nothing and has no header to store.                          *)
ParseRoot ==
    /\ Turn("ROOT")
    /\ GetNextHandler(Attached("ROOT", FALSE))
    /\ UNCHANGED offset

(* A bug a change could bring in: the source of a frame is not looked at.  *)
ParseAnySource == LoadHeader("L2SELECTION", EthernetHeader) /\ UNCHANGED <<taken, optionsOffset>>

(* A frame from one of the router's own addresses is a multicast come      *)
(* back: Begin returns at once.                                            *)
ParseL2Selection ==
    /\ Turn("L2SELECTION")
    /\ IF HeaderFor("L2SELECTION").own
       THEN Return /\ shared' = FALSE
       ELSE /\ Scroll(Bytes(EthernetHeader))
            /\ GetNextHandler(Attached("L2SELECTION", TRUE))
            /\ UNCHANGED <<taken, optionsOffset>>

ParseEthernetII == Reads("ETHERNETII", 0)
ParseIeee8023 == LoadHeader("IEEE8023", Llc)
ParseStp == LoadHeader("STP", Bpdu)
ParseCisco == Reads("CISCO", 0)
ParseArp == LoadHeader("ARP", ArpHeader)

(* A bug a change could bring in: the options are not skipped.             *)
ParseIPv4Alone == LoadHeader("IPV4", IPHeader)

ParseIPv4 == Reads("IPV4", Bytes(IPHeader) + (4 * HeaderFor("IPV4").words - 20))
ParseUdp == LoadHeader("UDP", UdpHeader)

(* As many networks as the datagram has room for.                          *)
ParseRip ==
    LET bodySize == HeaderFor("UDP").length - Bytes(UdpHeader) - Bytes(RipPreambleHeader)
    IN  Reads("RIP", Bytes(RipPreambleHeader)
                         + Bytes(RipDataHeader) * (bodySize \div Bytes(RipDataHeader)))

ParseIcmp == LoadHeader("ICMP", IcmpHeader)
ParseLdp == LoadHeader("LDP", LdpHeader)
ParseLdpMessage == LoadHeader("LDPMESSAGE", LdpMessage)
ParseOspf == LoadHeader("OSPF", OspfHeader)
ParseLsr == LoadHeader("OSPFLSR", OspfLsrHeader)
ParseLsaNetwork == LoadHeader("OSPFLSANETWORK", OspfLsaNetworkHeader)
ParseLsaSummary == LoadHeader("OSPFLSASUMMARY", OspfLsaSummaryHeader)
ParseLsaExternal == LoadHeader("OSPFLSAEXTERNAL", OspfLsaExternalHeader)
ParseLlsBlock == LoadHeader("OSPFLLSDATABLOCK", OspfLlsDataBlockHeader)

(* As many neighbours as the packet has room for.                          *)
ParseHello ==
    LET rest == HeaderFor("OSPF").length - Bytes(OspfHeader) - Bytes(OspfHelloHeader)
    IN  Reads("OSPFHELLO", Bytes(OspfHelloHeader) + IPAddress * (rest \div 4))

ParseIcmpEcho ==
    /\ Turn("ICMPECHO")
    /\ Scroll(Bytes(IcmpEchoHeader))
    /\ shared' = FALSE
    /\ Ends(Attached("ICMPECHO", TRUE))

(* No member is loaded, so Data is null and the header is never stored.    *)
ParseImage ==
    /\ Turn("IMAGE")
    /\ shared' = FALSE
    /\ Ends(Attached("IMAGE", FALSE))
    /\ UNCHANGED offset

(* The header of an LLS or LDP TLV and its value.  Neither has a follower, *)
(* not even another TLV, so the loop ends here, with the property set.     *)
(* Where no TLV is, its length is whatever is there.                       *)
ParseTlv(name) ==
    /\ Turn(name)
    /\ \E n \in IF \E k \in DOMAIN frame : frame[k].name = name /\ Place(frame, k) = offset
                THEN {HeaderFor(name).size} ELSE {4, 8} :
            Scroll(n)
    /\ shared' = TRUE
    /\ Ends(Attached(name, TRUE))

ParseLlsTlv == ParseTlv("OSPFLLSDATABLOCKTLV")
ParseLdpTlv == ParseTlv("LDPMESSAGETLV")

(* The number of LSA headers in a DBD, by the length of the packet.        *)
LsaHeaderCount(ospf) ==
    (ospf.length - Bytes(OspfHeader) - Bytes(OspfDbdHeader)) \div Bytes(OspfLsaHeader)

(* The number of LSA headers is worked out after the header was stored, so *)
(* the stored one says there are none.                                     *)
ParseDbd ==
    /\ Turn("OSPFDBD")
    /\ Scroll(Bytes(OspfDbdHeader))
    /\ DeclareInteration(Attached("OSPFDBD", TRUE), "OSPF",
                         LsaHeaderCount(HeaderFor("OSPF")))

ParseLsu ==
    /\ Turn("OSPFLSU")
    /\ Scroll(Bytes(OspfLsuHeader))
    /\ LET count == HeaderFor("OSPFLSU").count IN
       IF count > 0 THEN DeclareInteration(Attached("OSPFLSU", TRUE), "OSPF", count)
                    ELSE GetNextHandler(Attached("OSPFLSU", TRUE))

ParseLsack ==
    /\ Turn("OSPFLSACK")
    /\ shared' = FALSE
    /\ Ends(Attached("OSPFLSACK", FALSE))
    /\ UNCHANGED offset

(* In a DBD the header is dropped, and the headers behind it are not read. *)
ParseLsa ==
    /\ Turn("OSPFLSA")
    /\ Scroll(Bytes(OspfLsaHeader))
    /\ IF \E k \in DOMAIN stack : stack[k].name = "OSPFDBD"
       THEN shared' = FALSE /\ Ends(Attached("OSPFLSA", FALSE))
       ELSE GetNextHandler(Attached("OSPFLSA", TRUE))

ParseLsaRoute ==
    /\ Turn("OSPFLSAROUTE")
    /\ Scroll(Bytes(OspfLsaRouterHeader))
    /\ LET links == HeaderFor("OSPFLSAROUTE").links
           st == Attached("OSPFLSAROUTE", TRUE) IN
       IF links > 0 THEN DeclareInteration(st, "OSPFLSAROUTE", links)
                    ELSE GetNextHandler(st)

(* The link adds itself to the list of its LSA, which it must be able to   *)
(* walk to.                                                                *)
ParseLsaRouteLink ==
    /\ Turn("OSPFLSAROUTELINK")
    /\ Scroll(Bytes(OspfLsaRouterLinkHeader))
    /\ LET st == Attached("OSPFLSAROUTELINK", FALSE) IN
       IF Finds(st, "OSPFLSAROUTE") THEN GetNextHandler(st) ELSE Throws(st)
-----------------------------------------------------------------------------
(* A bug a change could bring in: a NOP is said to have no size.           *)
NopUnsized ==
  [EOL |-> 1, NOP |-> 0, MSS |-> 4, WSOPT |-> 3, SACKPermitted |-> 2, SACK |-> 0,
   TSOPT |-> 10, UTO |-> 4, TCPAO |-> 0, Experimental |-> 0]

(* TcpOptionMap: the options the handler knows and how many bytes it reads *)
(* for each, none for those of a length of their own.                      *)
OptionSize ==
  [EOL |-> 1, NOP |-> 1, MSS |-> 4, WSOPT |-> 3, SACKPermitted |-> 2, SACK |-> 0,
   TSOPT |-> 10, UTO |-> 4, TCPAO |-> 0, Experimental |-> 0]

(* The kinds of the options, and of what is read when there are none.      *)
OptionKinds == HeaderFor("TCP").options \o HeaderFor("TCP").beyond

(* A segment that is no SYN is left at its flags; the options of a SYN are *)
(* read in a loop.                                                         *)
ParseTcp ==
    /\ Turn("TCP")
    /\ IF HeaderFor("TCP").syn
       THEN /\ Scroll(Bytes(TcpHeader))
            /\ phase' = "options"
            /\ stack' = Attached("TCP", TRUE)
            /\ shared' = FALSE
            /\ UNCHANGED <<given, frame, following, teller, told>>
       ELSE /\ Scroll(Bytes(SubSeq(TcpHeader, 1, 5)))
            /\ stack' = Attached("TCP", FALSE)
            /\ following' = None
            /\ phase' = "tell"
            /\ shared' = FALSE
            /\ teller' = Len(stack')
            /\ UNCHANGED <<given, frame, told>>

(* One turn of that loop.  It ends at EOL, or when as many bytes were read *)
(* as the header has for options; the offset is then rounded to words and  *)
(* the next handler is looked for, which TCP has none of.                  *)
TcpOption ==
    /\ phase = "options"
    /\ LET kind == OptionKinds[taken + 1]
           known == kind \in DOMAIN OptionSize
           size == OptionSize[kind]
           done == kind = "EOL" \/ optionsOffset + size = HeaderFor("TCP").size - 20
       IN  IF ~known
           THEN /\ phase' = "down"
                /\ UNCHANGED <<stack, following, shared, offset, taken, optionsOffset,
                               teller>>
           ELSE /\ optionsOffset' = optionsOffset + size
                /\ taken' = IF size = 0 THEN taken ELSE taken + 1
                /\ offset' = IF done THEN offset + size + ((-(optionsOffset + size)) % 4)
                                     ELSE offset + size
                /\ phase' = IF done THEN "tell" ELSE "options"
                /\ following' = IF done THEN None ELSE following
                /\ teller' = IF done THEN Len(stack) ELSE teller
                /\ UNCHANGED <<stack, shared>>
    /\ UNCHANGED <<given, frame, told>>
-----------------------------------------------------------------------------
(* The frames that are captured say what they hold: behind a header whose  *)
(* fields announce another one comes that one, and there is one OSPF       *)
(* packet at most.  (A frame may end early, or go on, where nothing is     *)
(* announced.)                                                             *)
LayerOf(h) == 256 * h.high + h.low

HeaderSize ==
  [L2SELECTION |-> Bytes(EthernetHeader), ETHERNETII |-> 0, IEEE8023 |-> Bytes(Llc),
   UDP |-> Bytes(UdpHeader), ICMP |-> Bytes(IcmpHeader), LDP |-> Bytes(LdpHeader),
   LDPMESSAGE |-> Bytes(LdpMessage), OSPF |-> Bytes(OspfHeader),
   OSPFDBD |-> Bytes(OspfDbdHeader), OSPFLSU |-> Bytes(OspfLsuHeader),
   OSPFLSA |-> Bytes(OspfLsaHeader), OSPFLSAROUTE |-> Bytes(OspfLsaRouterHeader),
   OSPFLLSDATABLOCK |-> Bytes(OspfLlsDataBlockHeader)]

Announces(f, k, c) ==
    LET h == f[k] IN
    \/ h.name = "L2SELECTION" /\ c = (IF LayerOf(h) <= 1500 THEN "IEEE8023" ELSE "ETHERNETII")
    \/ h.name = "ETHERNETII" /\ c \in {"ARP", "IPV4"} /\ LayerOf(f[k - 1]) = LayerId[c]
    \/ h.name = "IEEE8023" /\ c = "STP" /\ h.dsap = 66 /\ h.ssap = 66
    \/ h.name = "IEEE8023" /\ c = "CISCO" /\ h.cisco
    \/ h.name = "IPV4" /\ c \in DOMAIN Protocol /\ h.protocol = Protocol[c]
    \/ h.name = "UDP" /\ c \in DOMAIN DestinationPort /\ h.port = DestinationPort[c]
    \/ h.name = "ICMP" /\ c = "ICMPECHO" /\ h.type \in {0, 8}
    \/ h.name = "LDP" /\ c = "LDPMESSAGE"
    \/ h.name = "LDPMESSAGE" /\ c = "LDPMESSAGETLV"
    \/ h.name = "OSPF" /\ c \in DOMAIN PacketType /\ h.type \in PacketType[c]
    \/ h.name = "OSPFHELLO" /\ c = "OSPFLLSDATABLOCK" /\ h.lls
          /\ f[k - 2].total - 4 * f[k - 2].words - f[k - 1].length > 0
    \/ h.name = "OSPFDBD" /\ c = "OSPFLSA" /\ LsaHeaderCount(f[k - 1]) > 0
    \/ h.name = "OSPFLSU" /\ c = "OSPFLSA" /\ h.count > 0
    \/ h.name = "OSPFLLSDATABLOCK" /\ c = "OSPFLLSDATABLOCKTLV"
    \/ h.name = "OSPFLSA" /\ "OSPFLSU" \in Names(f)
          /\ c \in DOMAIN LsaType /\ h.type \in LsaType[c]
    \/ h.name = "OSPFLSAROUTE" /\ c = "OSPFLSAROUTELINK" /\ h.links > 0

(* What the numbers in the k-th header are, and that lengths are those of  *)
(* what they count.                                                        *)
HasItsLength(f, k) ==
    LET h == f[k] IN
    /\ h.size \in Nat
    /\ h.name \in DOMAIN HeaderSize => h.size = HeaderSize[h.name]
    /\ h.name = "L2SELECTION" => /\ {h.high, h.low} \subseteq 0 .. 255
                                 /\ LayerOf(h) \notin 1501 .. 1535
    /\ h.name = "IPV4" => /\ h.words \in Nat /\ h.words >= 5
                          /\ h.size = Bytes(IPHeader) + (4 * h.words - 20)
    /\ h.name \in {"UDP", "OSPF"} => h.length \in Nat
    /\ h.name = "RIP" => f[k - 1].length >= Bytes(UdpHeader) + Bytes(RipPreambleHeader)
    /\ h.name = "OSPFDBD" => f[k - 1].length >= Bytes(OspfHeader) + Bytes(OspfDbdHeader)
    /\ h.name = "OSPFHELLO" => \E n \in 0 .. h.size :
          /\ h.size = Bytes(OspfHelloHeader) + IPAddress * n
          /\ f[k - 1].length = Bytes(OspfHeader) + h.size
    /\ h.name = "OSPFLSU" => h.count \in Nat
    /\ h.name = "OSPFLSAROUTE" => h.links \in Nat
    /\ h.name = "TCP" => h.options \in Seq(Range(h.options)) /\ h.beyond \in Seq(Range(h.beyond))

(* The kinds of options of a SYN that the frame tells are enough for the   *)
(* loop that reads them: to its end, to a kind it does not know, or to one *)
(* that it does not get past.                                              *)
OptionBytes(kinds, n) == Bytes([i \in 1 .. n |-> OptionSize[kinds[i]]])
TellsItsOptions(h) ==
    LET kinds == h.options \o h.beyond
    IN  \/ ~h.syn
        \/ \E n \in DOMAIN kinds : \/ kinds[n] \notin DOMAIN OptionSize
                                   \/ OptionSize[kinds[n]] = 0
                                   \/ kinds[n] = "EOL"
                                   \/ OptionBytes(kinds, n) = h.size - 20

WellFormed(f) ==
    /\ f \in Seq(Range(f)) /\ f # <<>> /\ f[1].name = "L2SELECTION"
    /\ \A k \in DOMAIN f :
          /\ f[k].name \in Handlers
          /\ HasItsLength(f, k)
          /\ f[k].name = "TCP" => TellsItsOptions(f[k])
          /\ \A c \in Handlers : Announces(f, k, c) => k < Len(f) /\ f[k + 1].name = c
    /\ \A j, k \in DOMAIN f : {f[j].name, f[k].name} \subseteq DOMAIN PacketType => j = k

ASSUME TrafficAssumption == \A f \in Traffic : WellFormed(f)
-----------------------------------------------------------------------------
(* The handlers that tell a module of what they read (SeriesCompleted);    *)
(* that of ARP only tells of replies.                                      *)
Tellers == {"ARP", "OSPFHELLO", "OSPFDBD", "RIP", "ICMPECHO", "IMAGE"}

(* A bug a change could bring in: ARP tells of requests too.               *)
TellsOfRequests(name) == name \in Tellers

Tells(name) == name \in Tellers /\ (name = "ARP" => HeaderFor("ARP").operation = 2)

(* OnSeriesCompleted, innermost first.  The callback gets the headers of   *)
(* all outer layers and takes out its own, which must not be null.         *)
OnSeriesCompleted ==
    /\ phase = "tell"
    /\ teller > 0
    /\ LET name == stack[teller].name IN
       IF ~Tells(name) THEN phase' = phase /\ told' = told
       ELSE IF stack[teller].set
       THEN /\ phase' = phase
            /\ told' = Append(told, [to |-> name, package |-> Package(stack, teller)])
       ELSE phase' = "down" /\ told' = told
    /\ teller' = teller - 1
    /\ UNCHANGED <<given, frame, stack, following, shared, offset, taken, optionsOffset>>

Returned ==
    /\ phase = "tell"
    /\ teller = 0
    /\ Return
    /\ UNCHANGED shared

ParseHeader ==
    \/ ParseRoot \/ ParseEthernetII \/ ParseIeee8023 \/ ParseStp \/ ParseCisco
    \/ ParseArp \/ ParseIPv4 \/ ParseUdp \/ ParseRip \/ ParseImage
    \/ ParseIcmp \/ ParseIcmpEcho \/ ParseLdp \/ ParseLdpMessage \/ ParseLdpTlv
    \/ ParseOspf \/ ParseHello \/ ParseDbd \/ ParseLsr \/ ParseLsu \/ ParseLsack
    \/ ParseLlsBlock \/ ParseLlsTlv \/ ParseLsa \/ ParseLsaRoute \/ ParseLsaRouteLink
    \/ ParseLsaNetwork \/ ParseLsaSummary \/ ParseLsaExternal

(* The steps of Begin between the capture of a frame and its return.       *)
BeginStep ==
    \/ ParseL2Selection
    \/ (ParseHeader \/ ParseTcp) /\ UNCHANGED <<taken, optionsOffset>>
    \/ TcpOption \/ OnSeriesCompleted \/ Returned

PipeNext == (\E f \in Traffic : Captured(f)) \/ BeginStep

PipeSpec == PipeInit /\ [][PipeNext]_pipeVars

(* The thread that runs Begin is not stopped in the middle of it.          *)
PipeFairness == WF_pipeVars(BeginStep)
-----------------------------------------------------------------------------
(* The handlers on the stack are known ones, and each one's parent comes   *)
(* before it, so that every walk of GetValue and SetValue ends             *)
(* (Handler.cs:210-260, RoutingController.cs:343-356).                     *)
PipeTypeOK ==
    /\ routers \in RouterSets
    /\ llsFirst \in BOOLEAN
    /\ phase \in {"idle", "parse", "options", "tell", "down"}
    /\ frame \in Traffic \cup {<<>>}
    /\ following \in Handlers \cup {None}
    /\ shared \in BOOLEAN
    /\ {offset, taken, optionsOffset} \subseteq Nat
    /\ teller \in 0 .. Len(stack)
    /\ \A k \in DOMAIN stack :
          /\ stack[k].name \in Indexed
          /\ stack[k].parent \in 0 .. k - 1
          /\ stack[k].index <= stack[k].max

(* The frames whose handling throws: an LSU without LSAs, or one that      *)
(* starts with a router LSA, whatever its links; anything sent to the port *)
(* of IMAGE; a SYN with an option of a kind that TcpOptionMap lacks, or    *)
(* whose options do not end where its header does and which is followed by *)
(* such a kind.                                                            *)
UnreadableLsu ==
    \E k \in DOMAIN frame : /\ frame[k].name = "OSPFLSU"
                            /\ frame[k].count > 0 => frame[k + 2].name = "OSPFLSAROUTE"

UnknownOption ==
    \E k \in DOMAIN frame : /\ frame[k].name = "TCP" /\ frame[k].syn
                            /\ Range(frame[k].options \o frame[k].beyond)
                                   \ DOMAIN OptionSize # {}

(* No frame but these brings the router down: whatever combination of      *)
(* configured handlers, order of the catalog and frames before it, no      *)
(* handler asks for a header that was not stored or an index that nobody   *)
(* set (Handler.cs:281-296, OspfLsaRouteLinkHandler, OspfLsuHandler,       *)
(* ImageModule, TcpHandler.cs:52-129).                                     *)
OnlyTheseThrow ==
    phase = "down" =>
        UnreadableLsu \/ UnknownOption \/ "IMAGE" \in Names(frame)

(* Each handler reads the header it is for, at the place where that is in  *)
(* the frame, as far as headers are read at all.  There are two            *)
(* exceptions: in a DBD with LSA headers the LLS data block is looked for  *)
(* where the first of them is, if the catalog lists its handler first; and *)
(* the length of an 802.3 frame is taken for an Ethernet II type when its  *)
(* high byte is not zero and its low byte has three digits                 *)
(* (EthernetHeader.cs:13-19, the handlers' Parse against their GetBytes).  *)
Displaced(name) ==
    \/ /\ name \in {"OSPFLLSDATABLOCK", "OSPFLLSDATABLOCKTLV"}
       /\ llsFirst /\ {"OSPFDBD", "OSPFLSA"} \subseteq Names(frame)
    \/ /\ name = "ETHERNETII" /\ "IEEE8023" \in Names(frame)
       /\ frame[1].high > 0 /\ frame[1].low >= 100

ReadsWhereItLies ==
    \A i \in DOMAIN stack \ {1} :
        \/ \E k \in DOMAIN frame : /\ frame[k].name = stack[i].name
                                   /\ Place(frame, k) = stack[i].at
        \/ Displaced(stack[i].name)

(* A frame is told to one subscriber at most, and with every header that   *)
(* lies around the one it is about; a frame that comes back to its sender  *)
(* is told to nobody (RoutingController.cs:343-377, 613-664).              *)
HeadersReachTheSubscriber ==
    /\ Len(told) <= 1
    /\ told # <<>> =>
          /\ ~frame[1].own
          /\ \E k \in DOMAIN frame :
                /\ frame[k].name = told[1].to
                /\ Names(SubSeq(frame, 1, k)) \subseteq told[1].package

(* What a router of this kind sends, another one takes apart down to the   *)
(* last header, and tells the module that is there for it; of a DBD it     *)
(* reads no more than one header behind OSPFDBD, and nothing without LSAs  *)
(* (GetBytes and Parse of the handlers, SystemModule, Interface.cs:309-327,*)
(* Neighbor.cs:350-373, RipModule.cs:188-235).                             *)
Built ==
    {SentArp, SentEcho} \cup {SentHello(n) : n \in 0 .. 3}
    \cup {SentDbd(n) : n \in 0 .. 3} \cup {SentRip(n) : n \in 0 .. 3}

BuiltIsParsed ==
    phase = "tell" /\ teller = 0 /\ frame \in Built /\ Names(frame) \subseteq Indexed =>
        LET read == [i \in 1 .. Len(stack) - 1 |-> stack[i + 1].name]
            sent == [k \in DOMAIN frame |-> frame[k].name]
            subscribers == [i \in DOMAIN told |-> told[i].to]
        IN  /\ subscribers = IF frame = SentArp THEN <<>> ELSE <<sent[5]>>
            /\ IF "OSPFDBD" \in Names(frame)
               THEN /\ Len(read) >= 5 /\ \A k \in 1 .. 5 : read[k] = sent[k]
                    /\ (Len(read) > 5) = ("OSPFLSA" \in Names(frame))
               ELSE read = sent

(* A SYN with an option that TcpOptionMap has no size for is read for      *)
(* ever, with the lock held.                                               *)
Spins ==
    \E k \in DOMAIN frame :
        /\ frame[k].name = "TCP" /\ frame[k].syn
        /\ Range(frame[k].options \o frame[k].beyond)
               \cap {"SACK", "TCPAO", "Experimental"} # {}

(* Every other frame is let go, and the next one can be taken, unless the  *)
(* router is down: the chain of handlers does not run in circles           *)
(* (RoutingController.cs:341-371, TcpHandler.cs:64-122).                   *)
EveryFrameIsLetGo ==
    (phase \notin {"idle", "down"} /\ ~Spins) ~> phase \in {"idle", "down"}
=============================================================================
