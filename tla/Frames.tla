-------------------------------- MODULE Frames --------------------------------
(***************************************************************************)
(* What a frame is, and the frames that GetBytes of the handlers makes.    *)
(*                                                                         *)
(* A frame is the sequence of the headers in it, in the order of their     *)
(* bytes.  A header is a record: the name of the handler it is for, its    *)
(* size in bytes and the fields that decide how the frame is taken apart.  *)
(* GeneratePacketData wraps the data it is given into one header after the *)
(* other, so each operator below puts its header in front of "data".       *)
(*                                                                         *)
(* A header the code can only read takes its fields as parameters; one it  *)
(* can also write fills them in as GetBytes does.                          *)
(***************************************************************************)
EXTENDS Integers, Sequences, SequencesExt

(* The number of bytes of fields of these sizes, of a part of a frame, and *)
(* where its k-th header is.                                               *)
Bytes(fields) == FoldLeft(LAMBDA sum, field : sum + field, 0, fields)
Size(data) == Bytes([k \in DOMAIN data |-> data[k].size])
Place(frame, k) == Size(SubSeq(frame, 1, k - 1))

Names(frame) == {frame[k].name : k \in DOMAIN frame}
-----------------------------------------------------------------------------
(* The structures of the headers: the sizes in bytes of the fields, in the *)
(* order in which they are loaded.                                         *)
MacAddress == 6
IPAddress == 4
TypeOrLength == Bytes(<<1, 1>>)

EthernetHeader == <<MacAddress, MacAddress, TypeOrLength>>
Llc == <<1, 1, 1>>
Bpdu == <<2, 1, 1, 1, 2, MacAddress, 4, 2, MacAddress, 2, 2, 2, 2, 2>>
ArpHeader == <<2, 2, 1, 1, 2, MacAddress, IPAddress, MacAddress, IPAddress>>
IPHeader == <<1, 1, 2, 2, 2, 1, 1, 2, IPAddress, IPAddress>>
UdpHeader == <<2, 2, 2, 2>>
TcpHeader == <<2, 2, 4, 4, 2, 2, 2, 2>>
IcmpHeader == <<1, 1, 2>>
IcmpEchoHeader == <<2, 2>>
RipPreambleHeader == <<1, 1, 2>>
RipDataHeader == <<2, 2, IPAddress, IPAddress, IPAddress, 4>>
OspfHeader == <<1, 1, 2, IPAddress, IPAddress, 2, 2, 4, 4>>
OspfHelloHeader == <<IPAddress, 2, 1, 1, 4, IPAddress, IPAddress>>
OspfDbdHeader == <<2, 1, 1, 4>>
OspfLsrHeader == <<4, IPAddress, IPAddress>>
OspfLsuHeader == <<4>>
OspfLlsDataBlockHeader == <<2, 2>>
OspfLlsDataBlockTlv == <<2, 2>>
OspfLsaHeader == <<2, 1, 1, IPAddress, IPAddress, 4, 2, 2>>
OspfLsaRouterHeader == <<1, 1, 2>>
OspfLsaRouterLinkHeader == <<IPAddress, IPAddress, 1, 1, 2>>
OspfLsaNetworkHeader == <<4, 4>>
OspfLsaSummaryHeader == <<4, 1, 1, 1, 1, 1, 1, 1, 1>>
OspfLsaExternalHeader == <<4, 1, 1, 1, 1, 4, 4, 1, 1, 1, 1, 4, 4>>
LdpHeader == <<2, 2, IPAddress, 2>>
LdpMessage == <<2, 2, 4>>
LdpTlv == <<2, 2>>
-----------------------------------------------------------------------------
(* EthernetHeader is read once, and offered to two handlers: ETHERNETII    *)
(* has no bytes of its own.  "layer" is a LayerID, or a length; "own" says *)
(* that the source address is one of this router.                          *)
Ethernet(own, layer) ==
    [name |-> "L2SELECTION", size |-> Bytes(EthernetHeader), own |-> own,
     high |-> layer \div 256, low |-> layer % 256]

EthernetIIBytes(own, layer, data) ==
    <<Ethernet(own, layer), [name |-> "ETHERNETII", size |-> 0]>> \o data

(* Llc calls the first of its three bytes cf, so the other two are its     *)
(* dsap and ssap.  "cisco": the frame goes to 01:00:0C:CC:CC:CC.           *)
Ieee8023(own, length, llc, cisco, data) ==
    << Ethernet(own, length),
       [name |-> "IEEE8023", size |-> Bytes(Llc), dsap |-> llc[2], ssap |-> llc[3],
        cisco |-> cisco] >> \o data

ArpBytes(operation) == <<[name |-> "ARP", size |-> Bytes(ArpHeader), operation |-> operation]>>

(* "words" is the header length in words of four bytes: 5 in all that      *)
(* IPv4Handler writes, more in the datagrams of others.                    *)
IPv4Bytes(words, protocol, data) ==
    <<[name |-> "IPV4", size |-> 4 * words, words |-> words, protocol |-> protocol,
       total |-> 4 * words + Size(data)]>> \o data

UdpBytes(port, data) ==
    <<[name |-> "UDP", size |-> Bytes(UdpHeader), port |-> port,
       length |-> Bytes(UdpHeader) + Size(data)]>> \o data

RipBytes(entries) ==
    <<[name |-> "RIP", size |-> Bytes(RipPreambleHeader) + Bytes(RipDataHeader) * entries]>>

IcmpBytes(type, data) ==
    <<[name |-> "ICMP", size |-> Bytes(IcmpHeader), type |-> type]>> \o data

(* Identifier and sequence number, then 32 letters.                        *)
IcmpEchoBytes == <<[name |-> "ICMPECHO", size |-> Bytes(IcmpEchoHeader) + 32]>>

(* The length leaves out the LLS data block behind the packet: its size is *)
(* a property of the packet data, which the block's GetBytes adds.         *)
OspfBytes(type, data) ==
    LET inBlock(h) == h.name \in {"OSPFLLSDATABLOCK", "OSPFLLSDATABLOCKTLV"}
        block == Bytes([k \in DOMAIN data |-> IF inBlock(data[k]) THEN data[k].size ELSE 0])
    IN  <<[name |-> "OSPF", size |-> Bytes(OspfHeader), type |-> type,
           length |-> Bytes(OspfHeader) + Size(data) - block]>> \o data

(* "lls": the options say that an LLS data block follows.                  *)
HelloBytes(neighbors, lls, data) ==
    <<[name |-> "OSPFHELLO", size |-> Bytes(OspfHelloHeader) + IPAddress * neighbors,
       lls |-> lls]>> \o data

LsaBytes(type) == <<[name |-> "OSPFLSA", size |-> Bytes(OspfLsaHeader), type |-> type]>>

(* The headers of the LSAs are put in front of the LLS data block, one     *)
(* after the other, and their length fields count all that follows.        *)
DbdBytes(lsas, lls, data) ==
    <<[name |-> "OSPFDBD", size |-> Bytes(OspfDbdHeader), lls |-> lls]>>
        \o [i \in 1 .. lsas |-> Head(LsaBytes(1))] \o data

LlsBlockBytes(data) ==
    <<[name |-> "OSPFLLSDATABLOCK", size |-> Bytes(OspfLlsDataBlockHeader)]>> \o data

LlsTlvBytes == <<[name |-> "OSPFLLSDATABLOCKTLV", size |-> Bytes(OspfLlsDataBlockTlv) + 4]>>
-----------------------------------------------------------------------------
(* Headers that are read and never written.                                *)
StpBytes == <<[name |-> "STP", size |-> Bytes(Bpdu)]>>
CiscoBytes == <<[name |-> "CISCO", size |-> 0]>>
ImageBytes == <<[name |-> "IMAGE", size |-> 0]>>

LsrBytes == <<[name |-> "OSPFLSR", size |-> Bytes(OspfLsrHeader)]>>
LsackBytes == <<[name |-> "OSPFLSACK", size |-> 0]>>
LsuBytes(count, data) ==
    <<[name |-> "OSPFLSU", size |-> Bytes(OspfLsuHeader), count |-> count]>> \o data

(* An LSA by its type: a router LSA has links, the other ones are of one   *)
(* size each.                                                              *)
RouterLsa(links) ==
    LsaBytes(1)
        \o <<[name |-> "OSPFLSAROUTE", size |-> Bytes(OspfLsaRouterHeader), links |-> links]>>
        \o [i \in 1 .. links |->
               [name |-> "OSPFLSAROUTELINK", size |-> Bytes(OspfLsaRouterLinkHeader)]]

OtherLsa(type) ==
    LsaBytes(type) \o
    << CASE type = 2 -> [name |-> "OSPFLSANETWORK", size |-> Bytes(OspfLsaNetworkHeader)]
         [] type \in {3, 4} ->
                [name |-> "OSPFLSASUMMARY", size |-> Bytes(OspfLsaSummaryHeader)]
         [] type = 5 -> [name |-> "OSPFLSAEXTERNAL", size |-> Bytes(OspfLsaExternalHeader)] >>

LdpBytes ==
    << [name |-> "LDP", size |-> Bytes(LdpHeader)],
       [name |-> "LDPMESSAGE", size |-> Bytes(LdpMessage)],
       [name |-> "LDPMESSAGETLV", size |-> Bytes(LdpTlv) + 4] >>

(* "options" are the kinds of the TCP options, of optionsSize bytes with   *)
(* their padding; "beyond" are the kinds that the bytes behind the header  *)
(* look like.                                                              *)
TcpBytes(syn, options, optionsSize, beyond) ==
    <<[name |-> "TCP", size |-> Bytes(TcpHeader) + optionsSize, syn |-> syn,
       options |-> options, beyond |-> beyond]>>

-----------------------------------------------------------------------------
(* What the modules send: SendHello and SendDBD always with an LLS data    *)
(* block of one TLV, SendFlood and SendRequest, the request of ArpLookup   *)
(* and the echo request of the console.                                    *)
LlsBlock == LlsBlockBytes(LlsTlvBytes)

SentHello(neighbors) ==
    EthernetIIBytes(FALSE, 2048,
        IPv4Bytes(5, 89, OspfBytes(1, HelloBytes(neighbors, TRUE, LlsBlock))))

SentDbd(lsas) ==
    EthernetIIBytes(FALSE, 2048,
        IPv4Bytes(5, 89, OspfBytes(2, DbdBytes(lsas, TRUE, LlsBlock))))

SentRip(entries) ==
    EthernetIIBytes(FALSE, 2048, IPv4Bytes(5, 17, UdpBytes(520, RipBytes(entries))))

SentArp == EthernetIIBytes(FALSE, 2054, ArpBytes(1))

SentEcho == EthernetIIBytes(FALSE, 2048, IPv4Bytes(5, 1, IcmpBytes(8, IcmpEchoBytes)))
=============================================================================
