---------------------------- MODULE PipelineProofs ----------------------------
(***************************************************************************)
(* Proofs about Pipeline, for any frames that say what they hold, any      *)
(* configured handlers and either order of the catalog.                    *)
(*                                                                         *)
(* What carries them: handlers have levels, and the handler of level n is  *)
(* the n-th on the stack and reads the header before the n-th of the       *)
(* frame, where that is.                                                   *)
(***************************************************************************)
EXTENDS Pipeline, WellFoundedInduction, TLAPS

-----------------------------------------------------------------------------
(* Least elements, for inductions over what has no bound. *)

LEMMA LeastNat ==
    ASSUME NEW S \in SUBSET Nat, S # {}
    PROVE  \E x \in S : \A y \in S : x <= y
<1> DEFINE R == {pair \in Nat \X Nat : pair[1] < pair[2]}
<1>1. IsWellFoundedOn(R, Nat)
  BY NatLessThanWellFounded DEF OpToRel
<1>2. PICK x \in S : \A y \in S : <<y, x>> \notin R
  <2> HIDE DEF R
  <2>1. QED
    BY <1>1, WFMin
<1>3. \A y \in S : ~(y < x)
  BY <1>2
<1>4. QED
  BY <1>2, <1>3

\* A set of naturals that holds zero and with a number the next one holds all
\* numbers up to n, if it only fails beyond n.
LEMMA UpTo ==
    ASSUME NEW n \in Nat, NEW T, 0 \in T,
           \A k \in 0 .. n - 1 : k \in T => k + 1 \in T
    PROVE  \A k \in 0 .. n : k \in T
<1> DEFINE S == (0 .. n) \ T
<1>1. SUFFICES ASSUME S # {} PROVE FALSE
  OBVIOUS
<1>2. S \in SUBSET Nat
  OBVIOUS
<1>3. PICK x \in S : \A y \in S : x <= y
  <2> HIDE DEF S
  <2>1. QED
    BY <1>1, <1>2, LeastNat
<1>4. x \in Nat /\ x # 0 /\ x \in 0 .. n /\ x \notin T
  BY <1>3
<1>5. x - 1 \in 0 .. n - 1 /\ x - 1 \notin S
  BY <1>3, <1>4
<1>6. x - 1 \in T
  BY <1>5
<1>7. x - 1 + 1 \in T
  BY <1>5, <1>6
<1>8. QED
  BY <1>4, <1>7

-----------------------------------------------------------------------------
(* Sums of sizes. *)

\* One step of the fold in Bytes: the last size is added to those before it.
Adds(v, n, sum) ==
    sum = [s \in SUBSET (1 .. n) |->
              IF s = {} THEN 0 ELSE sum[s \ {Max(s)}] + v[Max(s)]]

LEMMA MaxIsLast ==
    ASSUME NEW n \in Nat, NEW s \in SUBSET (1 .. n + 1), n + 1 \in s
    PROVE  Max(s) = n + 1
<1>1. \A y \in s : n + 1 >= y
  OBVIOUS
<1>2. \E x \in s : \A y \in s : x >= y
  BY <1>1
<1>3. Max(s) \in s /\ Max(s) >= n + 1
  BY <1>2 DEF Max
<1>4. Max(s) \in 1 .. n + 1
  BY <1>3
<1> HIDE DEF Max
<1>5. QED
  BY <1>3, <1>4

LEMMA SumExists == ASSUME NEW v, NEW n \in Nat PROVE \E sum : Adds(v, n, sum)
<1> DEFINE T == {k \in Nat : \E sum : Adds(v, k, sum)}
<1>1. 0 \in T
  <2> DEFINE z == [s \in SUBSET (1 .. 0) |-> 0]
  <2>1. Adds(v, 0, z)
    BY DEF Adds
  <2>2. QED
    BY <2>1
<1>2. ASSUME NEW k \in 0 .. n - 1, k \in T PROVE k + 1 \in T
  <2>1. PICK f : Adds(v, k, f)
    BY <1>2
  <2>2. k \in Nat /\ k + 1 \in Nat /\ 1 .. k \subseteq 1 .. k + 1
    OBVIOUS
  <2> DEFINE g == [s \in SUBSET (1 .. k + 1) |->
                      IF k + 1 \in s THEN f[s \ {k + 1}] + v[k + 1] ELSE f[s]]
             h == [s \in SUBSET (1 .. k + 1) |->
                      IF s = {} THEN 0 ELSE g[s \ {Max(s)}] + v[Max(s)]]
  <2>3. ASSUME NEW s \in SUBSET (1 .. k + 1) PROVE g[s] = h[s]
    <3>1. CASE k + 1 \in s
      <4>1. Max(s) = k + 1 /\ s # {}
        BY <2>2, <3>1, MaxIsLast
      <4>2. g[s] = f[s \ {k + 1}] + v[k + 1]
        BY <3>1
      <4>3. s \ {k + 1} \in SUBSET (1 .. k + 1) /\ k + 1 \notin s \ {k + 1}
        OBVIOUS
      <4>4. g[s \ {k + 1}] = f[s \ {k + 1}]
        BY <4>3
      <4>5. h[s] = g[s \ {k + 1}] + v[k + 1]
        BY <4>1
      <4>6. QED
        BY <4>2, <4>4, <4>5
    <3>2. CASE k + 1 \notin s
      <4>1. s \in SUBSET (1 .. k)
        BY <2>2, <3>2
      <4>2. g[s] = f[s]
        BY <3>2
      <4>3. f[s] = IF s = {} THEN 0 ELSE f[s \ {Max(s)}] + v[Max(s)]
        BY <2>1, <4>1 DEF Adds
      <4>4. g[s \ {Max(s)}] = f[s \ {Max(s)}]
        <5>1. s \ {Max(s)} \in SUBSET (1 .. k + 1) /\ k + 1 \notin s \ {Max(s)}
          BY <3>2
        <5>2. QED
          BY <5>1
      <4>5. QED
        BY <4>2, <4>3, <4>4
    <3>3. QED
      BY <3>1, <3>2
  <2>4. g = h
    BY <2>3
  <2>5. Adds(v, k + 1, g)
    BY <2>4 DEF Adds
  <2>6. QED
    BY <2>2, <2>5
<1>3. \A k \in 0 .. n : k \in T
  <2> HIDE DEF T
  <2>1. QED
    BY <1>1, <1>2, UpTo
<1>4. QED
  BY <1>3

LEMMA SumsAgree ==
    ASSUME NEW n \in Nat, NEW m \in Nat, n <= m, NEW v, NEW w, NEW f, NEW g,
           Adds(v, n, f), Adds(w, m, g), \A i \in 1 .. n : v[i] = w[i]
    PROVE  f[1 .. n] = g[1 .. n]
<1> DEFINE T == {k \in Nat : \A s \in SUBSET (1 .. k) : f[s] = g[s]}
<1>1. 0 \in T
  <2>1. ASSUME NEW s \in SUBSET (1 .. 0) PROVE f[s] = g[s]
    <3>1. s = {} /\ s \in SUBSET (1 .. n) /\ s \in SUBSET (1 .. m)
      OBVIOUS
    <3>2. QED
      BY <3>1 DEF Adds
  <2>2. QED
    BY <2>1
<1>2. ASSUME NEW k \in 0 .. n - 1, k \in T PROVE k + 1 \in T
  <2>1. ASSUME NEW s \in SUBSET (1 .. k + 1) PROVE f[s] = g[s]
    <3>1. CASE k + 1 \in s
      <4>1. s \in SUBSET (1 .. n) /\ s \in SUBSET (1 .. m) /\ s # {} /\ k \in Nat
        BY <3>1
      <4>2. Max(s) = k + 1
        BY <3>1, <4>1, MaxIsLast
      <4>3. f[s] = f[s \ {k + 1}] + v[k + 1] /\ g[s] = g[s \ {k + 1}] + w[k + 1]
        BY <4>1, <4>2 DEF Adds
      <4>4. s \ {k + 1} \in SUBSET (1 .. k)
        OBVIOUS
      <4>5. f[s \ {k + 1}] = g[s \ {k + 1}]
        BY <1>2, <4>4
      <4>6. v[k + 1] = w[k + 1]
        OBVIOUS
      <4>7. QED
        BY <4>3, <4>5, <4>6
    <3>2. CASE k + 1 \notin s
      <4>1. s \in SUBSET (1 .. k)
        BY <3>2
      <4>2. QED
        BY <1>2, <4>1
    <3>3. QED
      BY <3>1, <3>2
  <2>2. QED
    BY <2>1
<1>3. \A k \in 0 .. n : k \in T
  <2> HIDE DEF T
  <2>1. QED
    BY <1>1, <1>2, UpTo
<1>4. n \in T
  BY <1>3
<1>5. QED
  BY <1>4

LEMMA BytesIs ==
    ASSUME NEW v, NEW n \in Nat, DOMAIN v = 1 .. n
    PROVE  \E sum : Adds(v, n, sum) /\ Bytes(v) = sum[1 .. n]
<1>1. \E sum : Adds(v, n, sum)
  BY SumExists
<1>2. QED
  BY <1>1, Zenon DEF Bytes, FoldLeft, MapThenFoldSet, Adds

LEMMA BytesOfNone == ASSUME NEW v, DOMAIN v = 1 .. 0 PROVE Bytes(v) = 0
<1>1. PICK sum : Adds(v, 0, sum) /\ Bytes(v) = sum[1 .. 0]
  BY BytesIs
<1>2. 1 .. 0 = {}
  OBVIOUS
<1>3. QED
  BY <1>1, <1>2 DEF Adds

LEMMA BytesOfMore ==
    ASSUME NEW n \in Nat, NEW v, NEW w, DOMAIN v = 1 .. n + 1, DOMAIN w = 1 .. n,
           \A i \in 1 .. n : v[i] = w[i]
    PROVE  Bytes(v) = Bytes(w) + v[n + 1]
<1>1. n + 1 \in Nat
  OBVIOUS
<1>2. PICK f : Adds(v, n + 1, f) /\ Bytes(v) = f[1 .. n + 1]
  BY <1>1, BytesIs
<1>3. PICK g : Adds(w, n, g) /\ Bytes(w) = g[1 .. n]
  BY BytesIs
<1>4. Max(1 .. n + 1) = n + 1
  BY MaxIsLast
<1>5. (1 .. n + 1) \ {n + 1} = 1 .. n /\ 1 .. n + 1 # {}
  OBVIOUS
<1>6. f[1 .. n + 1] = f[1 .. n] + v[n + 1]
  <2> DEFINE s == 1 .. n + 1
  <2>1. s \in SUBSET (1 .. n + 1) /\ s # {}
    BY <1>5
  <2> HIDE DEF s
  <2>2. f[s] = f[s \ {Max(s)}] + v[Max(s)]
    BY <1>2, <2>1, Zenon DEF Adds
  <2>3. QED
    BY <1>4, <1>5, <2>2 DEF s
<1>7. f[1 .. n] = g[1 .. n]
  <2>1. n <= n + 1 /\ \A i \in 1 .. n : w[i] = v[i]
    OBVIOUS
  <2>2. g[1 .. n] = f[1 .. n]
    BY <1>1, <1>2, <1>3, <2>1, SumsAgree
  <2>3. QED
    BY <2>2
<1>8. QED
  BY <1>2, <1>3, <1>6, <1>7

LEMMA BytesNat ==
    ASSUME NEW n \in Nat, NEW v \in [1 .. n -> Nat] PROVE Bytes(v) \in Nat
<1> DEFINE T == {k \in Nat : \A w \in [1 .. k -> Nat] : Bytes(w) \in Nat}
<1>1. 0 \in T
  BY BytesOfNone
<1>2. ASSUME NEW k \in 0 .. n - 1, k \in T PROVE k + 1 \in T
  <2>1. ASSUME NEW w \in [1 .. k + 1 -> Nat] PROVE Bytes(w) \in Nat
    <3> DEFINE u == [i \in 1 .. k |-> w[i]]
    <3>1. u \in [1 .. k -> Nat] /\ w[k + 1] \in Nat /\ k \in Nat
      OBVIOUS
    <3>2. Bytes(w) = Bytes(u) + w[k + 1]
      BY <3>1, BytesOfMore
    <3>3. Bytes(u) \in Nat
      BY <1>2, <3>1
    <3>4. QED
      BY <3>1, <3>2, <3>3
  <2>2. QED
    BY <2>1
<1>3. \A k \in 0 .. n : k \in T
  <2> HIDE DEF T
  <2>1. QED
    BY <1>1, <1>2, UpTo
<1>4. n \in T
  BY <1>3
<1>5. QED
  BY <1>4

LEMMA BytesPositive ==
    ASSUME NEW n \in Nat, NEW v \in [1 .. n + 1 -> Nat], v[n + 1] > 0
    PROVE  Bytes(v) \in Nat \ {0}
<1> DEFINE u == [i \in 1 .. n |-> v[i]]
<1>1. u \in [1 .. n -> Nat] /\ v[n + 1] \in Nat
  OBVIOUS
<1>2. Bytes(v) = Bytes(u) + v[n + 1]
  BY <1>1, BytesOfMore
<1>3. Bytes(u) \in Nat
  BY <1>1, BytesNat
<1>4. QED
  BY <1>1, <1>2, <1>3

\* The structures of the headers have so many bytes that nothing is negative
\* and a division by one of them is one.
LEMMA StructureSizes ==
    /\ \A s \in {Llc, Bpdu, ArpHeader, IPHeader, UdpHeader, TcpHeader, IcmpHeader,
                 IcmpEchoHeader, RipPreambleHeader, OspfHeader, OspfHelloHeader,
                 OspfDbdHeader, OspfLsrHeader, OspfLsuHeader, OspfLlsDataBlockHeader,
                 OspfLsaRouterHeader, OspfLsaRouterLinkHeader,
                 OspfLsaNetworkHeader, OspfLsaSummaryHeader, OspfLsaExternalHeader,
                 LdpHeader, LdpMessage, EthernetHeader, SubSeq(TcpHeader, 1, 5)} :
          Bytes(s) \in Nat
    /\ Bytes(RipDataHeader) \in Nat \ {0} /\ Bytes(OspfLsaHeader) \in Nat \ {0}
<1> USE DEF MacAddress, IPAddress
<1>1. ASSUME NEW s \in Seq(Nat) PROVE Bytes(s) \in Nat
  <2>1. Len(s) \in Nat /\ s \in [1 .. Len(s) -> Nat]
    OBVIOUS
  <2>2. QED
    BY <2>1, BytesNat
<1>2. Llc \in Seq(Nat) /\ Bpdu \in Seq(Nat) /\ ArpHeader \in Seq(Nat) /\ IPHeader \in Seq(Nat)
  BY DEF Llc, Bpdu, ArpHeader, IPHeader
<1>3. /\ UdpHeader \in Seq(Nat) /\ TcpHeader \in Seq(Nat) /\ IcmpHeader \in Seq(Nat)
      /\ IcmpEchoHeader \in Seq(Nat) /\ RipPreambleHeader \in Seq(Nat)
  BY DEF UdpHeader, TcpHeader, IcmpHeader, IcmpEchoHeader, RipPreambleHeader
<1>4. /\ OspfHeader \in Seq(Nat) /\ OspfHelloHeader \in Seq(Nat) /\ OspfDbdHeader \in Seq(Nat)
      /\ OspfLsrHeader \in Seq(Nat) /\ OspfLsuHeader \in Seq(Nat)
      /\ OspfLlsDataBlockHeader \in Seq(Nat)
  BY DEF OspfHeader, OspfHelloHeader, OspfDbdHeader, OspfLsrHeader, OspfLsuHeader,
         OspfLlsDataBlockHeader
<1>5. /\ OspfLsaRouterHeader \in Seq(Nat) /\ OspfLsaRouterLinkHeader \in Seq(Nat)
      /\ OspfLsaNetworkHeader \in Seq(Nat) /\ OspfLsaSummaryHeader \in Seq(Nat)
      /\ LdpHeader \in Seq(Nat) /\ LdpMessage \in Seq(Nat)
  BY DEF OspfLsaRouterHeader, OspfLsaRouterLinkHeader, OspfLsaNetworkHeader,
         OspfLsaSummaryHeader, LdpHeader, LdpMessage
<1>6. OspfLsaExternalHeader \in Seq(Nat)
  BY DEF OspfLsaExternalHeader
<1>7. SubSeq(TcpHeader, 1, 5) \in Seq(Nat)
  BY <1>3 DEF TcpHeader
<1>8. EthernetHeader \in Seq(Nat)
  <2>1. TypeOrLength \in Nat
    <3>1. <<1, 1>> \in Seq(Nat)
      OBVIOUS
    <3>2. QED
      BY <1>1, <3>1 DEF TypeOrLength
  <2>2. QED
    BY <2>1 DEF EthernetHeader
<1>9. Bytes(RipDataHeader) \in Nat \ {0}
  <2>1. RipDataHeader \in [1 .. 5 + 1 -> Nat] /\ RipDataHeader[5 + 1] > 0
    BY DEF RipDataHeader
  <2>2. QED
    BY <2>1, BytesPositive
<1>10. Bytes(OspfLsaHeader) \in Nat \ {0}
  <2>1. OspfLsaHeader \in [1 .. 7 + 1 -> Nat] /\ OspfLsaHeader[7 + 1] > 0
    BY DEF OspfLsaHeader
  <2>2. QED
    BY <2>1, BytesPositive
<1> QED
  BY <1>1, <1>2, <1>3, <1>4, <1>5, <1>6, <1>7, <1>8, <1>9, <1>10

-----------------------------------------------------------------------------
(* Places in a frame. *)

LEMMA FirstPlace == ASSUME NEW f PROVE Place(f, 1) = 0
<1>1. SubSeq(f, 1, 1 - 1) = <<>>
  OBVIOUS
<1>2. DOMAIN [k \in DOMAIN <<>> |-> <<>>[k].size] = 1 .. 0
  OBVIOUS
<1>3. QED
  BY <1>1, <1>2, BytesOfNone DEF Place, Size

LEMMA NextPlace ==
    ASSUME NEW S, NEW f \in Seq(S), NEW k \in DOMAIN f
    PROVE  Place(f, k + 1) = Place(f, k) + f[k].size
<1> DEFINE p(n) == [i \in DOMAIN SubSeq(f, 1, n) |-> SubSeq(f, 1, n)[i].size]
<1>1. k - 1 \in Nat /\ k \in 1 .. Len(f) /\ k \in Nat /\ k - 1 + 1 = k /\ k + 1 - 1 = k
  OBVIOUS
<1>2. DOMAIN p(k) = 1 .. k - 1 + 1 /\ DOMAIN p(k - 1) = 1 .. k - 1
  BY <1>1
<1>3. \A i \in 1 .. k - 1 : p(k)[i] = p(k - 1)[i]
  BY <1>1
<1>4. p(k)[k - 1 + 1] = f[k].size
  BY <1>1
<1>5. Bytes(p(k)) = Bytes(p(k - 1)) + p(k)[k - 1 + 1]
  <2> HIDE DEF p
  <2>1. QED
    BY <1>1, <1>2, <1>3, BytesOfMore
<1>6. Place(f, k + 1) = Bytes(p(k)) /\ Place(f, k) = Bytes(p(k - 1))
  <2>1. Place(f, k + 1) = Size(SubSeq(f, 1, k))
    <3>1. ASSUME NEW j, j = k + 1 - 1 PROVE Size(SubSeq(f, 1, j)) = Size(SubSeq(f, 1, k))
      BY <1>1, <3>1
    <3>2. QED
      BY <3>1 DEF Place
  <2>2. Place(f, k) = Size(SubSeq(f, 1, k - 1))
    BY DEF Place
  <2>3. QED
    BY <2>1, <2>2, Zenon DEF Size
<1>7. QED
  BY <1>4, <1>5, <1>6

-----------------------------------------------------------------------------
(* The handlers and what may follow them. *)

LEMMA HandlersAre ==
    Handlers = {"ROOT", "L2SELECTION", "ETHERNETII", "IEEE8023", "STP", "CISCO", "ARP",
                "IPV4", "IPV6", "UDP", "TCP", "ICMP", "ICMPECHO", "RIP", "IMAGE", "LDP",
                "LDPMESSAGE", "LDPMESSAGETLV", "OSPF", "OSPFHELLO", "OSPFDBD", "OSPFLSR",
                "OSPFLSU", "OSPFLSACK", "OSPFLLSDATABLOCK", "OSPFLLSDATABLOCKTLV",
                "OSPFLSA", "OSPFLSAROUTE", "OSPFLSAROUTELINK", "OSPFLSANETWORK",
                "OSPFLSASUMMARY", "OSPFLSAEXTERNAL"}
  BY DEF Handlers, Parents

LEMMA Followers ==
    ASSUME NEW c \in Handlers, NEW p, p \in Parents[c]
    PROVE  \/ p = "NONE" /\ c = "ROOT"
           \/ p = "ROOT" /\ c = "L2SELECTION"
           \/ p = "L2SELECTION" /\ c \in {"ETHERNETII", "IEEE8023"}
           \/ p = "IEEE8023" /\ c \in {"STP", "CISCO"}
           \/ p = "ETHERNETII" /\ c \in {"ARP", "IPV4", "IPV6"}
           \/ p = "IPV4" /\ c \in {"UDP", "TCP", "ICMP", "OSPF"}
           \/ p = "IPV6" /\ c \in {"UDP", "TCP"}
           \/ p = "ICMP" /\ c = "ICMPECHO"
           \/ p = "UDP" /\ c \in {"RIP", "IMAGE", "LDP"}
           \/ p = "LDP" /\ c = "LDPMESSAGE"
           \/ p = "LDPMESSAGE" /\ c = "LDPMESSAGETLV"
           \/ p = "OSPF" /\ c \in {"OSPFHELLO", "OSPFDBD", "OSPFLSR", "OSPFLSU", "OSPFLSACK"}
           \/ p = "OSPFHELLO" /\ c = "OSPFLLSDATABLOCK"
           \/ p = "OSPFDBD" /\ c \in {"OSPFLLSDATABLOCK", "OSPFLSA"}
           \/ p = "OSPFLLSDATABLOCK" /\ c = "OSPFLLSDATABLOCKTLV"
           \/ p \in {"OSPFLSU", "OSPFLSACK"} /\ c = "OSPFLSA"
           \/ p = "OSPFLSA" /\ c \in {"OSPFLSAROUTE", "OSPFLSANETWORK", "OSPFLSASUMMARY",
                                      "OSPFLSAEXTERNAL"}
           \/ p = "OSPFLSAROUTE" /\ c = "OSPFLSAROUTELINK"
<1>1. /\ Parents["ROOT"] = {"NONE"} /\ Parents["L2SELECTION"] = {"ROOT"}
      /\ Parents["ETHERNETII"] = {"L2SELECTION"} /\ Parents["IEEE8023"] = {"L2SELECTION"}
      /\ Parents["STP"] = {"IEEE8023"} /\ Parents["CISCO"] = {"IEEE8023"}
      /\ Parents["ARP"] = {"ETHERNETII"} /\ Parents["IPV4"] = {"ETHERNETII"}
      /\ Parents["IPV6"] = {"ETHERNETII"}
  BY DEF Parents
<1>2. /\ Parents["UDP"] = {"IPV4", "IPV6"} /\ Parents["TCP"] = {"IPV4", "IPV6"}
      /\ Parents["ICMP"] = {"IPV4"} /\ Parents["ICMPECHO"] = {"ICMP"}
      /\ Parents["RIP"] = {"UDP"} /\ Parents["IMAGE"] = {"UDP"} /\ Parents["LDP"] = {"UDP"}
      /\ Parents["LDPMESSAGE"] = {"LDP"} /\ Parents["LDPMESSAGETLV"] = {"LDPMESSAGE"}
  BY DEF Parents
<1>3. /\ Parents["OSPF"] = {"IPV4"} /\ Parents["OSPFHELLO"] = {"OSPF"}
      /\ Parents["OSPFDBD"] = {"OSPF"} /\ Parents["OSPFLSR"] = {"OSPF"}
      /\ Parents["OSPFLSU"] = {"OSPF"} /\ Parents["OSPFLSACK"] = {"OSPF"}
      /\ Parents["OSPFLLSDATABLOCK"] = {"OSPFHELLO", "OSPFDBD"}
      /\ Parents["OSPFLLSDATABLOCKTLV"] = {"OSPFLLSDATABLOCK"}
  BY DEF Parents
<1>4. /\ Parents["OSPFLSA"] = {"OSPFDBD", "OSPFLSU", "OSPFLSACK"}
      /\ Parents["OSPFLSAROUTE"] = {"OSPFLSA"} /\ Parents["OSPFLSAROUTELINK"] = {"OSPFLSAROUTE"}
      /\ Parents["OSPFLSANETWORK"] = {"OSPFLSA"} /\ Parents["OSPFLSASUMMARY"] = {"OSPFLSA"}
      /\ Parents["OSPFLSAEXTERNAL"] = {"OSPFLSA"}
  BY DEF Parents
<1> QED
  BY <1>1, <1>2, <1>3, <1>4, HandlersAre

\* The handlers by how far from ROOT they come.
Levels ==
    << {"ROOT"}, {"L2SELECTION"}, {"ETHERNETII", "IEEE8023"},
       {"STP", "CISCO", "ARP", "IPV4"}, {"UDP", "TCP", "ICMP", "OSPF"},
       {"ICMPECHO", "RIP", "IMAGE", "LDP", "OSPFHELLO", "OSPFDBD", "OSPFLSR", "OSPFLSU",
        "OSPFLSACK"},
       {"LDPMESSAGE", "OSPFLLSDATABLOCK", "OSPFLSA"},
       {"LDPMESSAGETLV", "OSPFLLSDATABLOCKTLV", "OSPFLSAROUTE", "OSPFLSANETWORK",
        "OSPFLSASUMMARY", "OSPFLSAEXTERNAL"},
       {"OSPFLSAROUTELINK"} >>

\* Leaving aside IPV6, which no frame is found to be.
LEMMA NextLevel ==
    ASSUME NEW i \in 1 .. 9, NEW p \in Levels[i], NEW c \in Handlers \ {"IPV6"},
           p \in Parents[c]
    PROVE  i < 9 /\ c \in Levels[i + 1]
<1>1. i \in {1, 2, 3, 4, 5, 6, 7, 8, 9}
  BY SMT
<1> QED
  BY <1>1, Followers, SMT DEF Levels

LEMMA LevelsAreDisjoint ==
    ASSUME NEW i \in 1 .. 9, NEW j \in 1 .. 9, NEW n \in Levels[i], n \in Levels[j]
    PROVE  i = j
<1>1. i \in {1, 2, 3, 4, 5, 6, 7, 8, 9} /\ j \in {1, 2, 3, 4, 5, 6, 7, 8, 9}
  BY SMT
<1> QED
  BY <1>1, SMT DEF Levels

LEMMA Repeating == DOMAIN CounterOf = {"OSPFLSA", "OSPFLSAROUTELINK"}
  BY DEF CounterOf

-----------------------------------------------------------------------------
(* What the stack is while a frame f is taken apart. *)

Entries ==
    [name : Handlers, at : Nat, set : BOOLEAN, parent : Nat,
     index : Nat \cup {Null}, max : Nat \cup {Null}]

\* Handlers of which no header is stored, or not always.
Unset == {"ROOT", "IMAGE", "TCP", "OSPFLSACK", "OSPFLSA", "OSPFLSAROUTELINK"}

Climbs(st) ==
    /\ st \in Seq(Entries) /\ Len(st) <= 9
    /\ \A i \in DOMAIN st :
          /\ st[i].name \in Levels[i]
          /\ i > 1 => st[i - 1].name \in Parents[st[i].name] \ {"OSPFLSACK"}
          /\ st[i].parent = (IF st[i].name \in DOMAIN CounterOf THEN i - 2 ELSE i - 1)
          /\ st[i].set \/ st[i].name \in Unset

\* The i-th handler reads the header before the i-th.
InPlace(f, st, i) ==
    /\ i - 1 \in DOMAIN f
    /\ f[i - 1].name = st[i].name
    /\ st[i].at = Place(f, i - 1)

\* The two that may not: a length taken for a type, and an LLS data block
\* looked for before the LSA headers.
Misread(f) ==
    2 \in DOMAIN f /\ f[2].name = "IEEE8023" /\ f[1].high > 0 /\ f[1].low >= 100

BlockFirst(f, first, st) ==
    first /\ st[6].name = "OSPFDBD" /\ 6 \in DOMAIN f /\ f[6].name = "OSPFLSA"

Astray(f, first, st, i) ==
    \/ i = 3 /\ Len(st) = 3 /\ st[i].name = "ETHERNETII" /\ Misread(f)
    \/ /\ i \in {7, 8} /\ st[i].name \in {"OSPFLLSDATABLOCK", "OSPFLLSDATABLOCKTLV"}
       /\ BlockFirst(f, first, st)

Lies(f, first, st) ==
    /\ st # <<>> => st[1].at = 0
    /\ Len(st) >= 3 => ~f[1].own
    /\ Len(st) >= 8 /\ st[7].name = "OSPFLSA" => "OSPFLSU" \in Names(f)
    /\ \A i \in 2 .. Len(st) : InPlace(f, st, i) \/ Astray(f, first, st, i)

\* An index is set by the header before the first that it counts.
Counts(f, st) ==
    \A i \in DOMAIN st :
        /\ st[i].index <= st[i].max
        /\ st[i].index # Null =>
              \/ i = 5 /\ Len(st) >= 6 /\ 6 \in DOMAIN f /\ f[6].name = "OSPFLSA"
              \/ i = 8 /\ Len(st) >= 8 /\ 8 \in DOMAIN f /\ f[8].name = "OSPFLSAROUTELINK"

Good(f, first, st) == Climbs(st) /\ Lies(f, first, st) /\ Counts(f, st)

\* The last handler has not set one yet.
Fresh(st) ==
    \A i \in DOMAIN st : st[i].index # Null => (i = 5 /\ Len(st) >= 7) \/ (i = 8 /\ Len(st) >= 9)

-----------------------------------------------------------------------------
(* The headers that handlers read. *)

LEMMA FrameIsSeq ==
    ASSUME NEW f \in Traffic
    PROVE  /\ f \in Seq(Range(f)) /\ f # <<>> /\ f[1].name = "L2SELECTION"
           /\ Len(f) \in Nat /\ DOMAIN f = 1 .. Len(f) /\ 1 \in DOMAIN f
<1>1. WellFormed(f)
  BY TrafficAssumption
<1>2. f \in Seq(Range(f)) /\ f # <<>> /\ f[1].name = "L2SELECTION"
  BY <1>1, Zenon DEF WellFormed
<1> QED
  BY <1>2

LEMMA HeaderSomewhere ==
    ASSUME frame \in Traffic, NEW k \in DOMAIN frame
    PROVE  \E j \in DOMAIN frame : /\ HeaderFor(frame[k].name) = frame[j]
                                   /\ frame[j].name = frame[k].name
<1> DEFINE S == {j \in DOMAIN frame : frame[j].name = frame[k].name}
<1>1. S \in SUBSET Nat /\ S # {} /\ DOMAIN frame = 1 .. Len(frame) /\ Len(frame) \in Nat
  BY FrameIsSeq
<1>2. PICK x \in S : \A y \in S : x <= y
  <2> HIDE DEF S
  <2> QED
    BY <1>1, LeastNat
<1>3. x \in DOMAIN frame /\ frame[x].name = frame[k].name
  OBVIOUS
<1>4. \A j \in 1 .. x - 1 : frame[j].name # frame[k].name
  BY <1>1, <1>2, <1>3
<1> QED
  BY <1>3, <1>4, Zenon DEF HeaderFor

LEMMA HeaderIs ==
    ASSUME frame \in Traffic, NEW k \in DOMAIN frame,
           \A j \in 1 .. k - 1 : frame[j].name # frame[k].name
    PROVE  HeaderFor(frame[k].name) = frame[k]
<1>1. DOMAIN frame = 1 .. Len(frame) /\ Len(frame) \in Nat
  BY FrameIsSeq
<1>2. ASSUME NEW i \in DOMAIN frame, frame[i].name = frame[k].name,
             \A j \in 1 .. i - 1 : frame[j].name # frame[k].name
      PROVE  i = k
  BY <1>1, <1>2
<1> QED
  BY <1>2, Zenon DEF HeaderFor

LEMMA FrameLevels ==
    ASSUME NEW f, NEW first, NEW st, Climbs(st), Lies(f, first, st),
           NEW i \in 2 .. 7, i <= Len(st)
    PROVE  i - 1 \in DOMAIN f /\ f[i - 1].name \in Levels[i]
<1>1. Len(st) \in Nat /\ DOMAIN st = 1 .. Len(st)
  BY DEF Climbs
<1>2. st[i].name \in Levels[i]
  BY <1>1 DEF Climbs
<1>3. CASE InPlace(f, st, i)
  BY <1>2, <1>3 DEF InPlace
<1>4. CASE Astray(f, first, st, i)
  <2>1. CASE i = 3
    BY <1>4, <2>1 DEF Astray, Misread, Levels
  <2>2. CASE i # 3
    BY <1>4, <2>2 DEF Astray, BlockFirst, Levels
  <2> QED
    BY <2>1, <2>2
<1> QED
  BY <1>1, <1>3, <1>4 DEF Lies

LEMMA HeaderOnStack ==
    ASSUME frame \in Traffic, NEW first, NEW st, Climbs(st), Lies(frame, first, st),
           NEW i \in 2 .. 8, i <= Len(st), InPlace(frame, st, i)
    PROVE  /\ HeaderFor(st[i].name) = frame[i - 1] /\ i - 1 \in DOMAIN frame
           /\ frame[i - 1].name = st[i].name
<1>1. Len(st) \in Nat /\ DOMAIN st = 1 .. Len(st)
  BY DEF Climbs
<1>2. st[i].name \in Levels[i] /\ i - 1 \in DOMAIN frame /\ frame[i - 1].name = st[i].name
  BY <1>1 DEF Climbs, InPlace
<1>3. ASSUME NEW j \in 1 .. i - 1 - 1 PROVE frame[j].name # frame[i - 1].name
  <2>1. j + 1 \in 2 .. 7 /\ j + 1 <= Len(st) /\ j + 1 - 1 = j /\ j + 1 # i
    BY <1>1
  <2>2. frame[j].name \in Levels[j + 1]
    <3>1. frame[j + 1 - 1].name \in Levels[j + 1]
      BY <2>1, FrameLevels
    <3> QED
      BY <2>1, <3>1
  <2>3. j + 1 \in 1 .. 9 /\ i \in 1 .. 9
    BY <2>1
  <2> QED
    BY <1>2, <2>1, <2>2, <2>3, LevelsAreDisjoint
<1>4. HeaderFor(frame[i - 1].name) = frame[i - 1]
  BY <1>2, <1>3, HeaderIs
<1> QED
  BY <1>2, <1>4

-----------------------------------------------------------------------------
(* What CheckForNext of each handler says of the headers around it. *)

LEMMA Fields ==
    /\ DOMAIN LayerId = {"ARP", "IPV4", "IPV6"}
    /\ DOMAIN Protocol = {"ICMP", "TCP", "UDP", "OSPF"}
    /\ DOMAIN DestinationPort = {"RIP", "IMAGE", "LDP"}
    /\ DOMAIN PacketType = {"OSPFHELLO", "OSPFDBD", "OSPFLSR", "OSPFLSU", "OSPFLSACK"}
    /\ DOMAIN LsaType = {"OSPFLSAROUTE", "OSPFLSANETWORK", "OSPFLSASUMMARY", "OSPFLSAEXTERNAL"}
    /\ DOMAIN CounterOf = {"OSPFLSA", "OSPFLSAROUTELINK"}
    /\ LayerId["ARP"] = 2054 /\ LayerId["IPV4"] = 2048 /\ LayerId["IPV6"] = 34525
  BY DEF LayerId, Protocol, DestinationPort, PacketType, LsaType, CounterOf

LEMMA Checks ==
    ASSUME NEW c, NEW st, CheckForNext(c, st)
    PROVE  /\ c = "ETHERNETII" => TypeOrLengthInt32(HeaderFor("L2SELECTION")) >= 1536
           /\ c = "IEEE8023" => TypeOrLengthInt32(HeaderFor("L2SELECTION")) <= 1500
           /\ c = "STP" => HeaderFor("IEEE8023").dsap = 66 /\ HeaderFor("IEEE8023").ssap = 66
           /\ c = "CISCO" => HeaderFor("IEEE8023").cisco
           /\ c \in DOMAIN LayerId =>
                 TypeOrLengthInt32(HeaderFor("L2SELECTION")) = LayerId[c]
           /\ c \in DOMAIN Protocol => HeaderFor("IPV4").protocol = Protocol[c]
           /\ c \in DOMAIN DestinationPort => HeaderFor("UDP").port = DestinationPort[c]
           /\ c = "ICMPECHO" => HeaderFor("ICMP").type \in {0, 8}
           /\ c \in DOMAIN PacketType => HeaderFor("OSPF").type \in PacketType[c]
           /\ c = "OSPFLLSDATABLOCK" => LlsFits
           /\ c \in DOMAIN LsaType => HeaderFor("OSPFLSA").type \in LsaType[c]
           /\ c \in DOMAIN CounterOf => Counter(st, c).index < Counter(st, c).max
<1> DEFINE layer == TypeOrLengthInt32(HeaderFor("L2SELECTION"))
           llc == HeaderFor("IEEE8023")
           protocol == HeaderFor("IPV4").protocol
           port == HeaderFor("UDP").port
           icmp == HeaderFor("ICMP").type
           packet == HeaderFor("OSPF").type
           lsa == HeaderFor("OSPFLSA").type
           count == Counter(st, c)
           ip == Finds(st, "IPV4")
<1>1. \/ c \in {"L2SELECTION", "LDPMESSAGE", "LDPMESSAGETLV", "OSPFLLSDATABLOCKTLV"}
      \/ c = "ETHERNETII" /\ layer >= 1536
      \/ c = "IEEE8023" /\ layer <= 1500
      \/ c = "STP" /\ llc.dsap = 66 /\ llc.ssap = 66
      \/ c = "CISCO" /\ llc.cisco
      \/ c \in DOMAIN LayerId /\ layer = LayerId[c]
      \/ c \in DOMAIN Protocol /\ ip /\ protocol = Protocol[c]
      \/ c \in DOMAIN DestinationPort /\ port = DestinationPort[c]
      \/ c = "ICMPECHO" /\ icmp \in {0, 8}
      \/ c \in DOMAIN PacketType /\ packet \in PacketType[c]
      \/ c = "OSPFLLSDATABLOCK" /\ LlsFits
      \/ c \in DOMAIN LsaType /\ lsa \in LsaType[c]
      \/ c \in DOMAIN CounterOf /\ count.index < count.max
  BY Zenon DEF CheckForNext
<1> HIDE DEF layer, llc, protocol, port, icmp, packet, lsa, count, ip
<1>2. /\ c = "ETHERNETII" => layer >= 1536
      /\ c = "IEEE8023" => layer <= 1500
      /\ c = "STP" => llc.dsap = 66 /\ llc.ssap = 66
      /\ c = "CISCO" => llc.cisco
      /\ c \in DOMAIN LayerId => layer = LayerId[c]
      /\ c \in DOMAIN Protocol => protocol = Protocol[c]
      /\ c \in DOMAIN DestinationPort => port = DestinationPort[c]
      /\ c = "ICMPECHO" => icmp \in {0, 8}
      /\ c \in DOMAIN PacketType => packet \in PacketType[c]
      /\ c = "OSPFLLSDATABLOCK" => LlsFits
      /\ c \in DOMAIN LsaType => lsa \in LsaType[c]
      /\ c \in DOMAIN CounterOf => count.index < count.max
  BY <1>1, Fields
<1> QED
  BY <1>2, Zenon DEF layer, llc, protocol, port, icmp, packet, lsa, count

\* A byte has three decimal digits, the first of which is two at most.
LEMMA ThreeDigits ==
    ASSUME NEW x \in 0 .. 255
    PROVE  \E x1 \in 0 .. 2, x2 \in 0 .. 9, x3 \in 0 .. 9 :
              x = 100 * x1 + 10 * x2 + x3 /\ Digits(x) = 256 * x1 + 16 * x2 + x3
<1>1. /\ x \div 100 \in 0 .. 2 /\ (x \div 10) % 10 \in 0 .. 9 /\ x % 10 \in 0 .. 9
      /\ x = 100 * (x \div 100) + 10 * ((x \div 10) % 10) + (x % 10)
  BY SMTT(30)
<1> QED
  BY <1>1 DEF Digits

\* The decimal digits of two bytes, read as a number: which types come out as
\* they are, and which do not.
LEMMA TypesAreRead ==
    ASSUME NEW h, h.high \in 0 .. 255, h.low \in 0 .. 255
    PROVE  /\ TypeOrLengthInt32(h) = 2048 => LayerOf(h) = 2048
           /\ TypeOrLengthInt32(h) = 2054 => LayerOf(h) = 2054
           /\ TypeOrLengthInt32(h) # 34525
           /\ TypeOrLengthInt32(h) <= 1500 => LayerOf(h) <= 1535
           /\ TypeOrLengthInt32(h) >= 1536 /\ LayerOf(h) <= 1500 => h.high > 0 /\ h.low >= 100
<1> DEFINE a == h.high
           b == h.low
<1>1. PICK a1 \in 0 .. 2, a2 \in 0 .. 9, a3 \in 0 .. 9 :
          a = 100 * a1 + 10 * a2 + a3 /\ Digits(a) = 256 * a1 + 16 * a2 + a3
  <2>1. a \in 0 .. 255
    OBVIOUS
  <2> HIDE DEF a
  <2> QED
    BY <2>1, ThreeDigits
<1>2. PICK b1 \in 0 .. 2, b2 \in 0 .. 9, b3 \in 0 .. 9 :
          b = 100 * b1 + 10 * b2 + b3 /\ Digits(b) = 256 * b1 + 16 * b2 + b3
  <2>1. b \in 0 .. 255
    OBVIOUS
  <2> HIDE DEF b
  <2> QED
    BY <2>1, ThreeDigits
<1>3. LayerOf(h) = 256 * a + b
  BY DEF LayerOf
<1>4. TypeOrLengthInt32(h) = (IF b < 100 THEN Digits(a) * 256 ELSE Digits(a) * 4096) + Digits(b)
  BY <1>1 DEF TypeOrLengthInt32
<1> HIDE DEF a, b
<1>5. b < 100 \/ b >= 100
  BY <1>2
<1> QED
  BY <1>1, <1>2, <1>3, <1>4, <1>5 DEF a, b

-----------------------------------------------------------------------------
(* A handler that fits finds its header behind that of the last one. *)

LEMMA Announced ==
    ASSUME NEW f \in Traffic, NEW k \in DOMAIN f, NEW c \in Handlers, Announces(f, k, c)
    PROVE  k + 1 \in DOMAIN f /\ f[k + 1].name = c
<1>1. WellFormed(f)
  BY TrafficAssumption
<1>2. k < Len(f) /\ f[k + 1].name = c
  BY <1>1 DEF WellFormed
<1> QED
  BY <1>2, FrameIsSeq

LEMMA Lengths ==
    ASSUME NEW f \in Traffic, NEW k \in DOMAIN f
    PROVE  HasItsLength(f, k) /\ f[k].name \in Handlers /\ f[k].size \in Nat
<1>1. WellFormed(f)
  BY TrafficAssumption
<1>2. HasItsLength(f, k) /\ f[k].name \in Handlers
  BY <1>1, Zenon DEF WellFormed
<1>3. f[k].size \in Nat
  BY <1>2 DEF HasItsLength
<1> QED
  BY <1>2, <1>3

LEMMA LevelIs ==
    ASSUME NEW n \in 1 .. 9, NEW p \in Levels[n]
    PROVE  /\ p = "ROOT" => n = 1
           /\ p = "L2SELECTION" => n = 2
           /\ p \in {"ETHERNETII", "IEEE8023"} => n = 3
           /\ p \in {"STP", "CISCO", "ARP", "IPV4"} => n = 4
           /\ p \in {"UDP", "TCP", "ICMP", "OSPF"} => n = 5
           /\ p \in {"ICMPECHO", "RIP", "IMAGE", "LDP", "OSPFHELLO", "OSPFDBD", "OSPFLSR",
                     "OSPFLSU", "OSPFLSACK"} => n = 6
           /\ p \in {"LDPMESSAGE", "OSPFLLSDATABLOCK", "OSPFLSA"} => n = 7
           /\ p \in {"LDPMESSAGETLV", "OSPFLLSDATABLOCKTLV", "OSPFLSAROUTE",
                     "OSPFLSANETWORK", "OSPFLSASUMMARY", "OSPFLSAEXTERNAL"} => n = 8
           /\ p = "OSPFLSAROUTELINK" => n = 9
           /\ p \in Handlers /\ p # "IPV6"
<1>1. n \in {1, 2, 3, 4, 5, 6, 7, 8, 9}
  BY SMT
<1> QED
  BY <1>1, HandlersAre, SMT DEF Levels

\* Only ETHERNETII, where an 802.3 frame ends the stack, and what comes behind
\* OSPFDBD may stray.
LEMMA Straight ==
    ASSUME NEW f, NEW first, NEW st, Climbs(st), Lies(f, first, st),
           NEW i \in 2 .. 6, i <= Len(st), i # 3 \/ Len(st) # 3
    PROVE  InPlace(f, st, i)
<1>1. Len(st) \in Nat
  BY DEF Climbs
<1> QED
  BY <1>1 DEF Lies, Astray

\* The n-th handler is the last one.
Height(st, n) == Len(st) = n

LEMMA HeightIs ==
    ASSUME NEW st, Climbs(st), NEW n, Height(st, n)
    PROVE  /\ n \in Nat /\ DOMAIN st = 1 .. n
           /\ \A i \in 1 .. n : i <= Len(st)
           /\ \A i : (i # 3 \/ n # 3) => (i # 3 \/ Len(st) # 3)
  BY DEF Climbs, Height

LEMMA StackIs ==
    ASSUME NEW st, Climbs(st), NEW n \in DOMAIN st
    PROVE  /\ Len(st) \in 0 .. 9 /\ DOMAIN st = 1 .. Len(st) /\ n \in 1 .. 9
           /\ st[n].name \in Levels[n] /\ st[n].name \in Handlers /\ st[n] \in Entries
           /\ n > 1 => n - 1 \in DOMAIN st /\ st[n - 1].name \in Parents[st[n].name]
           /\ n > 1 => st[n - 1].name # "OSPFLSACK"
<1>1. st \in Seq(Entries) /\ Len(st) <= 9
  BY DEF Climbs
<1>2. Len(st) \in 0 .. 9 /\ DOMAIN st = 1 .. Len(st) /\ n \in 1 .. 9 /\ st[n] \in Entries
  <2>1. Len(st) \in Nat /\ DOMAIN st = 1 .. Len(st) /\ st[n] \in Entries
    BY <1>1
  <2>2. Len(st) \in 0 .. 9
    <3>1. \A x \in Nat : x <= 9 => x \in 0 .. 9
      OBVIOUS
    <3>2. Len(st) \in Nat /\ Len(st) <= 9
      BY <1>1, <2>1
    <3> QED
      BY <3>1, <3>2, Zenon
  <2>3. n \in 1 .. Len(st)
    BY <2>1, Zenon
  <2>4. n \in 1 .. 9
    BY <2>2, <2>3
  <2> QED
    BY <2>1, <2>2, <2>4
<1>3. n > 1 => n - 1 \in DOMAIN st
  BY <1>2
<1> QED
  BY <1>2, <1>3 DEF Climbs, Entries

LEMMA LayerNat ==
    ASSUME NEW h, h.high \in 0 .. 255, h.low \in 0 .. 255 PROVE LayerOf(h) \in Nat
<1>1. ASSUME NEW a \in 0 .. 255, NEW b \in 0 .. 255 PROVE 256 * a + b \in Nat
  OBVIOUS
<1> QED
  BY <1>1, Zenon DEF LayerOf

LEMMA EthernetFits ==
    ASSUME frame \in Traffic, NEW c \in Handlers, "L2SELECTION" \in Parents[c],
           HeaderFor("L2SELECTION") = frame[1], NEW st, CheckForNext(c, st)
    PROVE  2 \in DOMAIN frame /\ (frame[2].name = c \/ (c = "ETHERNETII" /\ Misread(frame)))
<1> DEFINE h == frame[1]
<1>1. c \in {"ETHERNETII", "IEEE8023"}
  BY Followers
<1>2. 1 \in DOMAIN frame /\ h.name = "L2SELECTION"
  BY FrameIsSeq
<1>3. h.high \in 0 .. 255 /\ h.low \in 0 .. 255 /\ LayerOf(h) \notin 1501 .. 1535
  <2>1. HasItsLength(frame, 1)
    BY <1>2, Lengths
  <2> QED
    BY <1>2, <2>1 DEF HasItsLength
<1>4. LayerOf(h) \in Nat
  BY <1>3, LayerNat
<1> DEFINE d == IF LayerOf(h) <= 1500 THEN "IEEE8023" ELSE "ETHERNETII"
<1>5. 2 \in DOMAIN frame /\ frame[2].name = d
  <2>1. d \in Handlers
    BY HandlersAre
  <2>2. Announces(frame, 1, d)
    BY <1>2 DEF Announces
  <2>3. 1 + 1 \in DOMAIN frame /\ frame[1 + 1].name = d
    <3> HIDE DEF d
    <3> QED
      BY <1>2, <2>1, <2>2, Announced
  <2>4. 1 + 1 = 2
    OBVIOUS
  <2> QED
    BY <2>3, <2>4
<1>6. CASE c = "IEEE8023"
  <2>1. TypeOrLengthInt32(h) <= 1500
    BY <1>6, Checks
  <2>2. LayerOf(h) <= 1535
    BY <1>3, <2>1, TypesAreRead
  <2>3. LayerOf(h) <= 1500
    BY <1>3, <1>4, <2>2
  <2> QED
    BY <1>5, <1>6, <2>3
<1>7. CASE c = "ETHERNETII"
  <2>1. TypeOrLengthInt32(h) >= 1536
    BY <1>7, Checks
  <2>2. CASE LayerOf(h) <= 1500
    <3>1. h.high > 0 /\ h.low >= 100
      BY <1>3, <2>1, <2>2, TypesAreRead
    <3> QED
      BY <1>5, <1>7, <2>2, <3>1 DEF Misread
  <2>3. CASE ~(LayerOf(h) <= 1500)
    BY <1>5, <1>7, <2>3
  <2> QED
    BY <2>2, <2>3
<1> QED
  BY <1>1, <1>6, <1>7

LEMMA LayerFits ==
    ASSUME frame \in Traffic, NEW c \in Handlers, "ETHERNETII" \in Parents[c],
           HeaderFor("L2SELECTION") = frame[1], NEW st, CheckForNext(c, st)
    PROVE  ~Misread(frame) /\ c \in {"ARP", "IPV4"} /\ LayerOf(frame[1]) = LayerId[c]
<1> DEFINE h == frame[1]
<1>1. c \in {"ARP", "IPV4", "IPV6"}
  BY Followers
<1>2. 1 \in DOMAIN frame /\ h.name = "L2SELECTION"
  BY FrameIsSeq
<1>3. h.high \in 0 .. 255 /\ h.low \in 0 .. 255
  <2>1. HasItsLength(frame, 1)
    BY <1>2, Lengths
  <2> QED
    BY <1>2, <2>1 DEF HasItsLength
<1>4. TypeOrLengthInt32(h) = LayerId[c]
  <2>1. c \in DOMAIN LayerId
    BY <1>1, Fields
  <2> QED
    BY <2>1, Checks
<1>5. /\ TypeOrLengthInt32(h) = 2048 => LayerOf(h) = 2048
      /\ TypeOrLengthInt32(h) = 2054 => LayerOf(h) = 2054
      /\ TypeOrLengthInt32(h) # 34525
  BY <1>3, TypesAreRead
<1>6. c \in {"ARP", "IPV4"} /\ LayerOf(h) = LayerId[c]
  BY <1>1, <1>4, <1>5, Fields
<1>7. ~Misread(frame)
  <2>1. Announces(frame, 1, "ETHERNETII")
    <3>1. ~(LayerOf(h) <= 1500)
      <4>1. LayerId["ARP"] = 2054 /\ LayerId["IPV4"] = 2048
        BY Fields
      <4> QED
        BY <1>6, <4>1
    <3> QED
      BY <1>2, <3>1 DEF Announces
  <2>2. 1 + 1 \in DOMAIN frame /\ frame[1 + 1].name = "ETHERNETII"
    BY <1>2, <2>1, Announced, HandlersAre
  <2>3. 1 + 1 = 2
    OBVIOUS
  <2> QED
    BY <2>2, <2>3 DEF Misread
<1> QED
  BY <1>6, <1>7

LEMMA FollowerFits ==
    ASSUME frame \in Traffic, NEW st, Climbs(st), Lies(frame, llsFirst, st),
           NEW n \in 2 .. 8, Height(st, n), InPlace(frame, st, n),
           st[n].name = "OSPFLSA" => "OSPFLSU" \in Names(frame),
           NEW c \in Handlers, c \notin DOMAIN CounterOf, st[n].name \in Parents[c],
           CheckForNext(c, st)
    PROVE  /\ c # "IPV6"
           /\ \/ n \in DOMAIN frame /\ frame[n].name = c
              \/ n = 2 /\ c = "ETHERNETII" /\ Misread(frame)
              \/ st[n].name = "OSPFDBD" /\ c = "OSPFLLSDATABLOCK"
<1> DEFINE p == st[n].name
           f == frame
<1>0. c \in Handlers /\ c # "OSPFLSA" /\ c # "OSPFLSAROUTELINK"
  BY Repeating
<1>12. ASSUME NEW i \in 2 .. 6, i < n PROVE InPlace(f, st, i) /\ i <= Len(st)
  <2>1. i \in 1 .. n /\ (i # 3 \/ n # 3)
    BY <1>12
  <2>2. i <= Len(st) /\ (i # 3 \/ Len(st) # 3)
    BY <2>1, HeightIs
  <2> QED
    BY <2>2, Straight
<1>1. /\ n \in DOMAIN st /\ p \in Levels[n] /\ n \in 1 .. 9 /\ p # "IPV6"
      /\ st[n - 1].name \in Parents[p] /\ n - 1 \in DOMAIN st /\ p # "OSPFLSACK"
  <2>1. n \in DOMAIN st
    BY HeightIs
  <2>2. p # "OSPFLSACK"
    BY <1>0, Followers
  <2>3. /\ p \in Levels[n] /\ n \in 1 .. 9
        /\ n > 1 => n - 1 \in DOMAIN st /\ st[n - 1].name \in Parents[p]
    BY <2>1, StackIs
  <2>4. p # "IPV6"
    BY <2>3, LevelIs
  <2> QED
    BY <2>1, <2>2, <2>3, <2>4
<1>2. HeaderFor(p) = f[n - 1] /\ n - 1 \in DOMAIN f /\ f[n - 1].name = p
  <2>1. n <= Len(st)
    BY HeightIs
  <2> QED
    BY <2>1, HeaderOnStack
<1>3. ASSUME Announces(f, n - 1, c) PROVE n \in DOMAIN f /\ f[n].name = c
  <2>1. n - 1 + 1 \in DOMAIN f /\ f[n - 1 + 1].name = c
    BY <1>2, <1>3, Announced
  <2>2. n - 1 + 1 = n
    OBVIOUS
  <2> QED
    BY <2>1, <2>2
<1>4. CASE p = "L2SELECTION"
  <2>1. n = 2
    BY <1>1, <1>4, LevelIs
  <2>2. HeaderFor("L2SELECTION") = f[1]
    BY <1>2, <1>4, <2>1
  <2>3. 2 \in DOMAIN f /\ (f[2].name = c \/ (c = "ETHERNETII" /\ Misread(f)))
    BY <1>4, <2>2, EthernetFits
  <2>4. c # "IPV6"
    BY <1>4, Followers
  <2> QED
    BY <2>1, <2>3, <2>4
<1>5. CASE p = "ETHERNETII"
  <2>1. n = 3
    BY <1>1, <1>5, LevelIs
  <2>2. st[2].name \in Levels[2] /\ 2 \in DOMAIN st
    BY <1>1, <2>1, StackIs
  <2>3. st[2].name = "L2SELECTION"
    BY <2>2 DEF Levels
  <2>4. InPlace(f, st, 2)
    BY <1>12, <2>1
  <2>5. HeaderFor("L2SELECTION") = f[1]
    <3>1. 2 \in 2 .. 8 /\ 2 <= Len(st)
      BY <1>12, <2>1
    <3>2. HeaderFor(st[2].name) = f[2 - 1]
      BY <2>4, <3>1, HeaderOnStack
    <3> QED
      BY <2>3, <3>2
  <2>6. c \in {"ARP", "IPV4"} /\ LayerOf(f[1]) = LayerId[c]
    BY <1>5, <2>5, LayerFits
  <2>7. Announces(f, 2, c)
    <3>1. f[2].name = "ETHERNETII" /\ f[2 - 1] = f[1]
      BY <1>2, <1>5, <2>1
    <3> QED
      BY <2>6, <3>1 DEF Announces
  <2> QED
    BY <1>3, <2>1, <2>6, <2>7
<1>6. CASE p \in {"IEEE8023", "IPV4", "UDP", "ICMP", "OSPF"}
  <2>1. Announces(f, n - 1, c)
    <3>1. CASE p = "IEEE8023"
      <4>1. c \in {"STP", "CISCO"}
        BY <3>1, Followers
      <4> QED
        BY <1>2, <3>1, <4>1, Checks DEF Announces
    <3>2. CASE p = "IPV4"
      <4>1. c \in DOMAIN Protocol
        BY <3>2, Followers, Fields
      <4> QED
        BY <1>2, <3>2, <4>1, Checks DEF Announces
    <3>3. CASE p = "UDP"
      <4>1. c \in DOMAIN DestinationPort
        BY <3>3, Followers, Fields
      <4> QED
        BY <1>2, <3>3, <4>1, Checks DEF Announces
    <3>4. CASE p = "ICMP"
      <4>1. c = "ICMPECHO"
        BY <3>4, Followers
      <4> QED
        BY <1>2, <3>4, <4>1, Checks DEF Announces
    <3>5. CASE p = "OSPF"
      <4>1. c \in DOMAIN PacketType
        BY <3>5, Followers, Fields
      <4> QED
        BY <1>2, <3>5, <4>1, Checks DEF Announces
    <3> QED
      BY <1>6, <3>1, <3>2, <3>3, <3>4, <3>5
  <2>2. c # "IPV6"
    BY <1>6, Followers
  <2> QED
    BY <1>3, <2>1, <2>2
<1>7. CASE p \in {"LDP", "LDPMESSAGE", "OSPFLLSDATABLOCK"}
  <2>1. /\ p = "LDP" => c = "LDPMESSAGE"
        /\ p = "LDPMESSAGE" => c = "LDPMESSAGETLV"
        /\ p = "OSPFLLSDATABLOCK" => c = "OSPFLLSDATABLOCKTLV"
    BY Followers
  <2> QED
    BY <1>2, <1>3, <1>7, <2>1 DEF Announces
<1>8. CASE p = "OSPFLSA"
  <2>1. c \in {"OSPFLSAROUTE", "OSPFLSANETWORK", "OSPFLSASUMMARY", "OSPFLSAEXTERNAL"}
    BY <1>0, <1>8, Followers
  <2>2. c \in DOMAIN LsaType /\ c # "IPV6"
    BY <2>1, Fields
  <2>3. HeaderFor("OSPFLSA").type \in LsaType[c]
    BY <2>2, Checks
  <2> QED
    BY <1>2, <1>3, <1>8, <2>2, <2>3 DEF Announces
<1>9. CASE p = "OSPFHELLO"
  <2>1. c = "OSPFLLSDATABLOCK" /\ n = 6
    BY <1>1, <1>9, Followers, LevelIs
  <2>2. st[5].name = "OSPF" /\ 5 \in DOMAIN st
    <3>1. n - 1 = 5
      BY <2>1
    <3>2. st[5].name \in Parents["OSPFHELLO"] /\ 5 \in DOMAIN st
      BY <1>1, <1>9, <3>1
    <3>3. "OSPFHELLO" \in Handlers
      BY HandlersAre
    <3> QED
      BY <3>2, <3>3, Followers
  <2>3. st[4].name = "IPV4"
    <3>1. 5 > 1 => st[5 - 1].name \in Parents[st[5].name]
      BY <2>2, StackIs
    <3>2. st[4].name \in Parents["OSPF"]
      BY <2>2, <3>1
    <3>3. "OSPF" \in Handlers
      BY HandlersAre
    <3>4. st[4].name \in {"IPV4"}
      BY <3>2, <3>3, Followers
    <3> QED
      BY <3>4
  <2>4. HeaderFor("OSPF") = f[4]
    <3>1. InPlace(f, st, 5) /\ 5 \in 2 .. 8 /\ 5 <= Len(st)
      BY <1>12, <2>1
    <3>2. HeaderFor(st[5].name) = f[5 - 1]
      BY <3>1, HeaderOnStack
    <3> QED
      BY <2>2, <3>2
  <2>5. HeaderFor("IPV4") = f[3]
    <3>1. InPlace(f, st, 4) /\ 4 \in 2 .. 8 /\ 4 <= Len(st)
      BY <1>12, <2>1
    <3>2. HeaderFor(st[4].name) = f[4 - 1]
      BY <3>1, HeaderOnStack
    <3> QED
      BY <2>3, <3>2
  <2>6. f[3].total - 4 * f[3].words - f[4].length > 0
    BY <2>1, <2>4, <2>5, Checks DEF LlsFits
  <2>7. 5 \in DOMAIN f /\ f[5].name = "OSPFHELLO" /\ HeaderFor("OSPFHELLO") = f[5]
    BY <1>2, <1>9, <2>1
  <2>8. f[5].lls
    <3>1. PICK m \in {"OSPFHELLO", "OSPFDBD"} : m \in Names(f) /\ HeaderFor(m).lls
      BY <2>1, Checks DEF LlsFits
    <3>2. CASE m = "OSPFHELLO"
      BY <2>7, <3>1, <3>2
    <3>3. CASE m = "OSPFDBD"
      <4>1. PICK k \in DOMAIN f : f[k].name = "OSPFDBD"
        BY <3>1, <3>3 DEF Names
      <4>2. {f[5].name, f[k].name} \subseteq DOMAIN PacketType
        BY <2>7, <4>1, Fields
      <4>3. WellFormed(f)
        BY TrafficAssumption
      <4>4. k = 5
        BY <2>7, <4>2, <4>3, Zenon DEF WellFormed
      <4> QED
        BY <2>7, <4>1, <4>4
    <3> QED
      BY <3>2, <3>3
  <2>9. Announces(f, 5, c)
    <3>1. f[5 - 2] = f[3] /\ f[5 - 1] = f[4]
      OBVIOUS
    <3> QED
      BY <2>1, <2>6, <2>7, <2>8, <3>1 DEF Announces
  <2> QED
    BY <1>3, <2>1, <2>9
<1>10. CASE p = "OSPFDBD"
  BY <1>0, <1>10, Followers
<1>11. /\ p \notin {"ROOT", "NONE"}
       /\ p \in {"L2SELECTION", "IEEE8023", "ETHERNETII", "IPV4", "IPV6", "ICMP", "UDP",
                  "LDP", "LDPMESSAGE", "OSPF", "OSPFHELLO", "OSPFDBD", "OSPFLLSDATABLOCK",
                  "OSPFLSA"}
  <2>1. p \in Handlers /\ (p = "ROOT" => n = 1)
    BY <1>1, LevelIs
  <2>2. p \notin {"ROOT", "NONE"}
    BY <2>1, HandlersAre
  <2> QED
    BY <1>0, <1>1, <2>2, Followers
<1> QED
  BY <1>1, <1>4, <1>5, <1>6, <1>7, <1>8, <1>9, <1>10, <1>11

-----------------------------------------------------------------------------
(* The walks from handler to parent. *)

\* One step of the walk in Holder, and that a walk that takes such steps is it.
Walks(st, k, owner, walk) ==
    walk = [i \in 0 .. k |-> IF i = 0 \/ st[i].name = owner THEN i ELSE walk[st[i].parent]]

LEMMA HolderIs ==
    ASSUME NEW st, NEW k \in Nat, NEW owner, \E walk : Walks(st, k, owner, walk)
    PROVE  \E walk : Walks(st, k, owner, walk) /\ Holder(st, k, owner) = walk[k]
  BY Zenon DEF Walks, Holder

LEMMA ParentIs ==
    ASSUME NEW st, Climbs(st), NEW i \in DOMAIN st
    PROVE  /\ i # 7 /\ i # 9 => st[i].parent = i - 1
           /\ st[i].parent \in 0 .. i - 1
<1>1. i \in 1 .. 9 /\ st[i].name \in Levels[i]
  BY StackIs
<1>2. st[i].parent = (IF st[i].name \in DOMAIN CounterOf THEN i - 2 ELSE i - 1)
  BY DEF Climbs
<1>3. st[i].name \in DOMAIN CounterOf => i \in {7, 9}
  BY <1>1, LevelIs, Repeating
<1> QED
  BY <1>1, <1>2, <1>3

LEMMA OspfHolds ==
    ASSUME NEW st, Climbs(st), Len(st) = 6, st[5].name = "OSPF"
    PROVE  Holder(st, 6, "OSPF") = 5
<1> DEFINE w == [i \in 0 .. 6 |-> IF i >= 5 THEN 5 ELSE 0]
           v == [i \in 0 .. 6 |-> IF i = 0 \/ st[i].name = "OSPF" THEN i ELSE w[st[i].parent]]
<1>0. DOMAIN st = 1 .. 6
  BY DEF Climbs
<1>1. ASSUME NEW i \in 1 .. 6
      PROVE  st[i].parent = i - 1 /\ (st[i].name = "OSPF" => i = 5)
  <2>1. i \in DOMAIN st /\ i # 7 /\ i # 9
    BY <1>0
  <2>2. i \in 1 .. 9 /\ st[i].name \in Levels[i]
    BY <2>1, StackIs
  <2> QED
    BY <2>1, <2>2, ParentIs, LevelIs
<1>2. ASSUME NEW i \in 0 .. 6 PROVE w[i] = v[i]
  <2>1. CASE i = 0
    BY <2>1
  <2>2. CASE i = 5
    BY <2>2
  <2>3. CASE i # 0 /\ i # 5
    <3>1. i \in 1 .. 6 /\ i - 1 \in 0 .. 6
      BY <2>3
    <3>2. v[i] = w[i - 1]
      BY <1>1, <2>3, <3>1
    <3> QED
      BY <2>3, <3>1, <3>2
  <2> QED
    BY <2>1, <2>2, <2>3
<1>3. Walks(st, 6, "OSPF", w)
  <2>1. w = v
    BY <1>2
  <2> QED
    BY <2>1, Zenon DEF Walks
<1>4. PICK u : Walks(st, 6, "OSPF", u) /\ Holder(st, 6, "OSPF") = u[6]
  <2> HIDE DEF w, v
  <2> QED
    BY <1>3, HolderIs
<1>5. ASSUME NEW i \in 0 .. 6
      PROVE  u[i] = IF i = 0 \/ st[i].name = "OSPF" THEN i ELSE u[st[i].parent]
  BY <1>4 DEF Walks
<1>6. u[5] = 5
  BY <1>5
<1>7. u[6] = u[5]
  BY <1>1, <1>5
<1> QED
  BY <1>4, <1>6, <1>7

LEMMA RouteHolds ==
    ASSUME NEW st, Climbs(st), Len(st) = 8, st[8].name = "OSPFLSAROUTE"
    PROVE  Holder(st, 8, "OSPFLSAROUTE") = 8
<1> DEFINE w == [i \in 0 .. 8 |-> IF i = 8 THEN 8 ELSE 0]
           v == [i \in 0 .. 8 |-> IF i = 0 \/ st[i].name = "OSPFLSAROUTE" THEN i
                                  ELSE w[st[i].parent]]
<1>0. DOMAIN st = 1 .. 8
  BY DEF Climbs
<1>1. ASSUME NEW i \in 1 .. 8
      PROVE  st[i].parent \in 0 .. i - 1 /\ (st[i].name = "OSPFLSAROUTE" => i = 8)
  <2>1. i \in DOMAIN st
    BY <1>0
  <2>2. i \in 1 .. 9 /\ st[i].name \in Levels[i]
    BY <2>1, StackIs
  <2> QED
    BY <2>1, <2>2, ParentIs, LevelIs
<1>2. ASSUME NEW i \in 0 .. 8 PROVE w[i] = v[i]
  <2>1. CASE i = 0
    BY <2>1
  <2>2. CASE i = 8
    BY <2>2
  <2>3. CASE i # 0 /\ i # 8
    <3>1. i \in 1 .. 8 /\ \A j \in 0 .. i - 1 : j \in 0 .. 8 /\ j # 8
      BY <2>3
    <3>2. v[i] = w[st[i].parent] /\ st[i].parent \in 0 .. i - 1
      BY <1>1, <2>3, <3>1
    <3> QED
      BY <2>3, <3>1, <3>2
  <2> QED
    BY <2>1, <2>2, <2>3
<1>3. Walks(st, 8, "OSPFLSAROUTE", w)
  <2>1. w = v
    BY <1>2
  <2> QED
    BY <2>1, Zenon DEF Walks
<1>4. PICK u : Walks(st, 8, "OSPFLSAROUTE", u) /\ Holder(st, 8, "OSPFLSAROUTE") = u[8]
  <2> HIDE DEF w, v
  <2> QED
    BY <1>3, HolderIs
<1> QED
  BY <1>4 DEF Walks

\* The counters of the handlers that repeat.
LEMMA CounterIs ==
    ASSUME NEW st, Climbs(st)
    PROVE  /\ Len(st) = 6 /\ st[5].name = "OSPF" =>
                 Counter(st, "OSPFLSA") = [index |-> st[5].index, max |-> st[5].max]
           /\ Len(st) = 8 /\ st[8].name = "OSPFLSAROUTE" =>
                 Counter(st, "OSPFLSAROUTELINK") = [index |-> st[8].index, max |-> st[8].max]
<1>1. CounterOf["OSPFLSA"] = "OSPF" /\ CounterOf["OSPFLSAROUTELINK"] = "OSPFLSAROUTE"
  BY DEF CounterOf
<1>2. Len(st) = 6 /\ st[5].name = "OSPF" => Holder(st, Len(st), CounterOf["OSPFLSA"]) = 5
  BY <1>1, OspfHolds
<1>3. Len(st) = 8 /\ st[8].name = "OSPFLSAROUTE" =>
          Holder(st, Len(st), CounterOf["OSPFLSAROUTELINK"]) = 8
  BY <1>1, RouteHolds
<1> QED
  BY <1>2, <1>3 DEF Counter

-----------------------------------------------------------------------------
(* The next handler. *)

\* What GetNextHandler can count on when the n-th handler calls it.
Ready(st, n) ==
    /\ st[n].name # "OSPFLSACK"
    /\ st[n].name = "OSPFDBD" => st[5].index = 0 /\ st[5].max > 0
    /\ st[n].name = "OSPFLSU" => st[5].index # Null \/ UnreadableLsu
    /\ st[n].name = "OSPFLSA" => "OSPFLSU" \in Names(frame)
    /\ st[n].name = "OSPFLSAROUTE" => UnreadableLsu
    /\ n = 2 => ~frame[1].own

\* Where the header of handler c is, if it becomes the one after the n-th.
Behind(f, first, st, n, c) ==
    \/ n \in DOMAIN f /\ f[n].name = c /\ (n = 1 \/ InPlace(f, st, n))
    \/ n = 2 /\ c = "ETHERNETII" /\ Misread(f)
    \/ n \in {6, 7} /\ c \in {"OSPFLLSDATABLOCK", "OSPFLLSDATABLOCKTLV"} /\ BlockFirst(f, first, st)

LEMMA CountedFits ==
    ASSUME NEW st, Climbs(st), Counts(frame, st), NEW n \in 1 .. 9, Height(st, n),
           NEW c \in DOMAIN CounterOf, st[n].name \in Parents[c],
           st[n].name # "OSPFLSACK"
    PROVE  /\ c \in {"OSPFLSA", "OSPFLSAROUTELINK"}
           /\ c = "OSPFLSA" =>
                 /\ n = 6 /\ st[5].name = "OSPF"
                 /\ Counter(st, c) = [index |-> st[5].index, max |-> st[5].max]
                 /\ st[5].index # Null => 6 \in DOMAIN frame /\ frame[6].name = c
           /\ c = "OSPFLSAROUTELINK" =>
                 /\ n = 8 /\ st[8].name = "OSPFLSAROUTE"
                 /\ Counter(st, c) = [index |-> st[8].index, max |-> st[8].max]
                 /\ st[8].index # Null => 8 \in DOMAIN frame /\ frame[8].name = c
           /\ Counter(st, c).index # Null => n \in DOMAIN frame /\ frame[n].name = c
<1>0. DOMAIN st = 1 .. n
  BY HeightIs
<1>1. n \in DOMAIN st
  BY <1>0
<1>2. st[n].name \in Levels[n] /\ (n > 1 => st[n - 1].name \in Parents[st[n].name])
  BY <1>1, StackIs
<1>3. c = "OSPFLSA" \/ c = "OSPFLSAROUTELINK"
  BY Repeating
<1>4. CASE c = "OSPFLSA"
  <2>1. st[n].name \in {"OSPFDBD", "OSPFLSU"}
    BY <1>4, Followers, HandlersAre
  <2>2. n = 6
    BY <1>2, <2>1, LevelIs
  <2>3. st[5].name = "OSPF"
    <3>1. st[6 - 1].name \in Parents[st[6].name]
      BY <1>2, <2>2
    <3>2. st[5].name \in Parents[st[6].name] /\ st[6].name \in {"OSPFDBD", "OSPFLSU"}
      BY <2>1, <2>2, <3>1
    <3>3. "OSPFDBD" \in Handlers /\ "OSPFLSU" \in Handlers
      BY HandlersAre
    <3> QED
      BY <3>2, <3>3, Followers
  <2>4. Counter(st, "OSPFLSA") = [index |-> st[5].index, max |-> st[5].max]
    BY <2>2, <2>3, CounterIs DEF Height
  <2>5. st[5].index # Null => 6 \in DOMAIN frame /\ frame[6].name = c
    <3>1. 5 \in DOMAIN st
      BY <1>0, <2>2
    <3> QED
      BY <1>4, <3>1 DEF Counts
  <2> QED
    BY <1>4, <2>2, <2>3, <2>4, <2>5
<1>5. CASE c = "OSPFLSAROUTELINK"
  <2>1. st[n].name = "OSPFLSAROUTE"
    BY <1>5, Followers, HandlersAre
  <2>2. n = 8
    BY <1>2, <2>1, LevelIs
  <2>3. Counter(st, "OSPFLSAROUTELINK") = [index |-> st[8].index, max |-> st[8].max]
    BY <2>1, <2>2, CounterIs DEF Height
  <2>4. st[8].index # Null => 8 \in DOMAIN frame /\ frame[8].name = c
    <3>1. 8 \in DOMAIN st
      BY <1>0, <2>2
    <3> QED
      BY <1>5, <3>1 DEF Counts
  <2> QED
    BY <1>5, <2>1, <2>2, <2>3, <2>4
<1> QED
  BY <1>3, <1>4, <1>5

LEMMA Between == \A n \in 1 .. 9 : n # 1 /\ n # 9 => n \in 2 .. 8
  OBVIOUS

LEMMA NextFits ==
    ASSUME frame \in Traffic, NEW st, Good(frame, llsFirst, st),
           NEW n \in 1 .. 9, Height(st, n), Ready(st, n),
           NEW c \in Handlers, st[n].name \in Parents[c], CheckForNext(c, st),
           c \in DOMAIN CounterOf => Counter(st, c).index # Null,
           st[n].name = "OSPFDBD" /\ c = "OSPFLLSDATABLOCK" => llsFirst
    PROVE  c \in Levels[n + 1] /\ n < 9 /\ Behind(frame, llsFirst, st, n, c)
<1>0. Climbs(st) /\ Lies(frame, llsFirst, st) /\ Counts(frame, st)
  BY DEF Good
<1>1. /\ n \in DOMAIN st /\ st[n].name \in Levels[n] /\ DOMAIN st = 1 .. n
      /\ \A i \in 1 .. n : i <= Len(st)
  <2>1. DOMAIN st = 1 .. n /\ \A i \in 1 .. n : i <= Len(st)
    BY <1>0, HeightIs
  <2>2. n \in DOMAIN st
    BY <2>1
  <2> QED
    BY <1>0, <2>1, <2>2, StackIs
<1>2. ASSUME c # "IPV6", Behind(frame, llsFirst, st, n, c)
      PROVE  c \in Levels[n + 1] /\ n < 9 /\ Behind(frame, llsFirst, st, n, c)
  BY <1>1, <1>2, NextLevel
<1>7. n # 1 => n \in 2 .. Len(st)
  BY DEF Height
<1>3. CASE n = 1
  <2>1. st[1].name = "ROOT"
    BY <1>1, <1>3 DEF Levels
  <2>2. c = "L2SELECTION"
    BY <1>3, <2>1, Followers
  <2> QED
    BY <1>2, <1>3, <2>2, FrameIsSeq DEF Behind
<1>4. CASE c \in DOMAIN CounterOf
  <2>1. st[n].name # "OSPFLSACK"
    BY DEF Ready
  <2>2. /\ (c = "OSPFLSA" /\ n = 6) \/ (c = "OSPFLSAROUTELINK" /\ n = 8)
        /\ n \in DOMAIN frame /\ frame[n].name = c
    <3>1. /\ c \in {"OSPFLSA", "OSPFLSAROUTELINK"}
          /\ c = "OSPFLSA" => n = 6
          /\ c = "OSPFLSAROUTELINK" => n = 8
          /\ Counter(st, c).index # Null => n \in DOMAIN frame /\ frame[n].name = c
      BY <1>0, <1>4, <2>1, CountedFits
    <3> QED
      BY <1>4, <3>1
  <2>3. InPlace(frame, st, n)
    <3>1. n \in 2 .. Len(st)
      BY <1>1, <1>7, <2>2
    <3>2. n # 3 /\ n # 7
      BY <2>2
    <3>3. n = 8 => st[n].name = "OSPFLSAROUTE"
      BY <2>2, Followers
    <3>4. ~Astray(frame, llsFirst, st, n)
      BY <3>2, <3>3 DEF Astray
    <3> QED
      BY <1>0, <3>1, <3>4 DEF Lies
  <2> QED
    BY <1>2, <2>2, <2>3 DEF Behind
<1>5. CASE n # 1 /\ c \notin DOMAIN CounterOf /\ InPlace(frame, st, n)
  <2>1. n # 9
    <3>1. n = 9 => st[n].name = "OSPFLSAROUTELINK"
      BY <1>1 DEF Levels
    <3> QED
      BY <3>1, Followers
  <2>2. n \in 2 .. 8
    BY <1>5, <2>1, Between
  <2>3. st[n].name = "OSPFLSA" => "OSPFLSU" \in Names(frame)
    BY DEF Ready
  <2>4. /\ c # "IPV6"
        /\ \/ n \in DOMAIN frame /\ frame[n].name = c
           \/ n = 2 /\ c = "ETHERNETII" /\ Misread(frame)
           \/ st[n].name = "OSPFDBD" /\ c = "OSPFLLSDATABLOCK"
    BY <1>0, <1>5, <2>2, <2>3, FollowerFits
  <2>5. CASE st[n].name = "OSPFDBD" /\ c = "OSPFLLSDATABLOCK"
    <3>1. n = 6
      BY <1>1, <2>5, LevelIs
    <3>2. st[5].index = 0 /\ 5 \in DOMAIN st
      BY <1>1, <2>5, <3>1 DEF Ready
    <3>3. 6 \in DOMAIN frame /\ frame[6].name = "OSPFLSA"
      BY <1>0, <3>2 DEF Counts, Null
    <3>4. BlockFirst(frame, llsFirst, st)
      BY <2>5, <3>1, <3>3 DEF BlockFirst
    <3> QED
      BY <1>2, <2>4, <2>5, <3>1, <3>4 DEF Behind
  <2>6. CASE ~(st[n].name = "OSPFDBD" /\ c = "OSPFLLSDATABLOCK")
    <3>1. Behind(frame, llsFirst, st, n, c)
      BY <1>5, <2>4, <2>6 DEF Behind
    <3> QED
      BY <1>2, <2>4, <3>1
  <2> QED
    BY <2>5, <2>6
<1>6. CASE n # 1 /\ Astray(frame, llsFirst, st, n)
  <2>1. CASE n = 3
    <3>1. st[n].name = "ETHERNETII" /\ Misread(frame)
      BY <1>6, <2>1 DEF Astray
    <3>2. 2 \in DOMAIN st /\ 2 \in 2 .. 8 /\ 2 <= Len(st)
      BY <1>1, <2>1
    <3>3. InPlace(frame, st, 2)
      <4>1. 2 \in 2 .. 6 /\ 2 # 3
        OBVIOUS
      <4> QED
        BY <1>0, <3>2, <4>1, Straight
    <3>4. st[2].name = "L2SELECTION"
      <4>1. st[2].name \in Levels[2]
        BY <1>0, <3>2, StackIs
      <4> QED
        BY <4>1 DEF Levels
    <3>5. HeaderFor(st[2].name) = frame[2 - 1]
      BY <1>0, <3>2, <3>3, HeaderOnStack
    <3>6. HeaderFor("L2SELECTION") = frame[1]
      BY <3>4, <3>5
    <3>7. ~Misread(frame)
      BY <3>1, <3>6, LayerFits
    <3> QED
      BY <3>1, <3>7
  <2>2. CASE n # 3
    <3>1. /\ n \in {7, 8} /\ st[n].name \in {"OSPFLLSDATABLOCK", "OSPFLLSDATABLOCKTLV"}
          /\ BlockFirst(frame, llsFirst, st)
      BY <1>6, <2>2 DEF Astray
    <3>2. st[n].name = "OSPFLLSDATABLOCK" /\ c = "OSPFLLSDATABLOCKTLV"
      BY <3>1, Followers
    <3>3. n = 7
      BY <1>1, <3>2, LevelIs
    <3> QED
      BY <1>2, <3>1, <3>2, <3>3 DEF Behind
  <2> QED
    BY <2>1, <2>2
<1>8. n # 1 => InPlace(frame, st, n) \/ Astray(frame, llsFirst, st, n)
  BY <1>0, <1>7 DEF Lies
<1> QED
  BY <1>3, <1>4, <1>5, <1>6, <1>8

-----------------------------------------------------------------------------
(* One more handler on the stack. *)

Pushed(st, n, c, o, set) ==
    Append(st, [name |-> c, at |-> o, set |-> set,
                parent |-> IF c \in DOMAIN CounterOf THEN n - 1 ELSE n,
                index |-> Null, max |-> Null])

LEMMA PushedIs ==
    ASSUME NEW st, Climbs(st), NEW n, Height(st, n), NEW c, NEW o, NEW set
    PROVE  LET s == Pushed(st, n, c, o, set) IN
           /\ n \in Nat /\ Height(s, n + 1) /\ DOMAIN s = 1 .. n + 1
           /\ \A i \in 1 .. n : s[i] = st[i]
           /\ s[n + 1] = [name |-> c, at |-> o, set |-> set,
                          parent |-> IF c \in DOMAIN CounterOf THEN n - 1 ELSE n,
                          index |-> Null, max |-> Null]
<1> DEFINE e == [name |-> c, at |-> o, set |-> set,
                 parent |-> IF c \in DOMAIN CounterOf THEN n - 1 ELSE n,
                 index |-> Null, max |-> Null]
           s == Append(st, e)
<1>1. st \in Seq(Entries) /\ Len(st) \in Nat /\ DOMAIN st = 1 .. Len(st) /\ Len(st) = n
  BY DEF Climbs, Height
<1>2. Len(s) = Len(st) + 1 /\ DOMAIN s = 1 .. Len(st) + 1
  <2> HIDE DEF e
  <2> QED
    BY <1>1
<1>3. \A i \in 1 .. Len(st) : s[i] = st[i]
  <2> HIDE DEF e
  <2> QED
    BY <1>1
<1>4. s[Len(st) + 1] = e
  <2> HIDE DEF e
  <2> QED
    BY <1>1
<1>5. s = Pushed(st, n, c, o, set)
  BY Zenon DEF Pushed
<1> HIDE DEF s, e
<1>6. /\ n \in Nat /\ Height(s, n + 1) /\ DOMAIN s = 1 .. n + 1
      /\ \A i \in 1 .. n : s[i] = st[i]
      /\ s[n + 1] = e
  BY <1>1, <1>2, <1>3, <1>4 DEF Height
<1> QED
  BY <1>5, <1>6, Zenon DEF e

LEMMA Extends ==
    ASSUME NEW f, NEW first, NEW st, Good(f, first, st), NEW n \in 1 .. 8, Height(st, n),
           NEW c \in Handlers, c \in Levels[n + 1], st[n].name \in Parents[c],
           st[n].name # "OSPFLSACK", NEW o \in Nat, NEW set \in BOOLEAN, set \/ c \in Unset,
           Behind(f, first, st, n, c),
           n \in DOMAIN f /\ f[n].name = c /\ (n = 1 \/ InPlace(f, st, n)) => o = Place(f, n),
           n >= 2 => ~f[1].own,
           st[n].name = "OSPFLSA" => "OSPFLSU" \in Names(f)
    PROVE  LET s == Pushed(st, n, c, o, set)
           IN  Good(f, first, s) /\ Fresh(s) /\ Height(s, n + 1)
<1> DEFINE s == Pushed(st, n, c, o, set)
           e == [name |-> c, at |-> o, set |-> set,
                 parent |-> IF c \in DOMAIN CounterOf THEN n - 1 ELSE n,
                 index |-> Null, max |-> Null]
<1>0. Climbs(st) /\ Lies(f, first, st) /\ Counts(f, st)
  BY DEF Good
<1>1. /\ Height(s, n + 1) /\ DOMAIN s = 1 .. n + 1
      /\ \A i \in 1 .. n : s[i] = st[i]
      /\ s[n + 1] = e
  BY <1>0, PushedIs
<1>2. DOMAIN st = 1 .. n
  BY <1>0, HeightIs
<1>3. e \in Entries
  BY DEF Entries, Null
<1>4. /\ e.name = c /\ e.at = o /\ e.set = set /\ e.index = Null /\ e.max = Null
      /\ e.parent = IF c \in DOMAIN CounterOf THEN n - 1 ELSE n
  OBVIOUS
<1> HIDE DEF s, e
<1>5. s \in Seq(Entries)
  <2>1. st \in Seq(Entries)
    BY <1>0 DEF Climbs
  <2>2. s = Append(st, e)
    BY Zenon DEF s, e, Pushed
  <2> QED
    BY <1>3, <2>1, <2>2
<1>6. Climbs(s)
  <2>1. Len(s) <= 9
    BY <1>1 DEF Height
  <2>2. ASSUME NEW i \in 1 .. n + 1
        PROVE  /\ s[i].name \in Levels[i]
               /\ i > 1 => s[i - 1].name \in Parents[s[i].name] \ {"OSPFLSACK"}
               /\ s[i].parent = (IF s[i].name \in DOMAIN CounterOf THEN i - 2 ELSE i - 1)
               /\ s[i].set \/ s[i].name \in Unset
    <3>1. CASE i = n + 1
      <4>1. n + 1 - 1 = n /\ n + 1 - 2 = n - 1 /\ n \in 1 .. n
        OBVIOUS
      <4>2. s[n] = st[n]
        BY <1>1, <4>1
      <4> QED
        BY <1>1, <1>4, <3>1, <4>1, <4>2
    <3>2. CASE i # n + 1
      <4>1. i \in 1 .. n /\ (i > 1 => i - 1 \in 1 .. n)
        BY <3>2
      <4>2. s[i] = st[i] /\ (i > 1 => s[i - 1] = st[i - 1])
        BY <1>1, <4>1
      <4>3. i \in DOMAIN st
        BY <1>2, <4>1
      <4> QED
        BY <1>0, <4>2, <4>3 DEF Climbs
    <3> QED
      BY <3>1, <3>2
  <2> QED
    BY <1>1, <1>5, <2>1, <2>2 DEF Climbs
<1>7. Lies(f, first, s)
  <2>1. s # <<>> => s[1].at = 0
    <3>1. st[1].at = 0 /\ s[1] = st[1]
      <4>1. st # <<>> /\ 1 \in 1 .. n
        BY <1>2
      <4> QED
        BY <1>0, <1>1, <4>1 DEF Lies
    <3> QED
      BY <3>1
  <2>2. Len(s) >= 3 => ~f[1].own
    BY <1>1 DEF Height
  <2>3. Len(s) >= 8 /\ s[7].name = "OSPFLSA" => "OSPFLSU" \in Names(f)
    <3>1. CASE n = 8
      BY <1>0, <1>1, <3>1 DEF Lies, Height
    <3>2. CASE n = 7
      BY <1>1, <3>2
    <3>3. CASE n < 7
      BY <1>1, <3>3 DEF Height
    <3> QED
      BY <3>1, <3>2, <3>3
  <2>4. ASSUME NEW i \in 2 .. n + 1 PROVE InPlace(f, s, i) \/ Astray(f, first, s, i)
    <3>1. CASE i = n + 1
      <4>1. i - 1 = n /\ s[i].name = c /\ s[i].at = o
        BY <1>1, <1>4, <3>1
      <4>2. CASE n \in DOMAIN f /\ f[n].name = c /\ (n = 1 \/ InPlace(f, st, n))
        BY <4>1, <4>2 DEF InPlace
      <4>3. CASE n = 2 /\ c = "ETHERNETII" /\ Misread(f)
        BY <1>1, <4>1, <4>3 DEF Astray, Height
      <4>4. CASE /\ n \in {6, 7} /\ c \in {"OSPFLLSDATABLOCK", "OSPFLLSDATABLOCKTLV"}
                 /\ BlockFirst(f, first, st)
        <5>1. s[6] = st[6]
          BY <1>1, <4>4
        <5>2. BlockFirst(f, first, s)
          BY <4>4, <5>1 DEF BlockFirst
        <5> QED
          BY <4>1, <4>4, <5>2 DEF Astray
      <4> QED
        BY <4>2, <4>3, <4>4 DEF Behind
    <3>2. CASE i # n + 1
      <4>1. i \in 2 .. n /\ i \in 1 .. n
        BY <3>2
      <4>2. s[i] = st[i]
        BY <1>1, <4>1
      <4>3. InPlace(f, st, i) \/ Astray(f, first, st, i)
        BY <1>0, <4>1 DEF Lies, Height
      <4>4. CASE InPlace(f, st, i)
        BY <4>2, <4>4 DEF InPlace
      <4>5. CASE Astray(f, first, st, i)
        <5>1. CASE i = 3 /\ Len(st) = 3
          <6>1. n = 3
            BY <5>1 DEF Height
          <6>2. InPlace(f, st, 3)
            BY <6>1 DEF Behind
          <6> QED
            BY <4>2, <5>1, <6>2 DEF InPlace
        <5>2. CASE ~(i = 3 /\ Len(st) = 3)
          <6>1. /\ i \in {7, 8} /\ st[i].name \in {"OSPFLLSDATABLOCK", "OSPFLLSDATABLOCKTLV"}
                /\ BlockFirst(f, first, st)
            BY <4>5, <5>2 DEF Astray
          <6>2. s[6] = st[6]
            BY <1>1, <4>1, <6>1
          <6>3. BlockFirst(f, first, s)
            BY <6>1, <6>2 DEF BlockFirst
          <6> QED
            BY <4>2, <6>1, <6>3 DEF Astray
        <5> QED
          BY <5>1, <5>2
      <4> QED
        BY <4>3, <4>4, <4>5
    <3> QED
      BY <3>1, <3>2
  <2>5. \A i \in 2 .. Len(s) : i \in 2 .. n + 1
    BY <1>1 DEF Height
  <2> QED
    BY <2>1, <2>2, <2>3, <2>4, <2>5 DEF Lies
<1>8. ASSUME NEW i \in DOMAIN s
      PROVE  /\ s[i].index <= s[i].max
             /\ s[i].index # Null =>
                   /\ \/ i = 5 /\ Len(s) >= 6 /\ 6 \in DOMAIN f /\ f[6].name = "OSPFLSA"
                      \/ i = 8 /\ Len(s) >= 8 /\ 8 \in DOMAIN f /\ f[8].name = "OSPFLSAROUTELINK"
                   /\ (i = 5 /\ Len(s) >= 7) \/ (i = 8 /\ Len(s) >= 9)
  <2>1. CASE i = n + 1
    BY <1>1, <1>4, <2>1 DEF Null
  <2>2. CASE i # n + 1
    <3>1. i \in 1 .. n /\ i \in DOMAIN st
      BY <1>1, <1>2, <2>2
    <3>2. s[i] = st[i]
      BY <1>1, <3>1
    <3>3. (Len(st) >= 6 => Len(s) >= 7) /\ (Len(st) >= 8 => Len(s) >= 9) /\ (Len(s) >= 7 => Len(s) >= 6)
            /\ (Len(s) >= 9 => Len(s) >= 8)
      BY <1>1 DEF Height
    <3> QED
      BY <1>0, <3>1, <3>2, <3>3 DEF Counts
  <2> QED
    BY <2>1, <2>2
<1>9. Counts(f, s) /\ Fresh(s)
  BY <1>8 DEF Counts, Fresh
<1> QED
  BY <1>1, <1>6, <1>7, <1>9 DEF Good, s

\* Only the index and the maximum of the handlers change.
SameShape(st, s, n) ==
    /\ s \in Seq(Entries) /\ Height(s, n)
    /\ \A i \in 1 .. n : /\ s[i].name = st[i].name /\ s[i].at = st[i].at
                         /\ s[i].set = st[i].set /\ s[i].parent = st[i].parent

LEMMA KeepsShape ==
    ASSUME NEW f, NEW first, NEW st, Climbs(st), Lies(f, first, st), NEW n \in Nat,
           Height(st, n), NEW s, SameShape(st, s, n)
    PROVE  Climbs(s) /\ Lies(f, first, s)
<1>1. s \in Seq(Entries) /\ Height(s, n) /\ DOMAIN s = 1 .. n /\ DOMAIN st = 1 .. n
  BY HeightIs DEF SameShape, Height
<1>2. \A i \in 1 .. n : /\ s[i].name = st[i].name /\ s[i].at = st[i].at
                        /\ s[i].set = st[i].set /\ s[i].parent = st[i].parent
  BY DEF SameShape
<1>3. Climbs(s)
  <2>1. Len(s) <= 9
    BY <1>1 DEF Climbs, Height
  <2>2. ASSUME NEW i \in 1 .. n
        PROVE  /\ s[i].name \in Levels[i]
               /\ i > 1 => s[i - 1].name \in Parents[s[i].name] \ {"OSPFLSACK"}
               /\ s[i].parent = (IF s[i].name \in DOMAIN CounterOf THEN i - 2 ELSE i - 1)
               /\ s[i].set \/ s[i].name \in Unset
    <3>1. i \in DOMAIN st /\ (i > 1 => i - 1 \in 1 .. n)
      BY <1>1
    <3>2. /\ s[i].name = st[i].name /\ s[i].set = st[i].set /\ s[i].parent = st[i].parent
          /\ i > 1 => s[i - 1].name = st[i - 1].name
      BY <1>2, <3>1
    <3> QED
      BY <3>1, <3>2 DEF Climbs
  <2> QED
    BY <1>1, <2>1, <2>2 DEF Climbs
<1>4. Lies(f, first, s)
  <2>1. (s # <<>> => st # <<>>) /\ (st # <<>> => 1 \in 1 .. n)
    BY <1>1 DEF Climbs
  <2>2. Len(s) = Len(st) /\ (Len(s) >= 8 => 7 \in 1 .. n)
    BY <1>1 DEF Height
  <2>3. ASSUME NEW i \in 2 .. n PROVE InPlace(f, s, i) \/ Astray(f, first, s, i)
    <3>1. i \in 1 .. n /\ i \in 2 .. Len(st)
      BY <1>1 DEF Height
    <3>2. s[i].name = st[i].name /\ s[i].at = st[i].at
      BY <1>2, <3>1
    <3>3. CASE InPlace(f, st, i)
      BY <3>2, <3>3 DEF InPlace
    <3>4. CASE Astray(f, first, st, i)
      <4>1. i \in {7, 8} => s[6].name = st[6].name
        BY <1>2, <3>1
      <4> QED
        BY <2>2, <3>2, <3>4, <4>1 DEF Astray, BlockFirst
    <3> QED
      BY <3>1, <3>3, <3>4 DEF Lies
  <2>4. 2 .. Len(s) = 2 .. n
    BY <1>1 DEF Height
  <2>5. s # <<>> => s[1].at = 0
    BY <1>2, <2>1 DEF Lies
  <2>6. Len(s) >= 3 => ~f[1].own
    BY <2>2 DEF Lies
  <2>7. Len(s) >= 8 /\ s[7].name = "OSPFLSA" => "OSPFLSU" \in Names(f)
    BY <1>2, <2>2 DEF Lies
  <2> QED
    BY <2>3, <2>4, <2>5, <2>6, <2>7 DEF Lies
<1> QED
  BY <1>3, <1>4

\* An index is counted up, or set with its maximum, for a header that is there.
LEMMA Recount ==
    ASSUME NEW f, NEW first, NEW st, Good(f, first, st), NEW n \in Nat, Height(st, n),
           NEW i \in 1 .. n, NEW s, SameShape(st, s, n),
           \A j \in (1 .. n) \ {i} : s[j] = st[j],
           s[i].index <= s[i].max,
           \/ i = 5 /\ n >= 6 /\ 6 \in DOMAIN f /\ f[6].name = "OSPFLSA"
           \/ i = 8 /\ 8 \in DOMAIN f /\ f[8].name = "OSPFLSAROUTELINK"
    PROVE  Good(f, first, s)
<1>0. Climbs(st) /\ Lies(f, first, st) /\ Counts(f, st)
  BY DEF Good
<1>1. Climbs(s) /\ Lies(f, first, s)
  BY <1>0, KeepsShape
<1>2. DOMAIN s = 1 .. n /\ DOMAIN st = 1 .. n /\ Len(s) = Len(st) /\ (n >= 6 => Len(s) >= 6)
        /\ (n >= 8 => Len(s) >= 8)
  BY <1>0, HeightIs DEF SameShape, Height
<1>3. ASSUME NEW j \in 1 .. n
      PROVE  /\ s[j].index <= s[j].max
             /\ s[j].index # Null =>
                   \/ j = 5 /\ Len(s) >= 6 /\ 6 \in DOMAIN f /\ f[6].name = "OSPFLSA"
                   \/ j = 8 /\ Len(s) >= 8 /\ 8 \in DOMAIN f /\ f[8].name = "OSPFLSAROUTELINK"
  <2>1. CASE j = i
    <3>1. j = 8 => n >= 8
      OBVIOUS
    <3> QED
      BY <1>2, <2>1, <3>1
  <2>2. CASE j # i
    <3>1. s[j] = st[j]
      BY <2>2
    <3> QED
      BY <1>0, <1>2, <3>1 DEF Counts
  <2> QED
    BY <2>1, <2>2
<1> QED
  BY <1>1, <1>2, <1>3 DEF Good, Counts

-----------------------------------------------------------------------------
(* GetNextHandler keeps what the stack is. *)

Sized == DOMAIN HeaderSize \cup {"IPV4", "OSPFHELLO"}

\* The offset, when the n-th handler looks for the next one.
Aligned(f, st, n, o) ==
    /\ o \in Nat
    /\ n = 1 => o = 0
    /\ n > 1 /\ InPlace(f, st, n) /\ st[n].name \in Sized => o = Place(f, n)

\* Handler c can become the one after the n-th, and read at o.
Follows(f, first, st, n, c, o) ==
    \A set \in BOOLEAN : set \/ c \in Unset =>
        /\ Good(f, first, Pushed(st, n, c, o, set))
        /\ Fresh(Pushed(st, n, c, o, set))
        /\ Height(Pushed(st, n, c, o, set), n + 1)

Known(st) == \A k \in DOMAIN st : st[k].name \in Indexed

LEMMA IndexedAre ==
    /\ Indexed \subseteq Handlers /\ "ROOT" \in Indexed /\ None \notin Handlers
    /\ "OSPFLLSDATABLOCK" \in Indexed => "OSPFLSA" \in Indexed
<1>1. DOMAIN Exports = {"INTERNAL", "SYSTEM", "Icmp", "RIP", "Image", "TCP", "MPLS", "OSPF"}
  BY DEF Exports
<1>2. \A a \in DOMAIN Exports : Exports[a] \subseteq Handlers
  BY HandlersAre DEF Exports
<1>3. "INTERNAL" \in DOMAIN Exports \cap (Always \cup routers) /\ "ROOT" \in Exports["INTERNAL"]
  BY DEF Exports, Always
<1>4. \A a \in DOMAIN Exports : "OSPFLLSDATABLOCK" \in Exports[a] => "OSPFLSA" \in Exports[a]
  BY DEF Exports
<1>5. None \notin Handlers
  BY HandlersAre DEF None
<1> QED
  BY <1>2, <1>3, <1>4, <1>5 DEF Indexed

LEMMA FirstOfIs == ASSUME NEW S PROVE FirstOf(S) = None \/ FirstOf(S) \in S
<1>1. ASSUME S # {} PROVE (CHOOSE c \in S : TRUE) \in S
  <2>1. \E c \in S : TRUE
    BY <1>1
  <2> QED
    BY <2>1, Zenon
<1> QED
  BY <1>1 DEF FirstOf

LEMMA Repeats ==
    ASSUME NEW c, NEW st, c \in DOMAIN CounterOf, Counter(st, c).index < Counter(st, c).max
    PROVE  CheckForNext(c, st)
<1> DEFINE count == Counter(st, c)
           counted == c \in DOMAIN CounterOf /\ count.index < count.max
<1>1. counted => CheckForNext(c, st)
  <2> HIDE DEF counted
  <2> QED
    BY SMT DEF CheckForNext, counted
<1> QED
  BY <1>1

LEMMA Fitting ==
    ASSUME frame \in Traffic, NEW st, Good(frame, llsFirst, st), NEW n \in 1 .. 9,
           Height(st, n), Ready(st, n), NEW tried,
           tried = {c \in Indexed : st[n].name \in Parents[c]},
           NEW next, next = FirstOf({c \in tried : CheckForNext(c, st)}), next # None
    PROVE  /\ next \in Indexed /\ next \in Handlers /\ st[n].name \in Parents[next]
           /\ CheckForNext(next, st)
           /\ st[n].name = "OSPFDBD" /\ next = "OSPFLLSDATABLOCK" => llsFirst
<1> DEFINE fits == {c \in tried : CheckForNext(c, st)}
<1>1. next \in fits
  <2> HIDE DEF fits
  <2> QED
    BY FirstOfIs DEF fits
<1>2. /\ next \in Indexed /\ next \in Handlers /\ st[n].name \in Parents[next]
      /\ CheckForNext(next, st)
  BY <1>1, IndexedAre
<1>3. ASSUME st[n].name = "OSPFDBD", next = "OSPFLLSDATABLOCK" PROVE llsFirst
  <2>0. Climbs(st) /\ Counts(frame, st)
    BY DEF Good
  <2>1. n = 6
    <3>1. n \in DOMAIN st
      BY <2>0, HeightIs
    <3>2. st[n].name \in Levels[n]
      BY <2>0, <3>1, StackIs
    <3> QED
      BY <1>3, <3>2, LevelIs
  <2>2. "OSPFLSA" \in tried
    <3>1. "OSPFDBD" \in Parents["OSPFLSA"]
      BY DEF Parents
    <3>2. "OSPFLSA" \in Indexed
      BY <1>2, <1>3, IndexedAre
    <3> QED
      BY <1>3, <3>1, <3>2
  <2>3. CheckForNext("OSPFLSA", st)
    <3>1. "OSPFLSA" \in DOMAIN CounterOf
      BY Repeating
    <3>2. st[n].name \in Parents["OSPFLSA"] /\ st[n].name # "OSPFLSACK"
      BY <1>3, <2>2
    <3>3. Counter(st, "OSPFLSA") = [index |-> st[5].index, max |-> st[5].max]
      BY <2>0, <3>1, <3>2, CountedFits
    <3>4. st[5].index = 0 /\ st[5].max > 0
      BY <1>3 DEF Ready
    <3>5. st[5].max > 0 => 0 < st[5].max
      <4>1. 5 \in DOMAIN st
        BY <2>0, <2>1, HeightIs
      <4>2. st[5] \in Entries
        BY <2>0, <4>1, StackIs
      <4>3. st[5].max \in Int
        BY <4>2 DEF Entries, Null
      <4> QED
        BY <4>3
    <3>6. Counter(st, "OSPFLSA").index < Counter(st, "OSPFLSA").max
      BY <3>3, <3>4, <3>5
    <3> QED
      BY <3>1, <3>6, Repeats
  <2>4. {"OSPFLSA", "OSPFLLSDATABLOCK"} \subseteq fits
    BY <1>1, <1>3, <2>2, <2>3
  <2>5. fits # {}
    BY <2>4
  <2>6. next = FirstOf(fits)
    OBVIOUS
  <2> HIDE DEF fits
  <2> QED
    BY <1>3, <2>4, <2>5, <2>6 DEF FirstOf
<1> QED
  BY <1>2, <1>3

\* An entry of which the index and the maximum are other ones.
Recounted(st, i, x, m) == [st EXCEPT ![i] = [st[i] EXCEPT !.index = x, !.max = m]]

LEMMA RecountedIs ==
    ASSUME NEW st, Climbs(st), NEW n, Height(st, n), NEW i \in 1 .. n,
           NEW x \in Nat \cup {Null}, NEW m \in Nat \cup {Null}
    PROVE  LET s == Recounted(st, i, x, m)
           IN  /\ SameShape(st, s, n) /\ s[i].index = x /\ s[i].max = m
               /\ \A j \in (1 .. n) \ {i} : s[j] = st[j]
<1> DEFINE s == Recounted(st, i, x, m)
<1>1. st \in Seq(Entries) /\ Len(st) \in Nat /\ DOMAIN st = 1 .. Len(st) /\ Len(st) = n
  BY DEF Climbs, Height
<1>2. st[i] \in Entries
  BY <1>1
<1> DEFINE e == [st[i] EXCEPT !.index = x, !.max = m]
<1>3. /\ e \in Entries /\ e.index = x /\ e.max = m
      /\ e.name = st[i].name /\ e.at = st[i].at /\ e.set = st[i].set /\ e.parent = st[i].parent
  BY <1>2 DEF Entries
<1>4. s = [st EXCEPT ![i] = e]
  BY Zenon DEF Recounted
<1> HIDE DEF e
<1>5. i \in DOMAIN st /\ n \in Nat
  BY <1>1
<1>6. s \in Seq(Entries) /\ Len(s) = Len(st)
  BY <1>1, <1>3, <1>4
<1>7. s[i] = e /\ \A j \in (1 .. n) \ {i} : s[j] = st[j]
  BY <1>1, <1>4, <1>5
<1>8. Height(s, n)
  BY <1>1, <1>6 DEF Height
<1>9. \A j \in 1 .. n : /\ s[j].name = st[j].name /\ s[j].at = st[j].at
                        /\ s[j].set = st[j].set /\ s[j].parent = st[j].parent
  BY <1>3, <1>7
<1> QED
  BY <1>3, <1>6, <1>7, <1>8, <1>9 DEF SameShape

LEMMA HolderOf ==
    ASSUME NEW st, Climbs(st)
    PROVE  /\ Height(st, 6) /\ st[5].name = "OSPF" => Holder(st, Len(st), "OSPF") = 5
           /\ Height(st, 8) /\ st[8].name = "OSPFLSAROUTE" =>
                 Holder(st, Len(st), "OSPFLSAROUTE") = 8
  BY OspfHolds, RouteHolds DEF Height

LEMMA CountsUp ==
    ASSUME NEW st, Good(frame, llsFirst, st), NEW n \in 1 .. 9, Height(st, n),
           NEW c \in DOMAIN CounterOf, st[n].name \in Parents[c], st[n].name # "OSPFLSACK",
           Counter(st, c).index # Null, Counter(st, c).index < Counter(st, c).max
    PROVE  LET s == [st EXCEPT ![Holder(st, Len(st), CounterOf[c])].index = @ + 1]
           IN  Good(frame, llsFirst, s) /\ SameShape(st, s, n)
<1> DEFINE s == [st EXCEPT ![Holder(st, Len(st), CounterOf[c])].index = @ + 1]
<1>0. Climbs(st) /\ Counts(frame, st)
  BY DEF Good
<1>1. /\ c \in {"OSPFLSA", "OSPFLSAROUTELINK"}
      /\ c = "OSPFLSA" =>
            /\ n = 6 /\ st[5].name = "OSPF"
            /\ Counter(st, c) = [index |-> st[5].index, max |-> st[5].max]
            /\ st[5].index # Null => 6 \in DOMAIN frame /\ frame[6].name = c
      /\ c = "OSPFLSAROUTELINK" =>
            /\ n = 8 /\ st[8].name = "OSPFLSAROUTE"
            /\ Counter(st, c) = [index |-> st[8].index, max |-> st[8].max]
            /\ st[8].index # Null => 8 \in DOMAIN frame /\ frame[8].name = c
  BY <1>0, CountedFits
<1> DEFINE i == IF c = "OSPFLSA" THEN 5 ELSE 8
<1>2. CounterOf["OSPFLSA"] = "OSPF" /\ CounterOf["OSPFLSAROUTELINK"] = "OSPFLSAROUTE"
  BY DEF CounterOf
<1>3. Holder(st, Len(st), CounterOf[c]) = i
  BY <1>0, <1>1, <1>2, HolderOf
<1>4. Counter(st, c) = [index |-> st[i].index, max |-> st[i].max] /\ i \in 1 .. n
  BY <1>1
<1>5. /\ st[i].index # Null /\ st[i].index < st[i].max
      /\ \/ i = 5 /\ n >= 6 /\ 6 \in DOMAIN frame /\ frame[6].name = "OSPFLSA"
         \/ i = 8 /\ 8 \in DOMAIN frame /\ frame[8].name = "OSPFLSAROUTELINK"
  BY <1>1, <1>4
<1>6. st[i] \in Entries
  <2>1. i \in DOMAIN st
    BY <1>0, <1>4, HeightIs
  <2> HIDE DEF i
  <2> QED
    BY <1>0, <2>1, StackIs
<1> DEFINE x == st[i].index + 1
           m == st[i].max
<1>7. x \in Nat /\ m \in Nat /\ x <= m
  <2>1. st[i].index \in Nat /\ m \in Nat \cup {Null}
    BY <1>5, <1>6 DEF Entries
  <2> QED
    BY <1>5, <2>1 DEF Null
<1>8. s = Recounted(st, i, x, m)
  <2>1. s = [st EXCEPT ![i] = [st[i] EXCEPT !.index = x]]
    BY <1>3
  <2>2. [st[i] EXCEPT !.index = x] = [st[i] EXCEPT !.index = x, !.max = m]
    BY <1>6 DEF Entries
  <2> QED
    BY <2>1, <2>2, Zenon DEF Recounted
<1> HIDE DEF i, x, m, s
<1>9. /\ SameShape(st, s, n) /\ s[i].index = x /\ s[i].max = m
      /\ \A j \in (1 .. n) \ {i} : s[j] = st[j]
  <2>1. x \in Nat \cup {Null} /\ m \in Nat \cup {Null}
    BY <1>7
  <2>2. i \in 1 .. n
    BY <1>4
  <2>3. Climbs(st) /\ Height(st, n)
    BY <1>0
  <2>4. LET r == Recounted(st, i, x, m)
        IN  /\ SameShape(st, r, n) /\ r[i].index = x /\ r[i].max = m
            /\ \A j \in (1 .. n) \ {i} : r[j] = st[j]
    BY <2>1, <2>2, <2>3, RecountedIs
  <2> QED
    BY <1>8, <2>4
<1>10. Good(frame, llsFirst, s)
  <2>1. s[i].index <= s[i].max
    BY <1>7, <1>9
  <2>2. n \in Nat /\ i \in 1 .. n
    BY <1>4
  <2>3. \/ i = 5 /\ n >= 6 /\ 6 \in DOMAIN frame /\ frame[6].name = "OSPFLSA"
        \/ i = 8 /\ 8 \in DOMAIN frame /\ frame[8].name = "OSPFLSAROUTELINK"
    BY <1>5
  <2> QED
    BY <1>9, <2>1, <2>2, <2>3, Recount
<1> QED
  BY <1>9, <1>10 DEF s

\* What a turn that looks for the next handler leaves.
Turned(n) ==
    /\ UNCHANGED <<given, frame, told>>
    /\ Good(frame, llsFirst, stack') /\ Height(stack', n) /\ Known(stack')
    /\ shared' \in BOOLEAN
    /\ \/ phase' = "down" /\ UnreadableLsu /\ UNCHANGED <<following, teller>>
       \/ phase' = "tell" /\ following' = None /\ teller' = n
       \/ /\ phase' = "parse" /\ UNCHANGED teller
          /\ following' \in Indexed /\ following' \in Handlers
          /\ shared' = (following' \in DOMAIN CounterOf)
          /\ Follows(frame, llsFirst, stack', n, following', offset')

LEMMA BehindShape ==
    ASSUME NEW st, NEW s, NEW n \in 1 .. 9, SameShape(st, s, n), NEW c,
           Behind(frame, llsFirst, st, n, c)
    PROVE  Behind(frame, llsFirst, s, n, c)
<1>1. \A i \in 1 .. n : s[i].name = st[i].name /\ s[i].at = st[i].at
  BY DEF SameShape
<1>2. n \in 1 .. n /\ (n \in {6, 7} => 6 \in 1 .. n)
  OBVIOUS
<1> QED
  BY <1>1, <1>2 DEF Behind, InPlace, BlockFirst

LEMMA CanFollow ==
    ASSUME frame \in Traffic, NEW st, Good(frame, llsFirst, st), NEW n \in 1 .. 9,
           Height(st, n), Ready(st, n), NEW o, Aligned(frame, st, n, o),
           NEW s, Good(frame, llsFirst, s), SameShape(st, s, n),
           NEW c \in Handlers, st[n].name \in Parents[c],
           c \in Levels[n + 1] /\ n < 9 /\ Behind(frame, llsFirst, st, n, c)
    PROVE  Follows(frame, llsFirst, s, n, c, o)
<1>0. Climbs(s) /\ Climbs(st) /\ Lies(frame, llsFirst, st)
  BY DEF Good
<1>1. n \in 1 .. 8 /\ Height(s, n) /\ c \in Levels[n + 1] /\ n \in 1 .. n
  BY DEF SameShape
<1>2. s[n].name = st[n].name /\ s[n].at = st[n].at
  BY <1>1 DEF SameShape
<1>3. Behind(frame, llsFirst, s, n, c)
  BY BehindShape
<1>4. o \in Nat
  BY DEF Aligned
<1>5. n >= 2 => ~frame[1].own
  <2>1. n >= 3 => ~frame[1].own
    BY <1>0 DEF Lies, Height
  <2> QED
    BY <2>1 DEF Ready
<1>6. s[n].name = "OSPFLSA" => "OSPFLSU" \in Names(frame)
  BY <1>2 DEF Ready
<1>7. s[n].name # "OSPFLSACK" /\ s[n].name \in Parents[c]
  BY <1>2 DEF Ready
<1>8. n \in DOMAIN frame /\ frame[n].name = c /\ (n = 1 \/ InPlace(frame, s, n))
          => o = Place(frame, n)
  <2>1. ASSUME n = 1 PROVE o = Place(frame, n)
    BY <2>1, FirstPlace DEF Aligned
  <2>2. ASSUME n # 1, InPlace(frame, s, n) PROVE o = Place(frame, n)
    <3>1. InPlace(frame, st, n)
      BY <1>2, <2>2 DEF InPlace
    <3>2. n \in DOMAIN st /\ st[n].name \in Levels[n]
      <4>1. n \in DOMAIN st
        BY <1>0, <1>1, HeightIs
      <4> QED
        BY <1>0, <4>1, StackIs
    <3>3. st[n].name # "ROOT" /\ st[n].name # "IPV6"
      BY <2>2, <3>2, LevelIs
    <3>4. st[n].name \in Sized
      <4>1. {"L2SELECTION", "IEEE8023", "ETHERNETII", "IPV4", "ICMP", "UDP", "LDP", "LDPMESSAGE",
             "OSPF", "OSPFHELLO", "OSPFDBD", "OSPFLLSDATABLOCK", "OSPFLSU", "OSPFLSA",
             "OSPFLSAROUTE"} \subseteq Sized
        BY DEF Sized, HeaderSize
      <4>2. st[n].name \in
            {"L2SELECTION", "IEEE8023", "ETHERNETII", "IPV4", "ICMP", "UDP", "LDP", "LDPMESSAGE",
             "OSPF", "OSPFHELLO", "OSPFDBD", "OSPFLLSDATABLOCK", "OSPFLSU", "OSPFLSA",
             "OSPFLSAROUTE"}
        <5>1. st[n].name # "NONE"
          <6>1. st[n].name \in Handlers
            BY <3>2, LevelIs
          <6> QED
            BY <6>1, HandlersAre
        <5> QED
          BY <1>2, <1>7, <3>3, <5>1, Followers
      <4> QED
        BY <4>1, <4>2
    <3> QED
      BY <2>2, <3>1, <3>4 DEF Aligned
  <2> QED
    BY <2>1, <2>2
<1>9. ASSUME NEW set \in BOOLEAN, set \/ c \in Unset
      PROVE  /\ Good(frame, llsFirst, Pushed(s, n, c, o, set))
             /\ Fresh(Pushed(s, n, c, o, set))
             /\ Height(Pushed(s, n, c, o, set), n + 1)
  BY <1>1, <1>3, <1>4, <1>5, <1>6, <1>7, <1>8, <1>9, Extends
<1> QED
  BY <1>9 DEF Follows

LEMMA GoesOn ==
    ASSUME frame \in Traffic, NEW st, Good(frame, llsFirst, st), Known(st), NEW n \in 1 .. 9,
           Height(st, n), Ready(st, n), Aligned(frame, st, n, offset'), GetNextHandler(st)
    PROVE  Turned(n)
<1> DEFINE tried == {c \in Indexed : st[n].name \in Parents[c]}
           next == FirstOf({c \in tried : CheckForNext(c, st)})
<1>0. Climbs(st) /\ Counts(frame, st) /\ st[n].name # "OSPFLSACK"
  BY DEF Good, Ready
<1>1. IF \E c \in tried \cap DOMAIN CounterOf : Counter(st, c).index = Null
      THEN Throws(st)
      ELSE IF next = None
      THEN Ends(st) /\ shared' = FALSE
      ELSE /\ following' = next
           /\ phase' = "parse"
           /\ shared' = (next \in DOMAIN CounterOf)
           /\ stack' = IF next \in DOMAIN CounterOf
                       THEN [st EXCEPT ![Holder(st, Len(st), CounterOf[next])].index = @ + 1]
                       ELSE st
           /\ UNCHANGED <<given, frame, teller, told>>
  <2>1. Len(st) = n
    BY DEF Height
  <2> QED
    BY <2>1, Zenon DEF GetNextHandler
<1> HIDE DEF tried, next
<1>2. CASE \E c \in tried \cap DOMAIN CounterOf : Counter(st, c).index = Null
  <2>1. Throws(st)
    BY <1>1, <1>2
  <2>2. PICK c \in tried \cap DOMAIN CounterOf : Counter(st, c).index = Null
    BY <1>2
  <2>3. c \in DOMAIN CounterOf /\ st[n].name \in Parents[c]
    BY <2>2 DEF tried
  <2>4. /\ c \in {"OSPFLSA", "OSPFLSAROUTELINK"}
        /\ c = "OSPFLSA" =>
              /\ n = 6 /\ st[5].name = "OSPF"
              /\ Counter(st, c) = [index |-> st[5].index, max |-> st[5].max]
              /\ st[5].index # Null => 6 \in DOMAIN frame /\ frame[6].name = c
        /\ c = "OSPFLSAROUTELINK" => n = 8 /\ st[8].name = "OSPFLSAROUTE"
    BY <1>0, <2>3, CountedFits
  <2>5. UnreadableLsu
    <3>1. CASE c = "OSPFLSA"
      <4>1. st[5].index = Null
        BY <2>2, <2>4, <3>1
      <4>2. st[n].name \in {"OSPFDBD", "OSPFLSU"}
        BY <1>0, <2>3, <3>1, Followers, HandlersAre
      <4> QED
        BY <4>1, <4>2 DEF Ready, Null
    <3>2. CASE c = "OSPFLSAROUTELINK"
      BY <2>4, <3>2 DEF Ready
    <3> QED
      BY <2>4, <3>1, <3>2
  <2> QED
    BY <2>1, <2>5 DEF Turned, Throws
<1>3. CASE ~(\E c \in tried \cap DOMAIN CounterOf : Counter(st, c).index = Null) /\ next = None
  <2>1. Ends(st) /\ shared' = FALSE
    BY <1>1, <1>3
  <2> QED
    BY <2>1 DEF Turned, Ends, Height
<1>4. CASE ~(\E c \in tried \cap DOMAIN CounterOf : Counter(st, c).index = Null) /\ next # None
  <2>1. /\ following' = next
        /\ phase' = "parse"
        /\ shared' = (next \in DOMAIN CounterOf)
        /\ stack' = IF next \in DOMAIN CounterOf
                    THEN [st EXCEPT ![Holder(st, Len(st), CounterOf[next])].index = @ + 1]
                    ELSE st
        /\ UNCHANGED <<given, frame, teller, told>>
    BY <1>1, <1>4
  <2>2. /\ next \in Indexed /\ next \in Handlers /\ st[n].name \in Parents[next]
        /\ CheckForNext(next, st)
        /\ st[n].name = "OSPFDBD" /\ next = "OSPFLLSDATABLOCK" => llsFirst
    BY <1>4, Fitting DEF tried, next
  <2>3. next \in DOMAIN CounterOf => Counter(st, next).index # Null
    BY <1>4, <2>2 DEF tried
  <2>4. next \in Levels[n + 1] /\ n < 9 /\ Behind(frame, llsFirst, st, n, next)
    BY <2>2, <2>3, NextFits
  <2>5. Good(frame, llsFirst, stack') /\ SameShape(st, stack', n)
    <3>1. CASE next \in DOMAIN CounterOf
      <4>1. Counter(st, next).index < Counter(st, next).max
        BY <2>2, <3>1, Checks
      <4>2. LET s == [st EXCEPT ![Holder(st, Len(st), CounterOf[next])].index = @ + 1]
            IN  Good(frame, llsFirst, s) /\ SameShape(st, s, n)
        BY <1>0, <2>2, <2>3, <3>1, <4>1, CountsUp
      <4>3. stack' = [st EXCEPT ![Holder(st, Len(st), CounterOf[next])].index = @ + 1]
        BY <2>1, <3>1
      <4> QED
        BY <4>2, <4>3, Zenon
    <3>2. CASE next \notin DOMAIN CounterOf
      BY <1>0, <2>1, <3>2 DEF SameShape, Climbs
    <3> QED
      BY <3>1, <3>2
  <2>6. Follows(frame, llsFirst, stack', n, next, offset')
    BY <2>2, <2>4, <2>5, CanFollow
  <2>7. Known(stack')
    <3>1. Climbs(stack')
      BY <2>5 DEF Good
    <3>2. DOMAIN st = 1 .. n /\ DOMAIN stack' = 1 .. n
      BY <1>0, <2>5, <3>1, HeightIs DEF SameShape
    <3> QED
      BY <2>5, <3>2 DEF Known, SameShape
  <2>8. Height(stack', n)
    BY <2>5 DEF SameShape
  <2> QED
    BY <2>1, <2>2, <2>5, <2>6, <2>7, <2>8 DEF Turned
<1> QED
  BY <1>2, <1>3, <1>4

-----------------------------------------------------------------------------
(* The invariant. *)

Typed ==
    /\ routers \in RouterSets
    /\ llsFirst \in BOOLEAN
    /\ phase \in {"idle", "parse", "options", "tell", "down"}
    /\ following \in Handlers \cup {None}
    /\ shared \in BOOLEAN
    /\ offset \in Nat /\ taken \in Nat /\ optionsOffset \in Nat
    /\ teller \in 0 .. Len(stack)

Resting ==
    /\ frame = <<>> /\ stack = <<>> /\ following = None /\ told = <<>>
    /\ offset = 0 /\ taken = 0 /\ optionsOffset = 0 /\ teller = 0

\* The next handler has its place on the stack, above all others.
Parsing ==
    /\ following \in Indexed /\ following \in Handlers
    /\ \E n \in 0 .. 8 :
          /\ Height(stack, n) /\ Follows(frame, llsFirst, stack, n, following, offset)
          /\ n > 0 => shared = (following \in DOMAIN CounterOf)
    /\ taken = 0 /\ optionsOffset = 0 /\ teller = 0 /\ told = <<>>

\* Where the loop of TcpHandler must stop, or would never.
Stops(h, kinds, n) ==
    \/ kinds[n] \notin DOMAIN OptionSize
    \/ OptionSize[kinds[n]] = 0
    \/ kinds[n] = "EOL"
    \/ OptionBytes(kinds, n) = h.size - 20

Reading ==
    /\ Height(stack, 5) /\ stack[5].name = "TCP" /\ frame[4].syn
    /\ optionsOffset = OptionBytes(OptionKinds, taken)
    /\ \A i \in 1 .. taken : ~Stops(frame[4], OptionKinds, i)
    /\ teller = 0 /\ told = <<>>

\* Who was told was told of all that it can walk to.
Telling ==
    told # <<>> =>
        \E t \in DOMAIN stack :
            /\ t > teller /\ stack[t].name \in Tellers /\ stack[t].set
            /\ told = <<[to |-> stack[t].name, package |-> Package(stack, t)]>>

Fallen == UnreadableLsu \/ UnknownOption \/ "IMAGE" \in Names(frame)

PipeInv ==
    /\ Typed
    /\ phase = "idle" => Resting
    /\ phase # "idle" => frame \in Traffic
    /\ Good(frame, llsFirst, stack)
    /\ Known(stack)
    /\ phase = "parse" => Parsing
    /\ phase = "options" => Reading
    /\ Telling
    /\ phase = "down" => Fallen

LEMMA TurnKeeps ==
    ASSUME PipeInv, phase = "parse", NEW n \in 1 .. 9, Turned(n), offset' \in Nat,
           UNCHANGED <<taken, optionsOffset>>
    PROVE  PipeInv'
<1>1. /\ routers' = routers /\ llsFirst' = llsFirst /\ frame' = frame /\ told' = told
      /\ Good(frame, llsFirst, stack') /\ Height(stack', n) /\ Known(stack')
      /\ shared' \in BOOLEAN /\ taken' = taken /\ optionsOffset' = optionsOffset
  BY DEF Turned, given
<1>2. /\ Typed /\ Parsing /\ frame \in Traffic
  BY DEF PipeInv
<1>3. told' = <<>> /\ teller = 0 /\ taken' = 0 /\ optionsOffset' = 0
  BY <1>1, <1>2 DEF Parsing
<1>4. Good(frame, llsFirst, stack)' /\ Known(stack)' /\ frame' \in Traffic /\ Telling'
  <2>1. Good(frame', llsFirst', stack')
    BY <1>1
  <2>2. \A k \in DOMAIN stack' : stack'[k].name \in Indexed'
    BY <1>1 DEF Known, Indexed
  <2> QED
    BY <1>1, <1>2, <1>3, <2>1, <2>2 DEF Telling, Good, Climbs, Lies, Counts, InPlace, Astray,
        Misread, BlockFirst, Known
<1>5. CASE phase' = "down" /\ UnreadableLsu /\ UNCHANGED <<following, teller>>
  <2>1. Typed'
    <3>1. teller' \in 0 .. Len(stack')
      BY <1>1, <1>3, <1>5 DEF Height
    <3> QED
      BY <1>1, <1>2, <1>5, <3>1 DEF Typed
  <2>2. Fallen'
    BY <1>1, <1>5 DEF Fallen, UnreadableLsu
  <2> QED
    BY <1>4, <1>5, <2>1, <2>2 DEF PipeInv
<1>6. CASE phase' = "tell" /\ following' = None /\ teller' = n
  <2>1. Typed'
    <3>1. teller' \in 0 .. Len(stack')
      BY <1>1, <1>6 DEF Height
    <3> QED
      BY <1>1, <1>2, <1>6, <3>1 DEF Typed
  <2> QED
    BY <1>4, <1>6, <2>1 DEF PipeInv
<1>7. CASE /\ phase' = "parse" /\ UNCHANGED teller
           /\ following' \in Indexed /\ following' \in Handlers
           /\ shared' = (following' \in DOMAIN CounterOf)
           /\ Follows(frame, llsFirst, stack', n, following', offset')
  <2>1. Typed'
    <3>1. teller' \in 0 .. Len(stack')
      BY <1>1, <1>3, <1>7 DEF Height
    <3> QED
      BY <1>1, <1>2, <1>7, <3>1 DEF Typed
  <2>2. Parsing'
    <3>1. n \in 0 .. 8
      <4>1. Good(frame, llsFirst, Pushed(stack', n, following', offset', TRUE))
              /\ Height(Pushed(stack', n, following', offset', TRUE), n + 1)
        BY <1>7 DEF Follows
      <4>2. n + 1 <= 9
        BY <4>1 DEF Good, Climbs, Height
      <4> QED
        BY <4>2
    <3>2. Indexed' = Indexed
      BY <1>1 DEF Indexed
    <3>3. Follows(frame, llsFirst, stack, n, following, offset)'
      BY <1>1, <1>7
    <3>4. Height(stack, n)'
      BY <1>1
    <3>5. following' \in Indexed' /\ shared' = (following' \in DOMAIN CounterOf)
      BY <1>7, <3>2
    <3> QED
      BY <1>3, <1>7, <3>1, <3>3, <3>4, <3>5 DEF Parsing
  <2> QED
    BY <1>4, <1>7, <2>1, <2>2 DEF PipeInv
<1> QED
  BY <1>5, <1>6, <1>7 DEF Turned

-----------------------------------------------------------------------------
(* The turns of the loop in Begin. *)

\* st is the stack with handler c put on it as the n-th.
Rises(st, n, c) ==
    /\ Good(frame, llsFirst, st) /\ Fresh(st) /\ Height(st, n) /\ Known(st)
    /\ st[n].name = c /\ st[n].at = offset
    /\ \A i \in 1 .. n - 1 : st[i] = stack[i]

LEMMA Attaches ==
    ASSUME PipeInv, NEW c, Turn(c)
    PROVE  /\ frame \in Traffic /\ phase = "parse" /\ c \in Handlers /\ offset \in Nat
           /\ \E n \in 1 .. 9 :
                 /\ c \in Levels[n] /\ Height(stack, n - 1)
                 /\ \A set \in BOOLEAN : set \/ c \in Unset => Rises(Attached(c, set), n, c)
<1>1. phase = "parse" /\ following = c
  BY DEF Turn
<1>2. /\ Typed /\ Parsing /\ frame \in Traffic /\ Known(stack) /\ Good(frame, llsFirst, stack)
      /\ Climbs(stack)
  BY <1>1 DEF PipeInv, Good
<1>3. c \in Handlers /\ c \in Indexed /\ offset \in Nat
  BY <1>1, <1>2 DEF Parsing, Typed
<1>4. PICK n \in 0 .. 8 : /\ Height(stack, n) /\ Follows(frame, llsFirst, stack, n, c, offset)
                          /\ n > 0 => shared = (c \in DOMAIN CounterOf)
  BY <1>1, <1>2 DEF Parsing
<1>5. Len(stack) = n
  BY <1>4 DEF Height
<1>6. ASSUME NEW set \in BOOLEAN, set \/ c \in Unset
      PROVE  Rises(Attached(c, set), n + 1, c) /\ c \in Levels[n + 1]
  <2> DEFINE s == Pushed(stack, n, c, offset, set)
  <2>1. Good(frame, llsFirst, s) /\ Fresh(s) /\ Height(s, n + 1)
    BY <1>4, <1>6 DEF Follows
  <2>2. /\ DOMAIN s = 1 .. n + 1 /\ \A i \in 1 .. n : s[i] = stack[i]
        /\ s[n + 1] = [name |-> c, at |-> offset, set |-> set,
                       parent |-> IF c \in DOMAIN CounterOf THEN n - 1 ELSE n,
                       index |-> Null, max |-> Null]
    BY <1>2, <1>4, PushedIs
  <2>3. s[n + 1].name = c /\ s[n + 1].at = offset
    <3> HIDE DEF s
    <3> QED
      BY <2>2
  <2>4. n + 1 \in DOMAIN s /\ n + 1 - 1 = n
    BY <2>2
  <2>5. c \in Levels[n + 1]
    <3>1. s[n + 1].name \in Levels[n + 1]
      BY <2>1, <2>4 DEF Good, Climbs
    <3> QED
      BY <2>3, <3>1
  <2>6. Known(s)
    <3> HIDE DEF s
    <3>1. ASSUME NEW k \in DOMAIN s PROVE s[k].name \in Indexed
      <4>1. CASE k = n + 1
        BY <1>3, <2>3, <4>1
      <4>2. CASE k # n + 1
        <5>1. k \in 1 .. n /\ k \in DOMAIN stack
          BY <1>2, <1>4, <2>2, <4>2, HeightIs
        <5> QED
          BY <1>2, <2>2, <5>1 DEF Known
      <4> QED
        BY <4>1, <4>2
    <3> QED
      BY <3>1 DEF Known
  <2>7. Attached(c, set) = s
    <3>1. n > 0 /\ c \in DOMAIN CounterOf => stack[n].parent = n - 1
      <4>1. ASSUME n > 0, c \in DOMAIN CounterOf PROVE stack[n].parent = n - 1
        <5>1. n + 1 \in {7, 9}
          <6>1. n + 1 \in 1 .. 9
            OBVIOUS
          <6> QED
            BY <2>5, <4>1, <6>1, LevelIs, Repeating
        <5>2. n \in DOMAIN stack /\ n # 7 /\ n # 9
          <6>1. DOMAIN stack = 1 .. n
            BY <1>2, <1>4, HeightIs
          <6> QED
            BY <4>1, <5>1, <6>1
        <5> QED
          BY <1>2, <5>2, ParentIs
      <4> QED
        BY <4>1
    <3>2. ~(n > 0) => c \notin DOMAIN CounterOf
      <4>1. ASSUME ~(n > 0) PROVE c \notin DOMAIN CounterOf
        <5>1. n = 0
          BY <4>1
        <5>2. c = "ROOT"
          BY <2>5, <5>1 DEF Levels
        <5> QED
          BY <5>2, Repeating
      <4> QED
        BY <4>1
    <3>3. (IF shared /\ Len(stack) > 0 THEN stack[Len(stack)].parent ELSE Len(stack))
             = (IF c \in DOMAIN CounterOf THEN n - 1 ELSE n)
      BY <1>4, <1>5, <3>1, <3>2
    <3> QED
      BY <3>3, Zenon DEF Attached, Pushed
  <2> HIDE DEF s
  <2>8. \A i \in 1 .. n + 1 - 1 : s[i] = stack[i]
    BY <2>2
  <2>9. Rises(s, n + 1, c)
    BY <2>1, <2>3, <2>6, <2>8 DEF Rises
  <2> QED
    BY <2>5, <2>7, <2>9, Zenon
<1>7. n + 1 \in 1 .. 9 /\ n + 1 - 1 = n
  OBVIOUS
<1>8. c \in Levels[n + 1]
  BY <1>6
<1> QED
  BY <1>1, <1>2, <1>3, <1>4, <1>6, <1>7, <1>8

LEMMA RisesTo ==
    ASSUME PipeInv, NEW n \in 1 .. 9, NEW c \in Levels[n], Turn(c)
    PROVE  /\ frame \in Traffic /\ phase = "parse" /\ c \in Handlers /\ offset \in Nat
           /\ Height(stack, n - 1)
           /\ \A set \in BOOLEAN : set \/ c \in Unset => Rises(Attached(c, set), n, c)
<1>1. /\ frame \in Traffic /\ phase = "parse" /\ c \in Handlers /\ offset \in Nat
      /\ \E m \in 1 .. 9 :
            /\ c \in Levels[m] /\ Height(stack, m - 1)
            /\ \A set \in BOOLEAN : set \/ c \in Unset => Rises(Attached(c, set), m, c)
  BY Attaches
<1>2. PICK m \in 1 .. 9 :
            /\ c \in Levels[m] /\ Height(stack, m - 1)
            /\ \A set \in BOOLEAN : set \/ c \in Unset => Rises(Attached(c, set), m, c)
  BY <1>1
<1>3. m = n
  BY <1>2, LevelsAreDisjoint
<1> QED
  BY <1>1, <1>2, <1>3

LEMMA AlignedAfter ==
    ASSUME frame \in Traffic, NEW n \in 2 .. 9, NEW st, st[n].at = offset, offset \in Nat,
           NEW bytes \in Nat,
           InPlace(frame, st, n) /\ st[n].name \in Sized => frame[n - 1].size = bytes
    PROVE  Aligned(frame, st, n, offset + bytes)
<1>1. ASSUME InPlace(frame, st, n), st[n].name \in Sized
      PROVE  offset + bytes = Place(frame, n)
  <2>1. n - 1 \in DOMAIN frame /\ offset = Place(frame, n - 1)
    BY <1>1 DEF InPlace
  <2>2. frame \in Seq(Range(frame))
    BY FrameIsSeq
  <2>3. Place(frame, n - 1 + 1) = Place(frame, n - 1) + frame[n - 1].size
    BY <2>1, <2>2, NextPlace
  <2>4. n - 1 + 1 = n
    OBVIOUS
  <2> QED
    BY <1>1, <2>1, <2>3, <2>4
<1>2. offset + bytes \in Nat /\ n # 1
  OBVIOUS
<1> QED
  BY <1>1, <1>2 DEF Aligned

\* The header of the n-th handler, where it cannot stray.
LEMMA ReadsItsOwn ==
    ASSUME frame \in Traffic, NEW n \in {2, 4, 5, 6}, NEW st, NEW c, Rises(st, n, c)
    PROVE  /\ InPlace(frame, st, n) /\ n - 1 \in DOMAIN frame
           /\ frame[n - 1].name = c /\ HeaderFor(c) = frame[n - 1]
<1>1. Climbs(st) /\ Lies(frame, llsFirst, st) /\ Height(st, n) /\ st[n].name = c
  BY DEF Rises, Good
<1>2. n <= Len(st) /\ n \in 2 .. 6 /\ n \in 2 .. 8 /\ n # 3
  BY <1>1 DEF Height
<1>3. InPlace(frame, st, n)
  BY <1>1, <1>2, Straight
<1>4. HeaderFor(st[n].name) = frame[n - 1] /\ n - 1 \in DOMAIN frame
  BY <1>1, <1>2, <1>3, HeaderOnStack
<1>5. frame[n - 1].name = st[n].name
  BY <1>3 DEF InPlace
<1> QED
  BY <1>1, <1>3, <1>4, <1>5

Turns ==
    /\ phase = "parse" /\ offset' \in Nat
    /\ \E n \in 1 .. 9 : Height(stack, n - 1) /\ Turned(n)

LEMMA ReadsOn ==
    ASSUME PipeInv, NEW n \in 2 .. 9, NEW c \in Levels[n],
           c \notin {"L2SELECTION", "OSPFDBD", "OSPFLSU", "OSPFLSACK", "OSPFLSA",
                     "OSPFLSAROUTE"},
           NEW bytes \in Nat, Reads(c, bytes),
           InPlace(frame, Attached(c, TRUE), n) /\ c \in Sized => frame[n - 1].size = bytes
    PROVE  Turns
<1> DEFINE st == Attached(c, TRUE)
<1>0. n \in 1 .. 9
  OBVIOUS
<1>1. Turn(c) /\ offset' = offset + bytes /\ GetNextHandler(st)
  BY Zenon DEF Reads, Scroll
<1>2. /\ frame \in Traffic /\ offset \in Nat /\ phase = "parse" /\ Height(stack, n - 1)
      /\ \A set \in BOOLEAN : set \/ c \in Unset => Rises(Attached(c, set), n, c)
  BY <1>0, <1>1, RisesTo
<1>3. Rises(st, n, c)
  BY <1>2
<1> HIDE DEF st
<1>4. Good(frame, llsFirst, st) /\ Height(st, n) /\ Known(st) /\ st[n].name = c /\ st[n].at = offset
  BY <1>3 DEF Rises
<1>5. Ready(st, n)
  <2>1. n # 2
    <3>1. n = 2 => c = "L2SELECTION"
      BY DEF Levels
    <3> QED
      BY <3>1
  <2> QED
    BY <1>4, <2>1 DEF Ready
<1>6. Aligned(frame, st, n, offset')
  <2>1. InPlace(frame, st, n) /\ st[n].name \in Sized => frame[n - 1].size = bytes
    BY <1>4 DEF st
  <2>2. Aligned(frame, st, n, offset + bytes)
    BY <1>2, <1>4, <2>1, AlignedAfter
  <2> QED
    BY <1>1, <2>2
<1>7. Turned(n)
  BY <1>0, <1>1, <1>2, <1>4, <1>5, <1>6, GoesOn
<1>8. offset' \in Nat
  BY <1>1, <1>2
<1> QED
  BY <1>0, <1>2, <1>7, <1>8 DEF Turns

LEMMA PlainReads ==
    ASSUME PipeInv, NEW n \in 2 .. 9, NEW c \in Levels[n],
           c \notin {"L2SELECTION", "IPV4", "OSPFHELLO", "OSPFDBD", "OSPFLSU", "OSPFLSACK",
                     "OSPFLSA", "OSPFLSAROUTE"},
           NEW bytes \in Nat, Reads(c, bytes),
           c \in DOMAIN HeaderSize => bytes = HeaderSize[c]
    PROVE  Turns
<1>1. ASSUME InPlace(frame, Attached(c, TRUE), n), c \in Sized
      PROVE  frame[n - 1].size = bytes
  <2>1. Turn(c) /\ n \in 1 .. 9
    BY DEF Reads
  <2>2. frame \in Traffic /\ Rises(Attached(c, TRUE), n, c)
    <3>1. frame \in Traffic /\ \A set \in BOOLEAN : set \/ c \in Unset => Rises(Attached(c, set), n, c)
      BY <2>1, RisesTo
    <3> QED
      BY <3>1
  <2>3. n - 1 \in DOMAIN frame /\ frame[n - 1].name = c
    BY <1>1, <2>2 DEF InPlace, Rises
  <2>4. HasItsLength(frame, n - 1)
    BY <2>2, <2>3, Lengths
  <2>5. c \in DOMAIN HeaderSize
    BY <1>1 DEF Sized
  <2> QED
    BY <2>3, <2>4, <2>5 DEF HasItsLength
<1> QED
  BY <1>1, ReadsOn

\* The handlers that read a header of a size of its own and store it.
Plain ==
    \/ ParseEthernetII \/ ParseIeee8023 \/ ParseStp \/ ParseCisco \/ ParseArp \/ ParseUdp
    \/ ParseIcmp \/ ParseLdp \/ ParseLdpMessage \/ ParseOspf \/ ParseLsr \/ ParseLsaNetwork
    \/ ParseLsaSummary \/ ParseLsaExternal \/ ParseLlsBlock

LEMMA PlainTurns == ASSUME PipeInv, Plain PROVE Turns
<1> DEFINE Others == {"L2SELECTION", "IPV4", "OSPFHELLO", "OSPFDBD", "OSPFLSU", "OSPFLSACK",
                      "OSPFLSA", "OSPFLSAROUTE"}
<1>1. ASSUME NEW n \in 2 .. 9, NEW c \in Levels[n] \ Others, NEW bytes \in Nat,
             Reads(c, bytes), c \in DOMAIN HeaderSize => bytes = HeaderSize[c]
      PROVE  Turns
  BY <1>1, PlainReads
<1> HIDE DEF Others
<1>2. CASE ParseEthernetII
  <2>1. "ETHERNETII" \in Levels[3] \ Others /\ 3 \in 2 .. 9
    BY DEF Levels, Others
  <2>2. 0 \in Nat
    OBVIOUS
  <2>3. "ETHERNETII" \in DOMAIN HeaderSize => 0 = HeaderSize["ETHERNETII"]
    BY DEF HeaderSize
  <2>4. Reads("ETHERNETII", 0)
    BY <1>2, Zenon DEF ParseEthernetII
  <2> QED
    BY <1>1, <2>1, <2>2, <2>3, <2>4
<1>3. CASE ParseIeee8023
  <2>1. "IEEE8023" \in Levels[3] \ Others /\ 3 \in 2 .. 9
    BY DEF Levels, Others
  <2>2. Bytes(Llc) \in Nat
    BY StructureSizes
  <2>3. "IEEE8023" \in DOMAIN HeaderSize => Bytes(Llc) = HeaderSize["IEEE8023"]
    BY DEF HeaderSize
  <2>4. Reads("IEEE8023", Bytes(Llc))
    BY <1>3, Zenon DEF ParseIeee8023, LoadHeader
  <2> QED
    BY <1>1, <2>1, <2>2, <2>3, <2>4
<1>4. CASE ParseStp
  <2>1. "STP" \in Levels[4] \ Others /\ 4 \in 2 .. 9
    BY DEF Levels, Others
  <2>2. Bytes(Bpdu) \in Nat
    BY StructureSizes
  <2>3. "STP" \in DOMAIN HeaderSize => Bytes(Bpdu) = HeaderSize["STP"]
    BY DEF HeaderSize
  <2>4. Reads("STP", Bytes(Bpdu))
    BY <1>4, Zenon DEF ParseStp, LoadHeader
  <2> QED
    BY <1>1, <2>1, <2>2, <2>3, <2>4
<1>5. CASE ParseCisco
  <2>1. "CISCO" \in Levels[4] \ Others /\ 4 \in 2 .. 9
    BY DEF Levels, Others
  <2>2. 0 \in Nat
    OBVIOUS
  <2>3. "CISCO" \in DOMAIN HeaderSize => 0 = HeaderSize["CISCO"]
    BY DEF HeaderSize
  <2>4. Reads("CISCO", 0)
    BY <1>5, Zenon DEF ParseCisco
  <2> QED
    BY <1>1, <2>1, <2>2, <2>3, <2>4
<1>6. CASE ParseArp
  <2>1. "ARP" \in Levels[4] \ Others /\ 4 \in 2 .. 9
    BY DEF Levels, Others
  <2>2. Bytes(ArpHeader) \in Nat
    BY StructureSizes
  <2>3. "ARP" \in DOMAIN HeaderSize => Bytes(ArpHeader) = HeaderSize["ARP"]
    BY DEF HeaderSize
  <2>4. Reads("ARP", Bytes(ArpHeader))
    BY <1>6, Zenon DEF ParseArp, LoadHeader
  <2> QED
    BY <1>1, <2>1, <2>2, <2>3, <2>4
<1>7. CASE ParseUdp
  <2>1. "UDP" \in Levels[5] \ Others /\ 5 \in 2 .. 9
    BY DEF Levels, Others
  <2>2. Bytes(UdpHeader) \in Nat
    BY StructureSizes
  <2>3. "UDP" \in DOMAIN HeaderSize => Bytes(UdpHeader) = HeaderSize["UDP"]
    BY DEF HeaderSize
  <2>4. Reads("UDP", Bytes(UdpHeader))
    BY <1>7, Zenon DEF ParseUdp, LoadHeader
  <2> QED
    BY <1>1, <2>1, <2>2, <2>3, <2>4
<1>8. CASE ParseIcmp
  <2>1. "ICMP" \in Levels[5] \ Others /\ 5 \in 2 .. 9
    BY DEF Levels, Others
  <2>2. Bytes(IcmpHeader) \in Nat
    BY StructureSizes
  <2>3. "ICMP" \in DOMAIN HeaderSize => Bytes(IcmpHeader) = HeaderSize["ICMP"]
    BY DEF HeaderSize
  <2>4. Reads("ICMP", Bytes(IcmpHeader))
    BY <1>8, Zenon DEF ParseIcmp, LoadHeader
  <2> QED
    BY <1>1, <2>1, <2>2, <2>3, <2>4
<1>9. CASE ParseLdp
  <2>1. "LDP" \in Levels[6] \ Others /\ 6 \in 2 .. 9
    BY DEF Levels, Others
  <2>2. Bytes(LdpHeader) \in Nat
    BY StructureSizes
  <2>3. "LDP" \in DOMAIN HeaderSize => Bytes(LdpHeader) = HeaderSize["LDP"]
    BY DEF HeaderSize
  <2>4. Reads("LDP", Bytes(LdpHeader))
    BY <1>9, Zenon DEF ParseLdp, LoadHeader
  <2> QED
    BY <1>1, <2>1, <2>2, <2>3, <2>4
<1>10. CASE ParseLdpMessage
  <2>1. "LDPMESSAGE" \in Levels[7] \ Others /\ 7 \in 2 .. 9
    BY DEF Levels, Others
  <2>2. Bytes(LdpMessage) \in Nat
    BY StructureSizes
  <2>3. "LDPMESSAGE" \in DOMAIN HeaderSize => Bytes(LdpMessage) = HeaderSize["LDPMESSAGE"]
    BY DEF HeaderSize
  <2>4. Reads("LDPMESSAGE", Bytes(LdpMessage))
    BY <1>10, Zenon DEF ParseLdpMessage, LoadHeader
  <2> QED
    BY <1>1, <2>1, <2>2, <2>3, <2>4
<1>11. CASE ParseOspf
  <2>1. "OSPF" \in Levels[5] \ Others /\ 5 \in 2 .. 9
    BY DEF Levels, Others
  <2>2. Bytes(OspfHeader) \in Nat
    BY StructureSizes
  <2>3. "OSPF" \in DOMAIN HeaderSize => Bytes(OspfHeader) = HeaderSize["OSPF"]
    BY DEF HeaderSize
  <2>4. Reads("OSPF", Bytes(OspfHeader))
    BY <1>11, Zenon DEF ParseOspf, LoadHeader
  <2> QED
    BY <1>1, <2>1, <2>2, <2>3, <2>4
<1>12. CASE ParseLsr
  <2>1. "OSPFLSR" \in Levels[6] \ Others /\ 6 \in 2 .. 9
    BY DEF Levels, Others
  <2>2. Bytes(OspfLsrHeader) \in Nat
    BY StructureSizes
  <2>3. "OSPFLSR" \in DOMAIN HeaderSize => Bytes(OspfLsrHeader) = HeaderSize["OSPFLSR"]
    BY DEF HeaderSize
  <2>4. Reads("OSPFLSR", Bytes(OspfLsrHeader))
    BY <1>12, Zenon DEF ParseLsr, LoadHeader
  <2> QED
    BY <1>1, <2>1, <2>2, <2>3, <2>4
<1>13. CASE ParseLsaNetwork
  <2>1. "OSPFLSANETWORK" \in Levels[8] \ Others /\ 8 \in 2 .. 9
    BY DEF Levels, Others
  <2>2. Bytes(OspfLsaNetworkHeader) \in Nat
    BY StructureSizes
  <2>3. "OSPFLSANETWORK" \in DOMAIN HeaderSize => Bytes(OspfLsaNetworkHeader) = HeaderSize["OSPFLSANETWORK"]
    BY DEF HeaderSize
  <2>4. Reads("OSPFLSANETWORK", Bytes(OspfLsaNetworkHeader))
    BY <1>13, Zenon DEF ParseLsaNetwork, LoadHeader
  <2> QED
    BY <1>1, <2>1, <2>2, <2>3, <2>4
<1>14. CASE ParseLsaSummary
  <2>1. "OSPFLSASUMMARY" \in Levels[8] \ Others /\ 8 \in 2 .. 9
    BY DEF Levels, Others
  <2>2. Bytes(OspfLsaSummaryHeader) \in Nat
    BY StructureSizes
  <2>3. "OSPFLSASUMMARY" \in DOMAIN HeaderSize => Bytes(OspfLsaSummaryHeader) = HeaderSize["OSPFLSASUMMARY"]
    BY DEF HeaderSize
  <2>4. Reads("OSPFLSASUMMARY", Bytes(OspfLsaSummaryHeader))
    BY <1>14, Zenon DEF ParseLsaSummary, LoadHeader
  <2> QED
    BY <1>1, <2>1, <2>2, <2>3, <2>4
<1>15. CASE ParseLsaExternal
  <2>1. "OSPFLSAEXTERNAL" \in Levels[8] \ Others /\ 8 \in 2 .. 9
    BY DEF Levels, Others
  <2>2. Bytes(OspfLsaExternalHeader) \in Nat
    BY StructureSizes
  <2>3. "OSPFLSAEXTERNAL" \in DOMAIN HeaderSize => Bytes(OspfLsaExternalHeader) = HeaderSize["OSPFLSAEXTERNAL"]
    BY DEF HeaderSize
  <2>4. Reads("OSPFLSAEXTERNAL", Bytes(OspfLsaExternalHeader))
    BY <1>15, Zenon DEF ParseLsaExternal, LoadHeader
  <2> QED
    BY <1>1, <2>1, <2>2, <2>3, <2>4
<1>16. CASE ParseLlsBlock
  <2>1. "OSPFLLSDATABLOCK" \in Levels[7] \ Others /\ 7 \in 2 .. 9
    BY DEF Levels, Others
  <2>2. Bytes(OspfLlsDataBlockHeader) \in Nat
    BY StructureSizes
  <2>3. "OSPFLLSDATABLOCK" \in DOMAIN HeaderSize => Bytes(OspfLlsDataBlockHeader) = HeaderSize["OSPFLLSDATABLOCK"]
    BY DEF HeaderSize
  <2>4. Reads("OSPFLLSDATABLOCK", Bytes(OspfLlsDataBlockHeader))
    BY <1>16, Zenon DEF ParseLlsBlock, LoadHeader
  <2> QED
    BY <1>1, <2>1, <2>2, <2>3, <2>4
<1> QED
  BY <1>2, <1>3, <1>4, <1>5, <1>6, <1>7, <1>8, <1>9, <1>10, <1>11, <1>12, <1>13, <1>14, <1>15, <1>16 DEF Plain

\* A handler that returns null.
LEMMA EndTurns ==
    ASSUME PipeInv, NEW n \in 1 .. 9, NEW c \in Levels[n], Turn(c),
           NEW set \in BOOLEAN, set \/ c \in Unset, Ends(Attached(c, set)),
           shared' \in BOOLEAN, offset' \in Nat
    PROVE  Turns
<1> DEFINE st == Attached(c, set)
<1>1. /\ phase = "parse" /\ Height(stack, n - 1)
      /\ \A x \in BOOLEAN : x \/ c \in Unset => Rises(Attached(c, x), n, c)
  BY RisesTo
<1>2. Rises(st, n, c) /\ Ends(st)
  BY <1>1
<1> HIDE DEF st
<1>3. Turned(n)
  BY <1>2 DEF Turned, Ends, Rises, Height
<1> QED
  BY <1>1, <1>3 DEF Turns

LEMMA TlvSizes ==
    ASSUME frame \in Traffic, NEW name, NEW n,
           n \in IF \E k \in DOMAIN frame : frame[k].name = name /\ Place(frame, k) = offset
                 THEN {HeaderFor(name).size} ELSE {4, 8}
    PROVE  n \in Nat
<1>1. CASE \E k \in DOMAIN frame : frame[k].name = name /\ Place(frame, k) = offset
  <2>1. PICK k \in DOMAIN frame : frame[k].name = name
    BY <1>1
  <2>2. PICK j \in DOMAIN frame : HeaderFor(frame[k].name) = frame[j]
    BY HeaderSomewhere
  <2>3. frame[j].size \in Nat
    BY Lengths
  <2> QED
    BY <1>1, <2>1, <2>2, <2>3
<1>2. CASE ~(\E k \in DOMAIN frame : frame[k].name = name /\ Place(frame, k) = offset)
  BY <1>2
<1> QED
  BY <1>1, <1>2

Ending == ParseIcmpEcho \/ ParseImage \/ ParseLsack \/ ParseLlsTlv \/ ParseLdpTlv

LEMMA EndingTurns ==
    ASSUME PipeInv, Ending PROVE Turns
<1>1. phase = "parse" => offset \in Nat /\ frame \in Traffic
  BY DEF PipeInv, Typed
<1>2. CASE ParseIcmpEcho
  <2>1. Turn("ICMPECHO") /\ Ends(Attached("ICMPECHO", TRUE))
    BY <1>2, Zenon DEF ParseIcmpEcho
  <2>2. "ICMPECHO" \in Levels[6]
    BY DEF Levels
  <2>3. offset' \in Nat /\ shared' \in BOOLEAN
    <3>1. Bytes(IcmpEchoHeader) \in Nat
      BY StructureSizes
    <3>2. offset \in Nat
      BY <1>1, <2>1 DEF Turn
    <3>3. offset' = offset + Bytes(IcmpEchoHeader) /\ shared' = FALSE
      BY <1>2, Zenon DEF ParseIcmpEcho, Scroll
    <3>4. \A a, b \in Nat : a + b \in Nat
      OBVIOUS
    <3>5. offset' \in Nat
      BY <3>1, <3>2, <3>3, <3>4, Zenon
    <3> QED
      BY <3>3, <3>5
  <2>4. 6 \in 1 .. 9
    OBVIOUS
  <2> QED
    BY <2>1, <2>2, <2>3, <2>4, EndTurns
<1>3. CASE ParseImage
  <2>1. Turn("IMAGE") /\ offset' = offset /\ shared' = FALSE /\ Ends(Attached("IMAGE", FALSE))
    BY <1>3, Zenon DEF ParseImage
  <2>2. "IMAGE" \in Levels[6] /\ 6 \in 1 .. 9 /\ "IMAGE" \in Unset
    BY DEF Levels, Unset
  <2>3. offset' \in Nat /\ shared' \in BOOLEAN
    BY <1>1, <2>1 DEF Turn
  <2> QED
    BY <2>1, <2>2, <2>3, EndTurns
<1>4. CASE ParseLsack
  <2>1. /\ Turn("OSPFLSACK") /\ offset' = offset /\ shared' = FALSE
        /\ Ends(Attached("OSPFLSACK", FALSE))
    BY <1>4, Zenon DEF ParseLsack
  <2>2. "OSPFLSACK" \in Levels[6] /\ 6 \in 1 .. 9 /\ "OSPFLSACK" \in Unset
    BY DEF Levels, Unset
  <2>3. offset' \in Nat /\ shared' \in BOOLEAN
    BY <1>1, <2>1 DEF Turn
  <2> QED
    BY <2>1, <2>2, <2>3, EndTurns
<1>5. ASSUME NEW name \in Levels[8], ParseTlv(name) PROVE Turns
  <2>1. /\ Turn(name) /\ shared' = TRUE /\ Ends(Attached(name, TRUE))
        /\ \E n \in IF \E k \in DOMAIN frame : frame[k].name = name /\ Place(frame, k) = offset
                    THEN {HeaderFor(name).size} ELSE {4, 8} :
                offset' = offset + n
    BY <1>5, Zenon DEF ParseTlv, Scroll
  <2>2. frame \in Traffic /\ offset \in Nat
    BY <1>1, <2>1 DEF Turn
  <2>3. \E n \in Nat : offset' = offset + n
    BY <2>1, <2>2, TlvSizes
  <2>4. offset' \in Nat /\ shared' \in BOOLEAN /\ 8 \in 1 .. 9
    BY <2>1, <2>2, <2>3
  <2> QED
    BY <1>5, <2>1, <2>4, EndTurns
<1>6. CASE ParseLlsTlv
  <2>1. "OSPFLLSDATABLOCKTLV" \in Levels[8]
    BY DEF Levels
  <2> QED
    BY <1>5, <1>6, <2>1 DEF ParseLlsTlv
<1>7. CASE ParseLdpTlv
  <2>1. "LDPMESSAGETLV" \in Levels[8]
    BY DEF Levels
  <2> QED
    BY <1>5, <1>7, <2>1 DEF ParseLdpTlv
<1> QED
  BY <1>2, <1>3, <1>4, <1>6, <1>7 DEF Ending

\* The handlers of which the size depends on a field.
LEMMA UnderOspf ==
    ASSUME frame \in Traffic, NEW st, NEW c, Rises(st, 6, c),
           c \in {"OSPFHELLO", "OSPFDBD", "OSPFLSU"}
    PROVE  /\ st[5].name = "OSPF" /\ HeaderFor("OSPF") = frame[4]
           /\ 5 \in DOMAIN frame /\ frame[5].name = c /\ HeaderFor(c) = frame[5]
<1>1. /\ Climbs(st) /\ Lies(frame, llsFirst, st) /\ Height(st, 6) /\ st[6].name = c
  BY DEF Rises, Good
<1>2. 5 \in DOMAIN st /\ 6 \in DOMAIN st /\ 5 <= Len(st)
  BY <1>1, HeightIs
<1>3. st[5].name = "OSPF"
  <2>1. 6 > 1 => st[6 - 1].name \in Parents[st[6].name]
    BY <1>1, <1>2, StackIs
  <2>2. st[5].name \in Parents[c] /\ c \in Handlers
    BY <1>1, <2>1, HandlersAre
  <2> QED
    BY <2>2, Followers
<1>4. HeaderFor("OSPF") = frame[4]
  <2>1. InPlace(frame, st, 5)
    <3>1. 5 \in 2 .. 6 /\ 5 # 3
      OBVIOUS
    <3> QED
      BY <1>1, <1>2, <3>1, Straight
  <2>2. HeaderFor(st[5].name) = frame[5 - 1]
    <3>1. 5 \in 2 .. 8
      OBVIOUS
    <3> QED
      BY <1>1, <1>2, <2>1, <3>1, HeaderOnStack
  <2> QED
    BY <1>3, <2>2
<1>5. /\ 6 - 1 \in DOMAIN frame
      /\ frame[6 - 1].name = c /\ HeaderFor(c) = frame[6 - 1]
  <2>1. 6 \in {2, 4, 5, 6}
    OBVIOUS
  <2> QED
    BY <2>1, ReadsItsOwn
<1> QED
  BY <1>3, <1>4, <1>5

LEMMA IPv4Turns == ASSUME PipeInv, ParseIPv4 PROVE Turns
<1> DEFINE bytes == Bytes(IPHeader) + (4 * HeaderFor("IPV4").words - 20)
           st == Attached("IPV4", TRUE)
<1>1. Reads("IPV4", bytes) /\ Turn("IPV4")
  BY Zenon DEF ParseIPv4, Reads
<1>2. "IPV4" \in Levels[4] /\ 4 \in 1 .. 9 /\ 4 \in 2 .. 9 /\ 4 \in {2, 4, 5, 6}
  BY DEF Levels
<1>3. frame \in Traffic /\ Rises(st, 4, "IPV4")
  <2>1. frame \in Traffic /\ \A x \in BOOLEAN : x \/ "IPV4" \in Unset => Rises(Attached("IPV4", x), 4, "IPV4")
    BY <1>1, <1>2, RisesTo
  <2> QED
    BY <2>1
<1>4. 4 - 1 \in DOMAIN frame /\ frame[4 - 1].name = "IPV4" /\ HeaderFor("IPV4") = frame[4 - 1]
  <2> HIDE DEF st
  <2> QED
    BY <1>2, <1>3, ReadsItsOwn
<1>5. frame[3].size = bytes /\ bytes \in Nat
  <2>1. HasItsLength(frame, 3) /\ frame[3].size \in Nat
    BY <1>3, <1>4, Lengths
  <2>2. frame[3].size = Bytes(IPHeader) + (4 * frame[3].words - 20)
    BY <1>4, <2>1 DEF HasItsLength
  <2>3. frame[3].size = bytes
    BY <1>4, <2>2
  <2> QED
    BY <2>1, <2>3
<1> HIDE DEF bytes, st
<1>6. "IPV4" \notin {"L2SELECTION", "OSPFDBD", "OSPFLSU", "OSPFLSACK", "OSPFLSA", "OSPFLSAROUTE"}
  OBVIOUS
<1>7. frame[4 - 1].size = bytes
  BY <1>5
<1> QED
  BY <1>1, <1>2, <1>5, <1>6, <1>7, ReadsOn

LEMMA HelloTurns == ASSUME PipeInv, ParseHello PROVE Turns
<1> DEFINE rest == HeaderFor("OSPF").length - Bytes(OspfHeader) - Bytes(OspfHelloHeader)
           bytes == Bytes(OspfHelloHeader) + IPAddress * (rest \div 4)
           st == Attached("OSPFHELLO", TRUE)
<1>1. Reads("OSPFHELLO", bytes) /\ Turn("OSPFHELLO")
  BY Zenon DEF ParseHello, Reads
<1>2. "OSPFHELLO" \in Levels[6] /\ 6 \in 1 .. 9 /\ 6 \in 2 .. 9
  BY DEF Levels
<1>3. frame \in Traffic /\ Rises(st, 6, "OSPFHELLO")
  <2>1. /\ frame \in Traffic
        /\ \A x \in BOOLEAN : x \/ "OSPFHELLO" \in Unset => Rises(Attached("OSPFHELLO", x), 6, "OSPFHELLO")
    BY <1>1, <1>2, RisesTo
  <2> QED
    BY <2>1
<1>4. HeaderFor("OSPF") = frame[4] /\ 5 \in DOMAIN frame /\ frame[5].name = "OSPFHELLO"
  <2> HIDE DEF st
  <2> QED
    BY <1>3, UnderOspf
<1>5. frame[5].size = bytes /\ bytes \in Nat
  <2>1. HasItsLength(frame, 5) /\ frame[5].size \in Nat
    BY <1>3, <1>4, Lengths
  <2>2. \E n \in 0 .. frame[5].size :
           /\ frame[5].size = Bytes(OspfHelloHeader) + IPAddress * n
           /\ frame[5 - 1].length = Bytes(OspfHeader) + frame[5].size
    BY <1>4, <2>1 DEF HasItsLength
  <2>3. PICK n \in Nat : /\ frame[5].size = Bytes(OspfHelloHeader) + 4 * n
                         /\ frame[4].length = Bytes(OspfHeader) + frame[5].size
    BY <2>1, <2>2 DEF IPAddress
  <2>4. Bytes(OspfHeader) \in Nat /\ Bytes(OspfHelloHeader) \in Nat
    BY StructureSizes
  <2>5. rest = 4 * n
    BY <1>4, <2>3, <2>4
  <2>6. rest \div 4 = n
    BY <2>5
  <2>7. frame[5].size = bytes
    BY <2>3, <2>6 DEF IPAddress
  <2> QED
    BY <2>1, <2>7
<1> HIDE DEF bytes, st
<1>6. "OSPFHELLO" \notin {"L2SELECTION", "OSPFDBD", "OSPFLSU", "OSPFLSACK", "OSPFLSA", "OSPFLSAROUTE"}
  OBVIOUS
<1>7. frame[6 - 1].size = bytes
  BY <1>5
<1> QED
  BY <1>1, <1>2, <1>5, <1>6, <1>7, ReadsOn

LEMMA RipTurns == ASSUME PipeInv, ParseRip PROVE Turns
<1> DEFINE bodySize == HeaderFor("UDP").length - Bytes(UdpHeader) - Bytes(RipPreambleHeader)
           bytes == Bytes(RipPreambleHeader)
                       + Bytes(RipDataHeader) * (bodySize \div Bytes(RipDataHeader))
           st == Attached("RIP", TRUE)
<1>1. Reads("RIP", bytes) /\ Turn("RIP")
  BY Zenon DEF ParseRip, Reads
<1>2. "RIP" \in Levels[6] /\ 6 \in 1 .. 9 /\ 6 \in 2 .. 9 /\ 6 \in {2, 4, 5, 6}
  BY DEF Levels
<1>3. frame \in Traffic /\ Rises(st, 6, "RIP")
  <2>1. frame \in Traffic /\ \A x \in BOOLEAN : x \/ "RIP" \in Unset => Rises(Attached("RIP", x), 6, "RIP")
    BY <1>1, <1>2, RisesTo
  <2> QED
    BY <2>1
<1> HIDE DEF st
<1>4. 6 - 1 \in DOMAIN frame /\ frame[6 - 1].name = "RIP"
  BY <1>2, <1>3, ReadsItsOwn
<1>5. HeaderFor("UDP") = frame[4] /\ frame[4].name = "UDP" /\ 4 \in DOMAIN frame
  <2>1. Climbs(st) /\ Lies(frame, llsFirst, st) /\ Height(st, 6) /\ st[6].name = "RIP"
    BY <1>3 DEF Rises, Good
  <2>2. 5 \in DOMAIN st /\ 6 \in DOMAIN st /\ 5 <= Len(st)
    BY <2>1, HeightIs
  <2>3. st[5].name = "UDP"
    <3>1. 6 > 1 => st[6 - 1].name \in Parents[st[6].name]
      BY <2>1, <2>2, StackIs
    <3>2. st[5].name \in Parents["RIP"] /\ "RIP" \in Handlers
      BY <2>1, <3>1, HandlersAre
    <3> QED
      BY <3>2, Followers
  <2>4. InPlace(frame, st, 5)
    <3>1. 5 \in 2 .. 6 /\ 5 # 3
      OBVIOUS
    <3> QED
      BY <2>1, <2>2, <3>1, Straight
  <2>5. HeaderFor(st[5].name) = frame[5 - 1] /\ 5 - 1 \in DOMAIN frame /\ frame[5 - 1].name = st[5].name
    <3>1. 5 \in 2 .. 8
      OBVIOUS
    <3> QED
      BY <1>3, <2>1, <2>2, <2>4, <3>1, HeaderOnStack
  <2> QED
    BY <2>3, <2>5
<1>6. bytes \in Nat
  <2>1. HasItsLength(frame, 5) /\ HasItsLength(frame, 4)
    BY <1>3, <1>4, <1>5, Lengths
  <2>2. frame[4].length \in Nat
    BY <1>5, <2>1 DEF HasItsLength
  <2>3. frame[5 - 1].length >= Bytes(UdpHeader) + Bytes(RipPreambleHeader)
    BY <1>4, <2>1 DEF HasItsLength
  <2>4. Bytes(UdpHeader) \in Nat /\ Bytes(RipPreambleHeader) \in Nat
    BY StructureSizes
  <2>5. Bytes(RipDataHeader) \in Nat \ {0}
    BY StructureSizes
  <2>6. bodySize \in Nat
    BY <1>5, <2>2, <2>3, <2>4
  <2>7. \A b \in Nat, d \in Nat \ {0}, p \in Nat : p + d * (b \div d) \in Nat
    <3>1. \A b \in Nat, d \in Nat \ {0} : b \div d \in Nat
      OBVIOUS
    <3>2. \A d \in Nat, q \in Nat : d * q \in Nat
      OBVIOUS
    <3> QED
      BY <3>1, <3>2
  <2> HIDE DEF bodySize
  <2> QED
    BY <2>4, <2>5, <2>6, <2>7
<1> HIDE DEF bytes
<1>7. "RIP" \notin {"L2SELECTION", "IPV4", "OSPFHELLO", "OSPFDBD", "OSPFLSU", "OSPFLSACK",
                    "OSPFLSA", "OSPFLSAROUTE"}
  OBVIOUS
<1>8. "RIP" \in DOMAIN HeaderSize => bytes = HeaderSize["RIP"]
  BY DEF HeaderSize
<1> QED
  BY <1>1, <1>2, <1>6, <1>7, <1>8, PlainReads

\* DeclareInteration, by a packet of LSAs or by the router LSA.
Declarer(st, n, c, owner, i) ==
    \/ n = 6 /\ i = 5 /\ owner = "OSPF" /\ st[5].name = "OSPF" /\ c \in {"OSPFDBD", "OSPFLSU"}
    \/ n = 8 /\ i = 8 /\ owner = c /\ c = "OSPFLSAROUTE" /\ UnreadableLsu

Declared(n) ==
    n \in DOMAIN frame /\ frame[n].name = IF n = 6 THEN "OSPFLSA" ELSE "OSPFLSAROUTELINK"

LEMMA Declares ==
    ASSUME NEW st, NEW n \in {6, 8}, NEW c, Rises(st, n, c), NEW owner, NEW i,
           Declarer(st, n, c, owner, i), NEW max \in Nat \ {0}, Declared(n),
           DeclareInteration(st, owner, max)
    PROVE  \E s : /\ GetNextHandler(s) /\ Good(frame, llsFirst, s) /\ SameShape(st, s, n)
                  /\ Height(s, n) /\ s[i].index = 0 /\ s[i].max = max
<1>1. Good(frame, llsFirst, st) /\ Climbs(st) /\ Height(st, n) /\ st[n].name = c
  BY DEF Rises, Good
<1>2. n \in 1 .. 9 /\ n \in Nat /\ i \in 1 .. n
  BY DEF Declarer
<1>3. Holder(st, Len(st), owner) = i
  <2>1. CASE n = 6
    BY <1>1, <2>1, HolderOf DEF Declarer
  <2>2. CASE n = 8
    BY <1>1, <2>2, HolderOf DEF Declarer
  <2> QED
    BY <2>1, <2>2
<1> DEFINE s == Recounted(st, i, 0, max)
<1>4. [st EXCEPT ![i].index = 0, ![i].max = max] = s
  <2>1. st \in Seq(Entries) /\ i \in DOMAIN st
    BY <1>1, <1>2, HeightIs DEF Climbs
  <2>2. [st EXCEPT ![i].index = 0, ![i].max = max]
           = [st EXCEPT ![i] = [[st[i] EXCEPT !.index = 0] EXCEPT !.max = max]]
    BY <2>1
  <2>3. [[st[i] EXCEPT !.index = 0] EXCEPT !.max = max] = [st[i] EXCEPT !.index = 0, !.max = max]
    OBVIOUS
  <2> QED
    BY <2>2, <2>3, Zenon DEF Recounted
<1>5. GetNextHandler(s)
  <2>1. IF max = 0 THEN Ends(st) /\ shared' = FALSE
        ELSE GetNextHandler([st EXCEPT ![i].index = 0, ![i].max = max])
    BY <1>3, Zenon DEF DeclareInteration
  <2>2. max # 0
    OBVIOUS
  <2> QED
    BY <1>4, <2>1, <2>2
<1> HIDE DEF s
<1>6. /\ SameShape(st, s, n) /\ s[i].index = 0 /\ s[i].max = max
      /\ \A j \in (1 .. n) \ {i} : s[j] = st[j]
  <2>1. 0 \in Nat \cup {Null} /\ max \in Nat \cup {Null}
    OBVIOUS
  <2>2. LET r == Recounted(st, i, 0, max)
        IN  /\ SameShape(st, r, n) /\ r[i].index = 0 /\ r[i].max = max
            /\ \A j \in (1 .. n) \ {i} : r[j] = st[j]
    BY <1>1, <1>2, <2>1, RecountedIs
  <2> QED
    BY <2>2, Zenon DEF s
<1>7. Good(frame, llsFirst, s)
  <2>1. s[i].index <= s[i].max
    BY <1>6
  <2>2. \/ i = 5 /\ n >= 6 /\ 6 \in DOMAIN frame /\ frame[6].name = "OSPFLSA"
        \/ i = 8 /\ 8 \in DOMAIN frame /\ frame[8].name = "OSPFLSAROUTELINK"
    BY DEF Declarer, Declared
  <2> QED
    BY <1>1, <1>2, <1>6, <2>1, <2>2, Recount
<1>8. Height(s, n)
  BY <1>6 DEF SameShape
<1> QED
  BY <1>5, <1>6, <1>7, <1>8

LEMMA DeclareTurns ==
    ASSUME PipeInv, frame \in Traffic, NEW st, NEW n \in {6, 8}, NEW c, Rises(st, n, c),
           NEW owner, NEW i, Declarer(st, n, c, owner, i),
           NEW max \in Nat, DeclareInteration(st, owner, max), max > 0 => Declared(n),
           Aligned(frame, st, n, offset')
    PROVE  Turned(n)
<1>1. /\ Good(frame, llsFirst, st) /\ Climbs(st) /\ Height(st, n) /\ Known(st) /\ st[n].name = c
  BY DEF Rises, Good
<1>2. n \in 1 .. 9 /\ n \in Nat /\ i \in 1 .. n /\ n \in 1 .. n
  BY DEF Declarer
<1>3. CASE max = 0
  <2>1. Ends(st) /\ shared' = FALSE
    BY <1>3, Zenon DEF DeclareInteration
  <2> QED
    BY <1>1, <2>1 DEF Turned, Ends, Height
<1>4. CASE max # 0
  <2>1. max \in Nat \ {0} /\ Declared(n)
    BY <1>4
  <2>2. PICK s : /\ GetNextHandler(s) /\ Good(frame, llsFirst, s) /\ SameShape(st, s, n)
                 /\ Height(s, n) /\ s[i].index = 0 /\ s[i].max = max
    BY <2>1, Declares
  <2>3. s[n].name = c /\ s[n].at = st[n].at /\ Climbs(s)
    BY <1>1, <1>2, <2>2 DEF SameShape, Good
  <2>4. Known(s)
    <3>1. DOMAIN st = 1 .. n /\ DOMAIN s = 1 .. n
      BY <1>1, <2>2, <2>3, HeightIs
    <3> QED
      BY <1>1, <2>2, <3>1 DEF Known, SameShape
  <2>5. Ready(s, n)
    <3>1. i = 5 => s[5].index = 0 /\ s[5].max > 0
      BY <2>1, <2>2
    <3> QED
      BY <2>3, <3>1 DEF Ready, Null, Declarer
  <2>6. Aligned(frame, s, n, offset')
    BY <1>1, <2>3 DEF Aligned, InPlace
  <2> QED
    BY <1>2, <2>2, <2>4, <2>5, <2>6, GoesOn
<1> QED
  BY <1>3, <1>4

\* The number of LSA headers that a DBD is said to have.
LEMMA CountNat ==
    ASSUME frame \in Traffic, NEW st, Rises(st, 6, "OSPFDBD")
    PROVE  LsaHeaderCount(HeaderFor("OSPF")) \in Nat
<1>1. /\ st[5].name = "OSPF" /\ HeaderFor("OSPF") = frame[4]
      /\ 5 \in DOMAIN frame /\ frame[5].name = "OSPFDBD"
  BY UnderOspf
<1>2. HasItsLength(frame, 5)
  BY <1>1, Lengths
<1>3. frame[4].length >= Bytes(OspfHeader) + Bytes(OspfDbdHeader)
  <2>1. frame[5 - 1].length >= Bytes(OspfHeader) + Bytes(OspfDbdHeader)
    BY <1>1, <1>2 DEF HasItsLength
  <2> QED
    BY <2>1
<1>4. frame[4].length \in Nat
  <2>1. Climbs(st) /\ Lies(frame, llsFirst, st) /\ Height(st, 6)
    BY DEF Rises, Good
  <2>2. InPlace(frame, st, 5)
    <3>1. 5 \in 2 .. 6 /\ 5 # 3 /\ 5 <= Len(st)
      BY <2>1 DEF Height
    <3> QED
      BY <2>1, <3>1, Straight
  <2>3. 4 \in DOMAIN frame /\ frame[4].name = "OSPF"
    <3>1. 5 - 1 \in DOMAIN frame /\ frame[5 - 1].name = st[5].name
      BY <2>2 DEF InPlace
    <3> QED
      BY <1>1, <3>1
  <2>4. HasItsLength(frame, 4)
    BY <2>3, Lengths
  <2> QED
    BY <2>3, <2>4 DEF HasItsLength
<1>5. \A l, a, b \in Nat, d \in Nat \ {0} : l >= a + b => (l - a - b) \div d \in Nat
  <2>1. \A b \in Nat, d \in Nat \ {0} : b \div d \in Nat
    OBVIOUS
  <2>2. \A l, a, b \in Nat : l >= a + b => l - a - b \in Nat
    OBVIOUS
  <2> QED
    BY <2>1, <2>2
<1>6. Bytes(OspfHeader) \in Nat /\ Bytes(OspfDbdHeader) \in Nat /\ Bytes(OspfLsaHeader) \in Nat \ {0}
  BY StructureSizes
<1> QED
  BY <1>1, <1>3, <1>4, <1>5, <1>6 DEF LsaHeaderCount

LEMMA DbdTurns == ASSUME PipeInv, ParseDbd PROVE Turns
<1> DEFINE st == Attached("OSPFDBD", TRUE)
           max == LsaHeaderCount(HeaderFor("OSPF"))
<1>1. /\ Turn("OSPFDBD") /\ offset' = offset + Bytes(OspfDbdHeader)
      /\ DeclareInteration(st, "OSPF", max)
  BY Zenon DEF ParseDbd, Scroll
<1>2. "OSPFDBD" \in Levels[6] /\ 6 \in 1 .. 9
  BY DEF Levels
<1>3. /\ frame \in Traffic /\ phase = "parse" /\ offset \in Nat
      /\ Height(stack, 6 - 1) /\ Rises(st, 6, "OSPFDBD")
  <2>1. /\ frame \in Traffic /\ phase = "parse" /\ offset \in Nat /\ Height(stack, 6 - 1)
        /\ \A x \in BOOLEAN : x \/ "OSPFDBD" \in Unset => Rises(Attached("OSPFDBD", x), 6, "OSPFDBD")
    BY <1>1, <1>2, RisesTo
  <2> QED
    BY <2>1
<1> HIDE DEF st
<1>4. /\ st[5].name = "OSPF" /\ HeaderFor("OSPF") = frame[4]
      /\ 5 \in DOMAIN frame /\ frame[5].name = "OSPFDBD"
  BY <1>3, UnderOspf
<1>5. HasItsLength(frame, 5) /\ frame[5].size \in Nat
  BY <1>3, <1>4, Lengths
<1>6. max \in Nat
  BY <1>3, CountNat
<1>7. ASSUME max > 0 PROVE 6 \in DOMAIN frame /\ frame[6].name = "OSPFLSA"
  <2>1. LsaHeaderCount(frame[5 - 1]) > 0
    BY <1>4, <1>7
  <2>2. Announces(frame, 5, "OSPFLSA")
    BY <1>4, <2>1 DEF Announces
  <2>3. 5 + 1 \in DOMAIN frame /\ frame[5 + 1].name = "OSPFLSA"
    BY <1>3, <1>4, <2>2, Announced, HandlersAre
  <2> QED
    BY <2>3
<1> HIDE DEF max
<1>8. Aligned(frame, st, 6, offset')
  <2>1. Bytes(OspfDbdHeader) \in Nat /\ HeaderSize["OSPFDBD"] = Bytes(OspfDbdHeader)
          /\ "OSPFDBD" \in DOMAIN HeaderSize
    BY StructureSizes DEF HeaderSize
  <2>2. frame[6 - 1].size = Bytes(OspfDbdHeader)
    BY <1>4, <1>5, <2>1 DEF HasItsLength
  <2>3. st[6].at = offset /\ 6 \in 2 .. 9
    BY <1>3 DEF Rises
  <2>4. Aligned(frame, st, 6, offset + Bytes(OspfDbdHeader))
    BY <1>3, <2>1, <2>2, <2>3, AlignedAfter
  <2> QED
    BY <1>1, <2>4
<1>9. Turned(6)
  <2>1. max > 0 => Declared(6)
    BY <1>7 DEF Declared
  <2>2. 6 \in {6, 8} /\ Declarer(st, 6, "OSPFDBD", "OSPF", 5)
    BY <1>4 DEF Declarer
  <2> QED
    BY <1>1, <1>3, <1>6, <1>8, <2>1, <2>2, DeclareTurns
<1>10. offset' \in Nat
  BY <1>8 DEF Aligned
<1> QED
  BY <1>2, <1>3, <1>9, <1>10 DEF Turns

LEMMA LsuTurns == ASSUME PipeInv, ParseLsu PROVE Turns
<1> DEFINE st == Attached("OSPFLSU", TRUE)
           count == HeaderFor("OSPFLSU").count
<1>1. /\ Turn("OSPFLSU") /\ offset' = offset + Bytes(OspfLsuHeader)
      /\ IF count > 0 THEN DeclareInteration(st, "OSPF", count) ELSE GetNextHandler(st)
  BY Zenon DEF ParseLsu, Scroll
<1>2. "OSPFLSU" \in Levels[6] /\ 6 \in 1 .. 9
  BY DEF Levels
<1>3. /\ frame \in Traffic /\ phase = "parse" /\ offset \in Nat
      /\ Height(stack, 6 - 1) /\ Rises(st, 6, "OSPFLSU")
  <2>1. /\ frame \in Traffic /\ phase = "parse" /\ offset \in Nat /\ Height(stack, 6 - 1)
        /\ \A x \in BOOLEAN : x \/ "OSPFLSU" \in Unset => Rises(Attached("OSPFLSU", x), 6, "OSPFLSU")
    BY <1>1, <1>2, RisesTo
  <2> QED
    BY <2>1
<1> HIDE DEF st
<1>4. /\ st[5].name = "OSPF" /\ HeaderFor("OSPFLSU") = frame[5]
      /\ 5 \in DOMAIN frame /\ frame[5].name = "OSPFLSU"
  BY <1>3, UnderOspf
<1>5. HasItsLength(frame, 5) /\ frame[5].size \in Nat
  BY <1>3, <1>4, Lengths
<1>6. count \in Nat
  BY <1>4, <1>5 DEF HasItsLength
<1>7. ASSUME count > 0 PROVE 6 \in DOMAIN frame /\ frame[6].name = "OSPFLSA"
  <2>1. Announces(frame, 5, "OSPFLSA")
    BY <1>4, <1>7 DEF Announces
  <2>2. 5 + 1 \in DOMAIN frame /\ frame[5 + 1].name = "OSPFLSA"
    BY <1>3, <1>4, <2>1, Announced, HandlersAre
  <2> QED
    BY <2>2
<1>8. Aligned(frame, st, 6, offset')
  <2>1. Bytes(OspfLsuHeader) \in Nat /\ HeaderSize["OSPFLSU"] = Bytes(OspfLsuHeader)
          /\ "OSPFLSU" \in DOMAIN HeaderSize
    BY StructureSizes DEF HeaderSize
  <2>2. frame[6 - 1].size = Bytes(OspfLsuHeader)
    BY <1>4, <1>5, <2>1 DEF HasItsLength
  <2>3. st[6].at = offset /\ 6 \in 2 .. 9
    BY <1>3 DEF Rises
  <2>4. Aligned(frame, st, 6, offset + Bytes(OspfLsuHeader))
    BY <1>3, <2>1, <2>2, <2>3, AlignedAfter
  <2> QED
    BY <1>1, <2>4
<1>9. CASE count > 0
  <2>1. Declared(6)
    BY <1>7, <1>9 DEF Declared
  <2>2. 6 \in {6, 8} /\ Declarer(st, 6, "OSPFLSU", "OSPF", 5)
    BY <1>4 DEF Declarer
  <2>3. DeclareInteration(st, "OSPF", count)
    BY <1>1, <1>9
  <2>4. Turned(6)
    <3> HIDE DEF count
    <3> QED
      BY <1>3, <1>4, <1>6, <1>8, <2>1, <2>2, <2>3, DeclareTurns
  <2> QED
    BY <1>2, <1>3, <1>8, <2>4 DEF Turns, Aligned
<1>10. CASE ~(count > 0)
  <2>1. UnreadableLsu
    BY <1>4, <1>10 DEF UnreadableLsu
  <2>2. Good(frame, llsFirst, st) /\ Height(st, 6) /\ Known(st) /\ st[6].name = "OSPFLSU"
    BY <1>3 DEF Rises
  <2>3. Ready(st, 6)
    BY <2>1, <2>2 DEF Ready
  <2>4. GetNextHandler(st)
    BY <1>1, <1>10
  <2>5. Turned(6)
    BY <1>2, <1>3, <1>8, <2>2, <2>3, <2>4, GoesOn
  <2> QED
    BY <1>2, <1>3, <1>8, <2>5 DEF Turns, Aligned
<1> QED
  BY <1>9, <1>10

\* A router LSA is only read where an LSU starts with it.
LEMMA RouteUnreadable ==
    ASSUME frame \in Traffic, NEW st, Good(frame, llsFirst, st), NEW n \in {8, 9},
           Height(st, n), st[8].name = "OSPFLSAROUTE"
    PROVE  /\ UnreadableLsu /\ InPlace(frame, st, 8)
           /\ 7 \in DOMAIN frame /\ frame[7].name = "OSPFLSAROUTE"
           /\ HeaderFor("OSPFLSAROUTE") = frame[7]
<1>1. Climbs(st) /\ Lies(frame, llsFirst, st)
  BY DEF Good
<1>2. /\ 6 \in DOMAIN st /\ 7 \in DOMAIN st /\ 8 \in DOMAIN st /\ 6 <= Len(st) /\ 8 <= Len(st)
      /\ Len(st) >= 8 /\ 8 \in 2 .. Len(st)
  <2>1. DOMAIN st = 1 .. n /\ Len(st) = n
    BY <1>1, HeightIs DEF Height
  <2> QED
    BY <2>1
<1>3. st[7].name = "OSPFLSA"
  <2>1. 8 > 1 => st[8 - 1].name \in Parents[st[8].name]
    BY <1>1, <1>2, StackIs
  <2>2. st[7].name \in Parents["OSPFLSAROUTE"] /\ "OSPFLSAROUTE" \in Handlers
    BY <2>1, HandlersAre
  <2> QED
    BY <2>2, Followers
<1>4. st[6].name \in {"OSPFDBD", "OSPFLSU"}
  <2>1. (7 > 1 => st[7 - 1].name \in Parents[st[7].name]) /\ (7 > 1 => st[7 - 1].name # "OSPFLSACK")
    BY <1>1, <1>2, StackIs
  <2>2. st[6].name \in Parents["OSPFLSA"] /\ st[6].name # "OSPFLSACK" /\ "OSPFLSA" \in Handlers
    BY <1>3, <2>1, HandlersAre
  <2> QED
    BY <2>2, Followers
<1>5. PICK k \in DOMAIN frame : frame[k].name = "OSPFLSU"
  <2>1. "OSPFLSU" \in Names(frame)
    BY <1>1, <1>2, <1>3 DEF Lies
  <2> QED
    BY <2>1 DEF Names
<1>6. 5 \in DOMAIN frame /\ frame[5].name = st[6].name
  <2>1. 6 \in 2 .. 6 /\ 6 # 3
    OBVIOUS
  <2>2. InPlace(frame, st, 6)
    BY <1>1, <1>2, <2>1, Straight
  <2>3. 6 - 1 \in DOMAIN frame /\ frame[6 - 1].name = st[6].name
    BY <2>2 DEF InPlace
  <2> QED
    BY <2>3
<1>7. k = 5
  <2>1. {frame[5].name, frame[k].name} \subseteq DOMAIN PacketType
    BY <1>4, <1>5, <1>6, Fields
  <2>2. WellFormed(frame)
    BY TrafficAssumption
  <2> QED
    BY <1>5, <1>6, <2>1, <2>2, Zenon DEF WellFormed
<1>8. InPlace(frame, st, 8)
  <2>1. ~Astray(frame, llsFirst, st, 8)
    BY DEF Astray
  <2> QED
    BY <1>1, <1>2, <2>1 DEF Lies
<1>9. 7 \in DOMAIN frame /\ frame[7].name = "OSPFLSAROUTE" /\ HeaderFor("OSPFLSAROUTE") = frame[7]
  <2>1. 8 \in 2 .. 8
    OBVIOUS
  <2>2. HeaderFor(st[8].name) = frame[8 - 1] /\ 8 - 1 \in DOMAIN frame /\ frame[8 - 1].name = st[8].name
    BY <1>1, <1>2, <1>8, <2>1, HeaderOnStack
  <2> QED
    BY <2>2
<1>10. UnreadableLsu
  <2>1. frame[5].name = "OSPFLSU" /\ frame[5 + 2].name = "OSPFLSAROUTE"
    BY <1>5, <1>7, <1>9
  <2> QED
    BY <1>6, <2>1 DEF UnreadableLsu
<1> QED
  BY <1>8, <1>9, <1>10

LEMMA LsaTurns == ASSUME PipeInv, ParseLsa PROVE Turns
<1>1. Turn("OSPFLSA") /\ offset' = offset + Bytes(OspfLsaHeader)
  BY Zenon DEF ParseLsa, Scroll
<1>2. "OSPFLSA" \in Levels[7] /\ 7 \in 1 .. 9 /\ "OSPFLSA" \in Unset
  BY DEF Levels, Unset
<1>3. /\ frame \in Traffic /\ phase = "parse" /\ offset \in Nat /\ Height(stack, 7 - 1)
      /\ \A x \in BOOLEAN : x \/ "OSPFLSA" \in Unset => Rises(Attached("OSPFLSA", x), 7, "OSPFLSA")
  BY <1>1, <1>2, RisesTo
<1>4. Bytes(OspfLsaHeader) \in Nat
  BY StructureSizes
<1>5. offset' \in Nat
  <2>1. \A a, b \in Nat : a + b \in Nat
    OBVIOUS
  <2> QED
    BY <1>1, <1>3, <1>4, <2>1, Zenon
<1>6. CASE \E k \in DOMAIN stack : stack[k].name = "OSPFDBD"
  <2>1. shared' = FALSE /\ Ends(Attached("OSPFLSA", FALSE))
    BY <1>6, Zenon DEF ParseLsa
  <2>2. shared' \in BOOLEAN /\ FALSE \in BOOLEAN
    BY <2>1
  <2> QED
    BY <1>1, <1>2, <1>5, <2>1, <2>2, EndTurns
<1>7. CASE ~(\E k \in DOMAIN stack : stack[k].name = "OSPFDBD")
  <2> DEFINE st == Attached("OSPFLSA", TRUE)
  <2>1. GetNextHandler(st)
    BY <1>7, Zenon DEF ParseLsa
  <2>2. Rises(st, 7, "OSPFLSA")
    BY <1>3
  <2> HIDE DEF st
  <2>3. /\ Good(frame, llsFirst, st) /\ Height(st, 7) /\ Known(st) /\ st[7].name = "OSPFLSA"
        /\ st[7].at = offset /\ Climbs(st) /\ Lies(frame, llsFirst, st)
        /\ \A i \in 1 .. 7 - 1 : st[i] = stack[i]
    BY <2>2 DEF Rises, Good
  <2>4. "OSPFLSU" \in Names(frame)
    <3>1. 6 \in DOMAIN st /\ 7 \in DOMAIN st /\ 6 <= Len(st)
      BY <2>3, HeightIs
    <3>2. (7 > 1 => st[7 - 1].name \in Parents[st[7].name]) /\ (7 > 1 => st[7 - 1].name # "OSPFLSACK")
      BY <2>3, <3>1, StackIs
    <3>3. st[6].name \in Parents["OSPFLSA"] /\ st[6].name # "OSPFLSACK" /\ "OSPFLSA" \in Handlers
      BY <2>3, <3>2, HandlersAre
    <3>4. st[6].name \in {"OSPFDBD", "OSPFLSU"}
      BY <3>3, Followers
    <3>5. 6 \in DOMAIN stack /\ st[6] = stack[6]
      <4>1. Climbs(stack)
        BY DEF PipeInv, Good
      <4>2. DOMAIN stack = 1 .. 7 - 1
        BY <1>3, <4>1, HeightIs
      <4> QED
        BY <2>3, <4>2
    <3>6. st[6].name = "OSPFLSU"
      BY <1>7, <3>4, <3>5
    <3>7. InPlace(frame, st, 6)
      <4>1. 6 \in 2 .. 6 /\ 6 # 3
        OBVIOUS
      <4> QED
        BY <2>3, <3>1, <4>1, Straight
    <3> QED
      BY <3>6, <3>7 DEF InPlace, Names
  <2>5. Ready(st, 7)
    BY <2>3, <2>4 DEF Ready
  <2>6. Aligned(frame, st, 7, offset')
    <3>1. InPlace(frame, st, 7) /\ st[7].name \in Sized => frame[7 - 1].size = Bytes(OspfLsaHeader)
      <4>1. ASSUME InPlace(frame, st, 7) PROVE frame[7 - 1].size = Bytes(OspfLsaHeader)
        <5>1. 7 - 1 \in DOMAIN frame /\ frame[7 - 1].name = "OSPFLSA"
          BY <2>3, <4>1 DEF InPlace
        <5>2. HasItsLength(frame, 7 - 1)
          BY <1>3, <5>1, Lengths
        <5> QED
          BY <5>1, <5>2 DEF HasItsLength, HeaderSize
      <4> QED
        BY <4>1
    <3>2. 7 \in 2 .. 9
      OBVIOUS
    <3>3. Aligned(frame, st, 7, offset + Bytes(OspfLsaHeader))
      BY <1>3, <1>4, <2>3, <3>1, <3>2, AlignedAfter
    <3> QED
      BY <1>1, <3>3
  <2>7. Turned(7)
    BY <1>2, <1>3, <2>1, <2>3, <2>5, <2>6, GoesOn
  <2> QED
    BY <1>2, <1>3, <1>5, <2>7 DEF Turns
<1> QED
  BY <1>6, <1>7

LEMMA LsaRouteTurns == ASSUME PipeInv, ParseLsaRoute PROVE Turns
<1> DEFINE st == Attached("OSPFLSAROUTE", TRUE)
           links == HeaderFor("OSPFLSAROUTE").links
<1>1. /\ Turn("OSPFLSAROUTE") /\ offset' = offset + Bytes(OspfLsaRouterHeader)
      /\ IF links > 0 THEN DeclareInteration(st, "OSPFLSAROUTE", links) ELSE GetNextHandler(st)
  BY Zenon DEF ParseLsaRoute, Scroll
<1>2. "OSPFLSAROUTE" \in Levels[8] /\ 8 \in 1 .. 9 /\ 8 \in {8, 9} /\ 8 \in 2 .. 9
  BY DEF Levels
<1>3. /\ frame \in Traffic /\ phase = "parse" /\ offset \in Nat
      /\ Height(stack, 8 - 1) /\ Rises(st, 8, "OSPFLSAROUTE")
  <2>1. /\ frame \in Traffic /\ phase = "parse" /\ offset \in Nat /\ Height(stack, 8 - 1)
        /\ \A x \in BOOLEAN : x \/ "OSPFLSAROUTE" \in Unset =>
               Rises(Attached("OSPFLSAROUTE", x), 8, "OSPFLSAROUTE")
    BY <1>1, <1>2, RisesTo
  <2> QED
    BY <2>1
<1> HIDE DEF st
<1>4. /\ Good(frame, llsFirst, st) /\ Height(st, 8) /\ Known(st) /\ st[8].name = "OSPFLSAROUTE"
      /\ st[8].at = offset
  BY <1>3 DEF Rises
<1>5. /\ UnreadableLsu /\ InPlace(frame, st, 8)
      /\ 7 \in DOMAIN frame /\ frame[7].name = "OSPFLSAROUTE"
      /\ HeaderFor("OSPFLSAROUTE") = frame[7]
  BY <1>2, <1>3, <1>4, RouteUnreadable
<1>6. HasItsLength(frame, 7)
  BY <1>3, <1>5, Lengths
<1>7. links \in Nat
  BY <1>5, <1>6 DEF HasItsLength
<1>8. Aligned(frame, st, 8, offset')
  <2>1. Bytes(OspfLsaRouterHeader) \in Nat /\ HeaderSize["OSPFLSAROUTE"] = Bytes(OspfLsaRouterHeader)
          /\ "OSPFLSAROUTE" \in DOMAIN HeaderSize
    BY StructureSizes DEF HeaderSize
  <2>2. frame[8 - 1].size = Bytes(OspfLsaRouterHeader)
    BY <1>5, <1>6, <2>1 DEF HasItsLength
  <2>3. Aligned(frame, st, 8, offset + Bytes(OspfLsaRouterHeader))
    BY <1>2, <1>3, <1>4, <2>1, <2>2, AlignedAfter
  <2> QED
    BY <1>1, <2>3
<1>9. CASE links > 0
  <2>1. Announces(frame, 7, "OSPFLSAROUTELINK")
    BY <1>5, <1>9 DEF Announces
  <2>2. 7 + 1 \in DOMAIN frame /\ frame[7 + 1].name = "OSPFLSAROUTELINK"
    BY <1>3, <1>5, <2>1, Announced, HandlersAre
  <2>3. Declared(8)
    BY <2>2 DEF Declared
  <2>4. 8 \in {6, 8} /\ Declarer(st, 8, "OSPFLSAROUTE", "OSPFLSAROUTE", 8)
    BY <1>5 DEF Declarer
  <2>5. DeclareInteration(st, "OSPFLSAROUTE", links)
    BY <1>1, <1>9
  <2>6. Turned(8)
    <3> HIDE DEF links
    <3> QED
      BY <1>3, <1>5, <1>7, <1>8, <2>3, <2>4, <2>5, DeclareTurns
  <2> QED
    BY <1>2, <1>3, <1>8, <2>6 DEF Turns, Aligned
<1>10. CASE ~(links > 0)
  <2>1. Ready(st, 8)
    BY <1>4, <1>5 DEF Ready
  <2>2. GetNextHandler(st)
    BY <1>1, <1>10
  <2>3. Turned(8)
    BY <1>2, <1>3, <1>4, <1>8, <2>1, <2>2, GoesOn
  <2> QED
    BY <1>2, <1>3, <1>8, <2>3 DEF Turns, Aligned
<1> QED
  BY <1>9, <1>10

LEMMA LinkTurns == ASSUME PipeInv, ParseLsaRouteLink PROVE Turns
<1> DEFINE st == Attached("OSPFLSAROUTELINK", FALSE)
<1>1. /\ Turn("OSPFLSAROUTELINK") /\ offset' = offset + Bytes(OspfLsaRouterLinkHeader)
      /\ IF Finds(st, "OSPFLSAROUTE") THEN GetNextHandler(st) ELSE Throws(st)
  BY Zenon DEF ParseLsaRouteLink, Scroll
<1>2. /\ "OSPFLSAROUTELINK" \in Levels[9] /\ 9 \in 1 .. 9 /\ 9 \in {8, 9} /\ 9 \in 2 .. 9
      /\ "OSPFLSAROUTELINK" \in Unset
  BY DEF Levels, Unset
<1>3. /\ frame \in Traffic /\ phase = "parse" /\ offset \in Nat
      /\ Height(stack, 9 - 1) /\ Rises(st, 9, "OSPFLSAROUTELINK")
  <2>1. /\ frame \in Traffic /\ phase = "parse" /\ offset \in Nat /\ Height(stack, 9 - 1)
        /\ \A x \in BOOLEAN : x \/ "OSPFLSAROUTELINK" \in Unset =>
               Rises(Attached("OSPFLSAROUTELINK", x), 9, "OSPFLSAROUTELINK")
    BY <1>1, <1>2, RisesTo
  <2> QED
    BY <1>2, <2>1
<1> HIDE DEF st
<1>4. /\ Good(frame, llsFirst, st) /\ Height(st, 9) /\ Known(st)
      /\ st[9].name = "OSPFLSAROUTELINK" /\ st[9].at = offset
  BY <1>3 DEF Rises
<1>5. UnreadableLsu
  <2>1. Climbs(st) /\ 9 \in DOMAIN st
    BY <1>4, HeightIs DEF Good
  <2>2. 9 > 1 => st[9 - 1].name \in Parents[st[9].name]
    BY <2>1, StackIs
  <2>3. st[8].name \in Parents["OSPFLSAROUTELINK"] /\ "OSPFLSAROUTELINK" \in Handlers
    BY <1>4, <2>2, HandlersAre
  <2>4. st[8].name = "OSPFLSAROUTE"
    BY <2>3, Followers
  <2> QED
    BY <1>2, <1>3, <1>4, <2>4, RouteUnreadable
<1>6. Aligned(frame, st, 9, offset')
  <2>1. Bytes(OspfLsaRouterLinkHeader) \in Nat
    BY StructureSizes
  <2>2. st[9].name \notin Sized
    BY <1>4 DEF Sized, HeaderSize
  <2>3. Aligned(frame, st, 9, offset + Bytes(OspfLsaRouterLinkHeader))
    BY <1>2, <1>3, <1>4, <2>1, <2>2, AlignedAfter
  <2> QED
    BY <1>1, <2>3
<1>7. Turned(9)
  <2>1. CASE Finds(st, "OSPFLSAROUTE")
    <3>1. Ready(st, 9)
      BY <1>4 DEF Ready
    <3>2. GetNextHandler(st)
      BY <1>1, <2>1
    <3> QED
      BY <1>2, <1>3, <1>4, <1>6, <3>1, <3>2, GoesOn
  <2>2. CASE ~Finds(st, "OSPFLSAROUTE")
    <3>1. Throws(st)
      BY <1>1, <2>2
    <3> QED
      BY <1>4, <1>5, <3>1 DEF Turned, Throws
  <2> QED
    BY <2>1, <2>2
<1> QED
  BY <1>2, <1>3, <1>6, <1>7 DEF Turns, Aligned

LEMMA RootTurns == ASSUME PipeInv, ParseRoot PROVE Turns
<1> DEFINE st == Attached("ROOT", FALSE)
<1>1. Turn("ROOT") /\ GetNextHandler(st) /\ offset' = offset
  BY Zenon DEF ParseRoot
<1>2. "ROOT" \in Levels[1] /\ 1 \in 1 .. 9 /\ "ROOT" \in Unset
  BY DEF Levels, Unset
<1>3. /\ frame \in Traffic /\ phase = "parse" /\ offset \in Nat
      /\ Height(stack, 1 - 1) /\ Rises(st, 1, "ROOT")
  <2>1. /\ frame \in Traffic /\ phase = "parse" /\ offset \in Nat /\ Height(stack, 1 - 1)
        /\ \A x \in BOOLEAN : x \/ "ROOT" \in Unset => Rises(Attached("ROOT", x), 1, "ROOT")
    BY <1>1, <1>2, RisesTo
  <2> QED
    BY <1>2, <2>1
<1> HIDE DEF st
<1>4. /\ Good(frame, llsFirst, st) /\ Height(st, 1) /\ Known(st) /\ st[1].name = "ROOT"
      /\ st[1].at = offset
  BY <1>3 DEF Rises
<1>5. offset = 0
  <2>1. st # <<>>
    BY <1>4 DEF Height
  <2> QED
    BY <1>4, <2>1 DEF Good, Lies
<1>6. Ready(st, 1) /\ Aligned(frame, st, 1, offset')
  BY <1>1, <1>4, <1>5 DEF Ready, Aligned
<1>7. Turned(1)
  BY <1>1, <1>2, <1>3, <1>4, <1>6, GoesOn
<1> QED
  BY <1>2, <1>3, <1>6, <1>7 DEF Turns, Aligned

LEMMA NothingStacked == ASSUME NEW f, NEW first PROVE Good(f, first, <<>>) /\ Known(<<>>)
<1>1. <<>> \in Seq(Entries) /\ Len(<<>>) = 0 /\ DOMAIN <<>> = {}
  BY DEF Entries
<1> QED
  BY <1>1 DEF Good, Climbs, Lies, Counts, Known

LEMMA ReturnKeeps == ASSUME PipeInv, Return, shared' \in BOOLEAN PROVE PipeInv'
<1>1. /\ phase' = "idle" /\ frame' = <<>> /\ stack' = <<>> /\ following' = None
      /\ offset' = 0 /\ taken' = 0 /\ optionsOffset' = 0 /\ teller' = 0 /\ told' = <<>>
      /\ routers' = routers /\ llsFirst' = llsFirst
  BY DEF Return, given
<1>2. Typed'
  <2>1. teller' \in 0 .. Len(stack')
    BY <1>1
  <2> QED
    BY <1>1, <2>1 DEF Typed, PipeInv
<1>3. Resting' /\ Telling'
  BY <1>1 DEF Resting, Telling
<1>4. Good(frame, llsFirst, stack)'
  BY <1>1, NothingStacked
<1>5. Known(stack)'
  BY <1>1 DEF Known
<1> QED
  BY <1>1, <1>2, <1>3, <1>4, <1>5 DEF PipeInv

LEMMA L2Turns ==
    ASSUME PipeInv, ParseL2Selection, ~HeaderFor("L2SELECTION").own
    PROVE  Turns /\ UNCHANGED <<taken, optionsOffset>>
<1> DEFINE st == Attached("L2SELECTION", TRUE)
<1>1. Turn("L2SELECTION")
  BY Zenon DEF ParseL2Selection
<1>2. "L2SELECTION" \in Levels[2] /\ 2 \in 1 .. 9 /\ 2 \in 2 .. 9 /\ 2 \in {2, 4, 5, 6}
  BY DEF Levels
<1>3. /\ frame \in Traffic /\ phase = "parse" /\ offset \in Nat
      /\ Height(stack, 2 - 1) /\ Rises(st, 2, "L2SELECTION")
  <2>1. /\ frame \in Traffic /\ phase = "parse" /\ offset \in Nat /\ Height(stack, 2 - 1)
        /\ \A x \in BOOLEAN : x \/ "L2SELECTION" \in Unset =>
               Rises(Attached("L2SELECTION", x), 2, "L2SELECTION")
    BY <1>1, <1>2, RisesTo
  <2> QED
    BY <2>1
<1>4. /\ offset' = offset + Bytes(EthernetHeader) /\ GetNextHandler(st)
      /\ taken' = taken /\ optionsOffset' = optionsOffset
  BY Zenon DEF ParseL2Selection, Scroll
<1> HIDE DEF st
<1>5. /\ Good(frame, llsFirst, st) /\ Height(st, 2) /\ Known(st) /\ st[2].name = "L2SELECTION"
      /\ st[2].at = offset
  BY <1>3 DEF Rises
<1>6. /\ 2 - 1 \in DOMAIN frame /\ frame[2 - 1].name = "L2SELECTION"
      /\ HeaderFor("L2SELECTION") = frame[2 - 1]
  BY <1>2, <1>3, ReadsItsOwn
<1>7. Ready(st, 2)
  BY <1>5, <1>6 DEF Ready
<1>8. Aligned(frame, st, 2, offset')
  <2>1. Bytes(EthernetHeader) \in Nat /\ HeaderSize["L2SELECTION"] = Bytes(EthernetHeader)
          /\ "L2SELECTION" \in DOMAIN HeaderSize
    BY StructureSizes DEF HeaderSize
  <2>2. HasItsLength(frame, 2 - 1)
    BY <1>3, <1>6, Lengths
  <2>3. frame[2 - 1].size = Bytes(EthernetHeader)
    BY <1>6, <2>1, <2>2 DEF HasItsLength
  <2>4. Aligned(frame, st, 2, offset + Bytes(EthernetHeader))
    BY <1>2, <1>3, <1>5, <2>1, <2>3, AlignedAfter
  <2> QED
    BY <1>4, <2>4
<1>9. Turned(2)
  BY <1>2, <1>3, <1>4, <1>5, <1>7, <1>8, GoesOn
<1>10. offset' \in Nat
  BY <1>8 DEF Aligned
<1> QED
  BY <1>2, <1>3, <1>4, <1>9, <1>10 DEF Turns

LEMMA L2Keeps == ASSUME PipeInv, ParseL2Selection PROVE PipeInv'
<1>1. CASE HeaderFor("L2SELECTION").own
  <2>1. Return /\ shared' = FALSE
    BY <1>1, Zenon DEF ParseL2Selection
  <2> QED
    BY <2>1, ReturnKeeps
<1>2. CASE ~HeaderFor("L2SELECTION").own
  <2>1. Turns /\ UNCHANGED <<taken, optionsOffset>>
    BY <1>2, L2Turns
  <2>2. PICK n \in 1 .. 9 : Turned(n)
    BY <2>1 DEF Turns
  <2>3. phase = "parse" /\ offset' \in Nat
    BY <2>1 DEF Turns
  <2> QED
    BY <2>1, <2>2, <2>3, TurnKeeps
<1> QED
  BY <1>1, <1>2

-----------------------------------------------------------------------------
(* The loop over TCP options. *)

LEMMA OptionsAre ==
    /\ DOMAIN OptionSize = {"EOL", "NOP", "MSS", "WSOPT", "SACKPermitted", "SACK", "TSOPT", "UTO",
                            "TCPAO", "Experimental"}
    /\ \A kind \in DOMAIN OptionSize : OptionSize[kind] \in Nat
  BY DEF OptionSize

LEMMA TcpKeeps ==
    ASSUME PipeInv, ParseTcp, UNCHANGED <<taken, optionsOffset>> PROVE PipeInv'
<1>1. Turn("TCP")
  BY Zenon DEF ParseTcp
<1>2. "TCP" \in Levels[5] /\ 5 \in 1 .. 9 /\ 5 \in {2, 4, 5, 6} /\ "TCP" \in Unset
  BY DEF Levels, Unset
<1>3. /\ frame \in Traffic /\ phase = "parse" /\ offset \in Nat
      /\ \A x \in BOOLEAN : x \/ "TCP" \in Unset => Rises(Attached("TCP", x), 5, "TCP")
  BY <1>1, <1>2, RisesTo
<1>4. \A a, b \in Nat : a + b \in Nat
  OBVIOUS
<1>5. CASE HeaderFor("TCP").syn
  <2> DEFINE st == Attached("TCP", TRUE)
  <2>1. /\ offset' = offset + Bytes(TcpHeader) /\ phase' = "options" /\ stack' = st /\ shared' = FALSE
        /\ UNCHANGED <<given, frame, following, teller, told>>
    BY <1>5, Zenon DEF ParseTcp, Scroll
  <2>2. Rises(st, 5, "TCP")
    BY <1>3
  <2> HIDE DEF st
  <2>3. 5 - 1 \in DOMAIN frame /\ frame[5 - 1].name = "TCP" /\ HeaderFor("TCP") = frame[5 - 1]
    BY <1>2, <1>3, <2>2, ReadsItsOwn
  <2>4. offset' \in Nat
    <3>1. Bytes(TcpHeader) \in Nat
      BY StructureSizes
    <3> QED
      BY <1>3, <1>4, <2>1, <3>1, Zenon
  <2>5. Parsing /\ Typed
    BY <1>3 DEF PipeInv
  <2>6. /\ Good(frame, llsFirst, stack') /\ Height(stack', 5) /\ Known(stack')
        /\ stack'[5].name = "TCP"
    BY <2>1, <2>2 DEF Rises
  <2>7. /\ frame' = frame /\ routers' = routers /\ llsFirst' = llsFirst /\ following' = following
        /\ teller' = 0 /\ told' = <<>> /\ taken' = 0 /\ optionsOffset' = 0
    BY <2>1, <2>5 DEF Parsing, given
  <2>8. Good(frame, llsFirst, stack)' /\ Known(stack)'
    <3>1. \A k \in DOMAIN stack' : stack'[k].name \in Indexed'
      BY <2>6, <2>7 DEF Known, Indexed
    <3> QED
      BY <2>6, <2>7, <3>1 DEF Known
  <2>9. Typed'
    <3>1. teller' \in 0 .. Len(stack')
      BY <2>6, <2>7 DEF Height
    <3> QED
      BY <2>1, <2>4, <2>5, <2>7, <3>1 DEF Typed
  <2>10. Reading'
    <3>1. frame'[4].syn
      BY <1>5, <2>3, <2>7
    <3>2. \A kinds : OptionBytes(kinds, 0) = 0
      BY BytesOfNone DEF OptionBytes
    <3>3. optionsOffset' = OptionBytes(OptionKinds', taken')
      BY <2>7, <3>2
    <3>4. \A i \in 1 .. taken' : ~Stops(frame'[4], OptionKinds', i)
      BY <2>7
    <3>5. Height(stack', 5)
      BY <2>6
    <3> QED
      BY <2>6, <2>7, <3>1, <3>3, <3>4, <3>5 DEF Reading
  <2>11. Telling'
    BY <2>7 DEF Telling
  <2> QED
    BY <1>3, <2>1, <2>7, <2>8, <2>9, <2>10, <2>11 DEF PipeInv
<1>6. CASE ~HeaderFor("TCP").syn
  <2> DEFINE st == Attached("TCP", FALSE)
  <2>1. /\ offset' = offset + Bytes(SubSeq(TcpHeader, 1, 5)) /\ stack' = st /\ following' = None
        /\ phase' = "tell" /\ shared' = FALSE /\ teller' = Len(stack')
        /\ UNCHANGED <<given, frame, told>>
    BY <1>6, Zenon DEF ParseTcp, Scroll
  <2>2. Rises(st, 5, "TCP")
    BY <1>2, <1>3
  <2> HIDE DEF st
  <2>3. Turned(5)
    BY <2>1, <2>2 DEF Turned, Rises, Height
  <2>4. offset' \in Nat
    <3>1. Bytes(SubSeq(TcpHeader, 1, 5)) \in Nat
      BY StructureSizes
    <3> QED
      BY <1>3, <1>4, <2>1, <3>1, Zenon
  <2> QED
    BY <1>2, <1>3, <2>3, <2>4, TurnKeeps
<1> QED
  BY <1>5, <1>6

\* The kinds that the loop gets to are those of the frame.
LEMMA KindIsTold ==
    ASSUME PipeInv, phase = "options"
    PROVE  /\ HeaderFor("TCP") = frame[4] /\ 4 \in DOMAIN frame /\ frame[4].name = "TCP"
           /\ frame[4].syn /\ frame \in Traffic
           /\ OptionKinds[taken + 1] \in Range(frame[4].options \o frame[4].beyond)
<1>1. /\ Height(stack, 5) /\ stack[5].name = "TCP" /\ frame[4].syn /\ taken \in Nat
      /\ \A i \in 1 .. taken : ~Stops(frame[4], OptionKinds, i)
      /\ frame \in Traffic /\ Climbs(stack) /\ Lies(frame, llsFirst, stack)
  BY DEF PipeInv, Reading, Typed, Good
<1>2. 5 <= Len(stack) /\ 5 \in 2 .. 6 /\ 5 \in 2 .. 8 /\ 5 # 3
  BY <1>1 DEF Height
<1>3. InPlace(frame, stack, 5)
  BY <1>1, <1>2, Straight
<1>4. 4 \in DOMAIN frame /\ frame[4].name = "TCP" /\ HeaderFor("TCP") = frame[4]
  <2>1. HeaderFor(stack[5].name) = frame[5 - 1] /\ 5 - 1 \in DOMAIN frame
          /\ frame[5 - 1].name = stack[5].name
    BY <1>1, <1>2, <1>3, HeaderOnStack
  <2> QED
    BY <1>1, <2>1
<1> DEFINE kinds == frame[4].options \o frame[4].beyond
<1>5. OptionKinds = kinds
  BY <1>4, Zenon DEF OptionKinds
<1>6. WellFormed(frame) /\ HasItsLength(frame, 4)
  BY <1>1, <1>4, Lengths, TrafficAssumption
<1>7. TellsItsOptions(frame[4])
  BY <1>4, <1>6 DEF WellFormed
<1>8. PICK n \in DOMAIN kinds : Stops(frame[4], kinds, n)
  BY <1>1, <1>7, Zenon DEF TellsItsOptions, Stops
<1>9. Len(kinds) \in Nat /\ DOMAIN kinds = 1 .. Len(kinds)
  <2>1. /\ frame[4].options \in Seq(Range(frame[4].options))
        /\ frame[4].beyond \in Seq(Range(frame[4].beyond))
    BY <1>4, <1>6 DEF HasItsLength
  <2> DEFINE a == frame[4].options
             b == frame[4].beyond
             S == Range(a)
             T == Range(b)
  <2>2. a \in Seq(S) /\ b \in Seq(T) /\ kinds = a \o b
    BY <2>1
  <2> HIDE DEF a, b, S, T, kinds
  <2>3. /\ Len(a \o b) \in Nat
        /\ DOMAIN (a \o b) = 1 .. Len(a \o b)
    BY <2>2
  <2> QED
    BY <2>2, <2>3, Zenon
<1> HIDE DEF kinds
<1>10. n \notin 1 .. taken
  BY <1>1, <1>5, <1>8
<1>11. taken + 1 \in DOMAIN kinds
  BY <1>1, <1>8, <1>9, <1>10
<1>12. kinds[taken + 1] \in Range(kinds)
  BY <1>11 DEF Range
<1> QED
  BY <1>1, <1>4, <1>5, <1>12 DEF kinds

LEMMA OptionKeeps == ASSUME PipeInv, TcpOption PROVE PipeInv'
<1> DEFINE kind == OptionKinds[taken + 1]
           size == OptionSize[kind]
           done == kind = "EOL" \/ optionsOffset + size = HeaderFor("TCP").size - 20
<1>1. phase = "options" /\ UNCHANGED <<given, frame, told>>
  BY Zenon DEF TcpOption
<1>2. /\ HeaderFor("TCP") = frame[4] /\ 4 \in DOMAIN frame /\ frame[4].name = "TCP"
      /\ frame[4].syn /\ frame \in Traffic
      /\ kind \in Range(frame[4].options \o frame[4].beyond)
  BY <1>1, KindIsTold
<1>3. /\ Typed /\ Good(frame, llsFirst, stack) /\ Known(stack) /\ Telling
      /\ Height(stack, 5) /\ stack[5].name = "TCP"
      /\ optionsOffset = OptionBytes(OptionKinds, taken)
      /\ \A i \in 1 .. taken : ~Stops(frame[4], OptionKinds, i)
      /\ teller = 0 /\ told = <<>>
  BY <1>1 DEF PipeInv, Reading
<1>4. /\ taken \in Nat /\ offset \in Nat /\ optionsOffset \in Nat /\ Len(stack) = 5
      /\ routers' = routers /\ llsFirst' = llsFirst /\ frame' = frame /\ told' = <<>>
  BY <1>1, <1>3 DEF Typed, Height, given
<1>5. CASE kind \notin DOMAIN OptionSize
  <2>1. /\ phase' = "down"
        /\ UNCHANGED <<stack, following, shared, offset, taken, optionsOffset, teller>>
    BY <1>5, Zenon DEF TcpOption
  <2>2. UnknownOption
    <3>1. Range(frame[4].options \o frame[4].beyond) \ DOMAIN OptionSize # {}
      BY <1>2, <1>5
    <3> QED
      BY <1>2, <3>1, Zenon DEF UnknownOption
  <2>3. Fallen'
    <3>1. UnknownOption'
      BY <1>4, <2>2 DEF UnknownOption
    <3> QED
      BY <3>1 DEF Fallen
  <2>4. Typed'
    BY <1>3, <1>4, <2>1 DEF Typed
  <2>5. Good(frame, llsFirst, stack)' /\ Telling'
    <3>1. Good(frame', llsFirst', stack')
      BY <1>3, <1>4, <2>1, Zenon
    <3> QED
      BY <1>4, <3>1 DEF Telling
  <2>6. Known(stack)'
    BY <1>3, <1>4, <2>1 DEF Known, Indexed
  <2> QED
    BY <1>2, <1>4, <2>1, <2>3, <2>4, <2>5, <2>6 DEF PipeInv
<1>6. CASE kind \in DOMAIN OptionSize
  <2>1. /\ optionsOffset' = optionsOffset + size
        /\ taken' = (IF size = 0 THEN taken ELSE taken + 1)
        /\ offset' = (IF done THEN offset + size + ((-(optionsOffset + size)) % 4)
                              ELSE offset + size)
        /\ phase' = (IF done THEN "tell" ELSE "options")
        /\ following' = (IF done THEN None ELSE following)
        /\ teller' = (IF done THEN Len(stack) ELSE teller)
        /\ UNCHANGED <<stack, shared>>
    BY <1>6, Zenon DEF TcpOption
  <2>2. size \in Nat
    BY <1>6, OptionsAre
  <2>3. optionsOffset' = OptionBytes(OptionKinds', taken')
    <3>0. OptionKinds' = OptionKinds
      BY <1>4 DEF OptionKinds, HeaderFor
    <3>1. CASE size = 0
      <4>1. taken' = taken /\ optionsOffset' = optionsOffset
        BY <1>4, <2>1, <3>1
      <4> QED
        BY <1>3, <3>0, <4>1
    <3>2. CASE size # 0
      <4>1. taken' = taken + 1
        BY <2>1, <3>2
      <4> DEFINE v == [i \in 1 .. taken + 1 |-> OptionSize[OptionKinds[i]]]
                 w == [i \in 1 .. taken |-> OptionSize[OptionKinds[i]]]
      <4>2. /\ DOMAIN v = 1 .. taken + 1 /\ DOMAIN w = 1 .. taken
            /\ \A i \in 1 .. taken : v[i] = w[i]
        BY <1>4
      <4>3. v[taken + 1] = size
        BY <1>4
      <4>4. OptionBytes(OptionKinds, taken + 1) = Bytes(v) /\ OptionBytes(OptionKinds, taken) = Bytes(w)
        BY Zenon DEF OptionBytes
      <4> HIDE DEF v, w, size
      <4>5. Bytes(v) = Bytes(w) + v[taken + 1]
        BY <1>4, <4>2, BytesOfMore
      <4>6. optionsOffset' = OptionBytes(OptionKinds, taken + 1)
        BY <1>3, <2>1, <4>3, <4>4, <4>5
      <4> QED
        BY <3>0, <4>1, <4>6
    <3> QED
      BY <3>1, <3>2
  <2>4. offset' \in Nat /\ taken' \in Nat /\ optionsOffset' \in Nat /\ teller' \in 0 .. Len(stack')
    <3> HIDE DEF size, done
    <3>1. \A x \in Nat : ((-x) % 4) \in Nat
      OBVIOUS
    <3>2. optionsOffset + size \in Nat /\ offset + size \in Nat
      BY <1>4, <2>2
    <3>3. ((-(optionsOffset + size)) % 4) \in Nat
      BY <3>1, <3>2
    <3>4. offset + size + ((-(optionsOffset + size)) % 4) \in Nat
      BY <3>2, <3>3
    <3>5. offset' \in Nat
      BY <2>1, <3>2, <3>4
    <3>6. teller' \in 0 .. Len(stack')
      <4>1. (teller' = Len(stack) \/ teller' = teller) /\ stack' = stack
        BY <2>1
      <4>2. teller' = 5 \/ teller' = 0
        BY <1>3, <1>4, <4>1
      <4>3. Len(stack') = 5
        BY <1>4, <4>1
      <4> QED
        BY <4>2, <4>3
    <3> QED
      BY <1>4, <2>1, <3>2, <3>5, <3>6
  <2>5. Typed'
    BY <1>3, <1>4, <2>1, <2>4 DEF Typed
  <2>6. Good(frame, llsFirst, stack)' /\ Telling'
    <3>1. Good(frame', llsFirst', stack')
      BY <1>3, <1>4, <2>1, Zenon
    <3> QED
      BY <1>4, <3>1 DEF Telling
  <2>7. Known(stack)'
    BY <1>3, <1>4, <2>1 DEF Known, Indexed
  <2>8. ~done => Reading'
    <3>1. SUFFICES ASSUME ~done PROVE Reading'
      OBVIOUS
    <3>2. OptionKinds' = OptionKinds /\ frame' = frame /\ stack' = stack
      BY <1>4, <2>1 DEF OptionKinds, HeaderFor
    <3>3. ASSUME NEW i \in 1 .. taken' PROVE ~Stops(frame[4], OptionKinds, i)
      <4>1. CASE i \in 1 .. taken
        BY <1>3, <4>1
      <4>2. CASE i \notin 1 .. taken
        <5>1. i = taken + 1 /\ taken' = taken + 1 /\ size # 0
          <6> HIDE DEF size, done
          <6> QED
            BY <1>4, <2>1, <3>3, <4>2
        <5>2. kind # "EOL" /\ optionsOffset + size # frame[4].size - 20
          BY <1>2, <3>1
        <5>3. OptionBytes(OptionKinds, taken + 1) # frame[4].size - 20
          <6>1. OptionBytes(OptionKinds, taken + 1) = optionsOffset + size
            BY <2>1, <2>3, <3>2, <5>1
          <6> QED
            BY <5>2, <6>1
        <5> QED
          BY <1>6, <5>1, <5>2, <5>3, Zenon DEF Stops
      <4> QED
        BY <4>1, <4>2
    <3>4. teller' = 0
      BY <1>3, <2>1, <3>1
    <3> QED
      BY <1>2, <1>3, <1>4, <2>3, <3>2, <3>3, <3>4 DEF Reading
  <2>9. phase' \in {"tell", "options"} /\ (phase' = "options" => ~done)
    BY <2>1
  <2> QED
    BY <1>2, <1>4, <2>5, <2>6, <2>7, <2>8, <2>9 DEF PipeInv
<1> QED
  BY <1>5, <1>6

-----------------------------------------------------------------------------
(* The callbacks. *)

\* Only one handler on a stack has somebody to tell: ARP is the last one when
\* it is there, and the others are all the sixth.
LEMMA TellerIs ==
    ASSUME NEW st, Climbs(st), NEW t \in DOMAIN st, st[t].name \in Tellers
    PROVE  t = 6 \/ (t = 4 /\ Len(st) = 4)
<1>1. /\ Len(st) \in 0 .. 9 /\ DOMAIN st = 1 .. Len(st) /\ t \in 1 .. 9
      /\ st[t].name \in Levels[t]
  BY StackIs
<1>2. CASE st[t].name # "ARP"
  <2>1. st[t].name \in {"OSPFHELLO", "OSPFDBD", "RIP", "ICMPECHO", "IMAGE"}
    BY <1>2 DEF Tellers
  <2> QED
    BY <1>1, <2>1, LevelIs
<1>3. CASE st[t].name = "ARP"
  <2>1. t = 4
    BY <1>1, <1>3, LevelIs
  <2>2. ASSUME 5 \in DOMAIN st PROVE FALSE
    <3>1. "ARP" \in Parents[st[5].name] /\ st[5].name \in Handlers
      <4>1. 5 > 1 => 5 - 1 \in DOMAIN st /\ st[5 - 1].name \in Parents[st[5].name]
        BY <2>2, StackIs
      <4>2. st[5].name \in Handlers
        BY <2>2, StackIs
      <4> QED
        BY <1>3, <2>1, <4>1, <4>2
    <3> QED
      BY <3>1, Followers
  <2> QED
    BY <1>1, <2>1, <2>2
<1> QED
  BY <1>2, <1>3

LEMMA TellKeeps == ASSUME PipeInv, OnSeriesCompleted PROVE PipeInv'
<1> DEFINE name == stack[teller].name
           heard == [to |-> name, package |-> Package(stack, teller)]
<1>1. /\ phase = "tell" /\ teller > 0 /\ teller' = teller - 1
      /\ UNCHANGED <<given, frame, stack, following, shared, offset, taken, optionsOffset>>
      /\ ~Tells(name) => phase' = phase /\ told' = told
      /\ Tells(name) /\ stack[teller].set => phase' = phase /\ told' = Append(told, heard)
      /\ Tells(name) /\ ~stack[teller].set => phase' = "down" /\ told' = told
  BY Zenon DEF OnSeriesCompleted
<1>2. /\ Typed /\ frame \in Traffic /\ Good(frame, llsFirst, stack) /\ Known(stack) /\ Telling
      /\ Climbs(stack) /\ Lies(frame, llsFirst, stack)
  BY <1>1 DEF PipeInv, Good
<1>3. Len(stack) \in Nat /\ DOMAIN stack = 1 .. Len(stack)
  BY <1>2 DEF Climbs
<1>4. /\ routers' = routers /\ llsFirst' = llsFirst /\ frame' = frame /\ stack' = stack
      /\ following' = following /\ shared' = shared /\ offset' = offset /\ taken' = taken
      /\ optionsOffset' = optionsOffset
  BY <1>1 DEF given
<1>5. teller \in DOMAIN stack /\ teller' \in 0 .. Len(stack) /\ teller \in Nat
  BY <1>1, <1>2, <1>3 DEF Typed
<1>6. phase' \in {"tell", "down"}
  BY <1>1
<1>7. Typed'
  BY <1>2, <1>4, <1>5, <1>6 DEF Typed
<1>8. Good(frame, llsFirst, stack)'
  <2>1. Good(frame', llsFirst', stack')
    BY <1>2, <1>4, Zenon
  <2> QED
    BY <2>1
<1>9. Known(stack)'
  BY <1>2, <1>4 DEF Known, Indexed
<1>10. Telling'
  <2>1. CASE Tells(name) /\ stack[teller].set
    <3>1. name \in Tellers
      BY <2>1 DEF Tells
    <3>2. told = <<>>
      <4>1. SUFFICES ASSUME told # <<>> PROVE FALSE
        OBVIOUS
      <4>2. PICK t \in DOMAIN stack : t > teller /\ stack[t].name \in Tellers
        BY <1>2, <4>1 DEF Telling
      <4>3. t = 6 \/ (t = 4 /\ Len(stack) = 4)
        BY <1>2, <4>2, TellerIs
      <4>4. teller = 6 \/ (teller = 4 /\ Len(stack) = 4)
        BY <1>2, <1>5, <3>1, TellerIs
      <4> QED
        BY <1>3, <4>2, <4>3, <4>4
    <3>3. told' = <<heard>>
      <4>1. told' = Append(<<>>, heard)
        BY <1>1, <2>1, <3>2
      <4> HIDE DEF heard
      <4> QED
        BY <4>1
    <3>4. teller > teller'
      BY <1>1, <1>5
    <3>5. /\ teller \in DOMAIN stack' /\ stack'[teller].name \in Tellers /\ stack'[teller].set
          /\ told' = <<[to |-> stack'[teller].name, package |-> Package(stack', teller)]>>
      BY <1>4, <1>5, <2>1, <3>1, <3>3
    <3>6. told' # <<>> => \E t \in DOMAIN stack' :
            /\ t > teller' /\ stack'[t].name \in Tellers /\ stack'[t].set
            /\ told' = <<[to |-> stack'[t].name, package |-> Package(stack', t)]>>
      BY <3>4, <3>5, Zenon
    <3> QED
      BY <3>6, Zenon DEF Telling
  <2>2. CASE ~(Tells(name) /\ stack[teller].set)
    <3>1. told' = told
      BY <1>1, <2>2
    <3>2. ASSUME told # <<>>
          PROVE  \E t \in DOMAIN stack :
                    /\ t > teller' /\ stack[t].name \in Tellers /\ stack[t].set
                    /\ told = <<[to |-> stack[t].name, package |-> Package(stack, t)]>>
      <4>1. PICK t \in DOMAIN stack :
                    /\ t > teller /\ stack[t].name \in Tellers /\ stack[t].set
                    /\ told = <<[to |-> stack[t].name, package |-> Package(stack, t)]>>
        BY <1>2, <3>2, Zenon DEF Telling
      <4>2. t > teller'
        BY <1>1, <1>3, <1>5, <4>1
      <4> QED
        BY <4>1, <4>2, Zenon
    <3> QED
      BY <1>4, <3>1, <3>2, Zenon DEF Telling
  <2> QED
    BY <2>1, <2>2
<1>11. phase' = "down" => Fallen'
  <2>1. SUFFICES ASSUME phase' = "down" PROVE "IMAGE" \in Names(frame)
    BY <1>4 DEF Fallen
  <2>2. Tells(name) /\ ~stack[teller].set
    BY <1>1, <2>1
  <2>3. name = "IMAGE"
    <3>1. name \in Unset /\ name \in Tellers
      BY <1>2, <1>5, <2>2 DEF Climbs, Tells
    <3> QED
      BY <3>1 DEF Unset, Tellers
  <2>4. teller = 6
    <3>1. teller \in 1 .. 9 /\ name \in Levels[teller]
      BY <1>2, <1>5, StackIs
    <3> QED
      BY <2>3, <3>1, LevelIs
  <2>5. InPlace(frame, stack, 6)
    <3>1. 6 \in 2 .. 6 /\ 6 <= Len(stack) /\ 6 # 3
      BY <1>3, <1>5, <2>4
    <3> QED
      BY <1>2, <3>1, Straight
  <2> QED
    BY <2>3, <2>4, <2>5 DEF InPlace, Names
<1> QED
  BY <1>2, <1>4, <1>6, <1>7, <1>8, <1>9, <1>10, <1>11 DEF PipeInv

-----------------------------------------------------------------------------
(* The invariant holds. *)

LEMMA CapturedKeeps == ASSUME PipeInv, NEW f \in Traffic, Captured(f) PROVE PipeInv'
<1>1. /\ phase = "idle" /\ frame' = f /\ phase' = "parse" /\ following' = "ROOT"
      /\ UNCHANGED <<given, stack, shared, offset, taken, optionsOffset, teller, told>>
  BY DEF Captured
<1>2. Typed /\ Resting
  BY <1>1 DEF PipeInv
<1>3. /\ routers' = routers /\ llsFirst' = llsFirst /\ shared' = shared
      /\ stack' = <<>> /\ told' = <<>> /\ offset' = 0 /\ taken' = 0 /\ optionsOffset' = 0
      /\ teller' = 0
  BY <1>1, <1>2 DEF Resting, given
<1>4. "ROOT" \in Handlers /\ "ROOT" \in Indexed'
  <2>1. Indexed' = Indexed
    BY <1>3 DEF Indexed
  <2> QED
    BY <2>1, IndexedAre, HandlersAre
<1>5. Typed'
  <2>1. teller' \in 0 .. Len(stack')
    BY <1>3
  <2> QED
    BY <1>1, <1>2, <1>3, <1>4, <2>1 DEF Typed
<1>6. Good(f, llsFirst, <<>>) /\ Known(<<>>)
  BY NothingStacked
<1>7. Height(<<>>, 0)
  BY DEF Height
<1>8. ASSUME NEW set \in BOOLEAN
      PROVE  /\ Good(f, llsFirst, Pushed(<<>>, 0, "ROOT", 0, set))
             /\ Fresh(Pushed(<<>>, 0, "ROOT", 0, set))
             /\ Height(Pushed(<<>>, 0, "ROOT", 0, set), 0 + 1)
  <2> DEFINE s == Pushed(<<>>, 0, "ROOT", 0, set)
             e == [name |-> "ROOT", at |-> 0, set |-> set, parent |-> 0,
                   index |-> Null, max |-> Null]
  <2>1. "ROOT" \notin DOMAIN CounterOf
    BY Repeating
  <2>2. s = Append(<<>>, e)
    BY <2>1 DEF Pushed
  <2>3. e \in Entries
    BY <1>4 DEF Entries
  <2>4. /\ e.name = "ROOT" /\ e.at = 0 /\ e.parent = 0 /\ e.index = Null /\ e.max = Null
    OBVIOUS
  <2> HIDE DEF e
  <2> HIDE DEF s
  <2>5. s \in Seq(Entries) /\ Len(s) = 1 /\ s[1] = e /\ DOMAIN s = {1}
    <3>1. \A S : \A x \in S : /\ Append(<<>>, x) \in Seq(S) /\ Len(Append(<<>>, x)) = 1
                              /\ Append(<<>>, x)[1] = x
      OBVIOUS
    <3>2. s \in Seq(Entries) /\ Len(s) = 1 /\ s[1] = e
      BY <2>2, <2>3, <3>1
    <3>3. DOMAIN s = 1 .. 1
      BY <3>2
    <3> QED
      BY <3>2, <3>3
  <2>6. Climbs(s)
    <3>1. "ROOT" \in Levels[1] /\ "ROOT" \in Unset
      BY DEF Levels, Unset
    <3> QED
      BY <2>1, <2>4, <2>5, <3>1 DEF Climbs
  <2>7. Lies(f, llsFirst, s) /\ Counts(f, s) /\ Fresh(s)
    BY <2>4, <2>5 DEF Lies, Counts, Fresh, Null
  <2>8. Height(s, 0 + 1)
    BY <2>5 DEF Height
  <2> QED
    BY <2>6, <2>7, <2>8 DEF Good, s
<1>9. Follows(f, llsFirst, <<>>, 0, "ROOT", 0)
  BY <1>8 DEF Follows
<1>10. Parsing'
  <2>1. Follows(frame', llsFirst', stack', 0, following', offset') /\ Height(stack', 0)
    BY <1>1, <1>3, <1>7, <1>9
  <2>2. 0 \in 0 .. 8
    OBVIOUS
  <2> QED
    BY <1>1, <1>3, <1>4, <2>1, <2>2 DEF Parsing
<1>11. Good(frame, llsFirst, stack)' /\ Telling'
  BY <1>1, <1>3, <1>6 DEF Telling
<1>12. Known(stack)'
  BY <1>3 DEF Known
<1> QED
  BY <1>1, <1>5, <1>10, <1>11, <1>12 DEF PipeInv

LEMMA HeaderTurns == ASSUME PipeInv, ParseHeader PROVE Turns
<1>1. CASE Plain
  BY <1>1, PlainTurns
<1>2. CASE Ending
  BY <1>2, EndingTurns
<1>3. CASE ParseRoot
  BY <1>3, RootTurns
<1>4. CASE ParseIPv4
  BY <1>4, IPv4Turns
<1>5. CASE ParseHello
  BY <1>5, HelloTurns
<1>6. CASE ParseRip
  BY <1>6, RipTurns
<1>7. CASE ParseDbd
  BY <1>7, DbdTurns
<1>8. CASE ParseLsu
  BY <1>8, LsuTurns
<1>9. CASE ParseLsa
  BY <1>9, LsaTurns
<1>10. CASE ParseLsaRoute
  BY <1>10, LsaRouteTurns
<1>11. CASE ParseLsaRouteLink
  BY <1>11, LinkTurns
<1> QED
  BY <1>1, <1>2, <1>3, <1>4, <1>5, <1>6, <1>7, <1>8, <1>9, <1>10, <1>11, Zenon
  DEF ParseHeader, Plain, Ending

LEMMA BeginKeeps == ASSUME PipeInv, BeginStep PROVE PipeInv'
<1>1. CASE ParseL2Selection
  BY <1>1, L2Keeps
<1>2. CASE ParseHeader /\ UNCHANGED <<taken, optionsOffset>>
  <2>1. Turns
    BY <1>2, HeaderTurns
  <2>2. PICK n \in 1 .. 9 : Turned(n)
    BY <2>1 DEF Turns
  <2>3. phase = "parse" /\ offset' \in Nat
    BY <2>1 DEF Turns
  <2> QED
    BY <1>2, <2>2, <2>3, TurnKeeps
<1>3. CASE ParseTcp /\ UNCHANGED <<taken, optionsOffset>>
  BY <1>3, TcpKeeps
<1>4. CASE TcpOption
  BY <1>4, OptionKeeps
<1>5. CASE OnSeriesCompleted
  BY <1>5, TellKeeps
<1>6. CASE Returned
  <2>1. Return /\ shared' \in BOOLEAN
    BY <1>6 DEF Returned, PipeInv, Typed
  <2> QED
    BY <2>1, ReturnKeeps
<1> QED
  BY <1>1, <1>2, <1>3, <1>4, <1>5, <1>6, Zenon DEF BeginStep

LEMMA InitHolds == ASSUME PipeInit PROVE PipeInv
<1>1. /\ routers \in RouterSets /\ llsFirst \in BOOLEAN /\ phase = "idle" /\ frame = <<>>
      /\ stack = <<>> /\ following = None /\ shared = FALSE /\ offset = 0 /\ taken = 0
      /\ optionsOffset = 0 /\ teller = 0 /\ told = <<>>
  BY DEF PipeInit
<1>2. Typed
  <2>1. teller \in 0 .. Len(stack)
    BY <1>1
  <2> QED
    BY <1>1, <2>1 DEF Typed
<1>3. Good(frame, llsFirst, stack) /\ Known(stack)
  BY <1>1, NothingStacked
<1> QED
  BY <1>1, <1>2, <1>3 DEF PipeInv, Resting, Telling

LEMMA StutterKeeps == ASSUME PipeInv, UNCHANGED pipeVars PROVE PipeInv'
<1>1. /\ routers' = routers /\ llsFirst' = llsFirst /\ phase' = phase /\ frame' = frame
      /\ stack' = stack /\ following' = following /\ shared' = shared /\ offset' = offset
      /\ taken' = taken /\ optionsOffset' = optionsOffset /\ teller' = teller /\ told' = told
  BY DEF pipeVars
<1>2. Indexed' = Indexed /\ OptionKinds' = OptionKinds
  BY <1>1 DEF Indexed, OptionKinds, HeaderFor
<1>3. Typed' /\ (Resting => Resting')
  BY <1>1 DEF Typed, Resting, PipeInv
<1>4. Parsing => Parsing'
  BY <1>1, <1>2 DEF Parsing
<1>5. Reading => Reading'
  BY <1>1, <1>2 DEF Reading
<1>6. Telling => Telling'
  BY <1>1 DEF Telling
<1>7. Fallen => Fallen'
  BY <1>1 DEF Fallen, UnreadableLsu, UnknownOption
<1>8. Known(stack) => Known(stack)'
  BY <1>1, <1>2 DEF Known
<1>9. Good(frame, llsFirst, stack) => Good(frame, llsFirst, stack)'
  <2>1. Good(frame, llsFirst, stack) => Good(frame', llsFirst', stack')
    BY <1>1, Zenon
  <2> QED
    BY <2>1
<1> QED
  BY <1>1, <1>3, <1>4, <1>5, <1>6, <1>7, <1>8, <1>9 DEF PipeInv

\* The invariant of the pipeline (RoutingController.Begin): at every step the
\* stack is a path through the levels, the offset is where the next header
\* lies, and only the frames that are named bring the router down.
THEOREM Pipe == PipeSpec => []PipeInv
<1>1. PipeInit => PipeInv
  BY InitHolds
<1>2. PipeInv /\ [PipeNext]_pipeVars => PipeInv'
  <2>1. ASSUME PipeInv, PipeNext PROVE PipeInv'
    BY <2>1, CapturedKeeps, BeginKeeps DEF PipeNext
  <2> QED
    BY <2>1, StutterKeeps
<1> QED
  BY <1>1, <1>2, PTL DEF PipeSpec

-----------------------------------------------------------------------------
(* What follows from the invariant. *)

\* PipeTypeOK: the handlers on the stack are indexed ones, and each one's
\* parent comes before it, so that the walks of GetValue and SetValue end
\* (Handler.cs:210-260, RoutingController.cs:343-356).
THEOREM PipeTypes == PipeSpec => []PipeTypeOK
<1>1. PipeInv => PipeTypeOK
  <2>1. SUFFICES ASSUME PipeInv PROVE PipeTypeOK
    OBVIOUS
  <2>2. /\ Typed /\ Climbs(stack) /\ Counts(frame, stack) /\ Known(stack)
        /\ frame \in Traffic \cup {<<>>}
    BY <2>1 DEF PipeInv, Good, Resting
  <2>3. ASSUME NEW k \in DOMAIN stack
        PROVE  /\ stack[k].name \in Indexed /\ stack[k].parent \in 0 .. k - 1
               /\ stack[k].index <= stack[k].max
    BY <2>2, ParentIs DEF Counts, Known
  <2>4. {offset, taken, optionsOffset} \subseteq Nat
    BY <2>2 DEF Typed
  <2> QED
    BY <2>2, <2>3, <2>4 DEF PipeTypeOK, Typed
<1> QED
  BY <1>1, Pipe, PTL

\* OnlyTheseThrow: only the frames that are named bring the router down,
\* whatever handlers are configured, whatever the order of the catalog and
\* whatever came before (Handler.cs:281-296, TcpHandler.cs:52-129).
THEOREM OthersAreRead == PipeSpec => []OnlyTheseThrow
<1>1. PipeInv => OnlyTheseThrow
  BY DEF PipeInv, Fallen, OnlyTheseThrow
<1> QED
  BY <1>1, Pipe, PTL

LEMMA LiesWhereItReads == ASSUME PipeInv PROVE ReadsWhereItLies
<1>1. Climbs(stack) /\ Lies(frame, llsFirst, stack)
  BY DEF PipeInv, Good
<1>2. SUFFICES ASSUME NEW i \in DOMAIN stack \ {1}
               PROVE  \/ \E k \in DOMAIN frame : /\ frame[k].name = stack[i].name
                                                 /\ Place(frame, k) = stack[i].at
                      \/ Displaced(stack[i].name)
  BY Zenon DEF ReadsWhereItLies
<1>3. i \in 2 .. Len(stack) /\ Len(stack) \in Nat
  BY <1>1, <1>2 DEF Climbs
<1>4. CASE InPlace(frame, stack, i)
  BY <1>4 DEF InPlace
<1>5. CASE i = 3 /\ stack[i].name = "ETHERNETII" /\ Misread(frame)
  <2>1. "IEEE8023" \in Names(frame) /\ frame[1].high > 0 /\ frame[1].low >= 100
    BY <1>5 DEF Misread, Names
  <2> QED
    BY <1>5, <2>1 DEF Displaced
<1>6. CASE /\ i \in {7, 8} /\ BlockFirst(frame, llsFirst, stack)
           /\ stack[i].name \in {"OSPFLLSDATABLOCK", "OSPFLLSDATABLOCKTLV"}
  <2>1. 6 \in 2 .. 6 /\ 6 <= Len(stack) /\ 6 # 3
    BY <1>3, <1>6
  <2>2. InPlace(frame, stack, 6)
    BY <1>1, <2>1, Straight
  <2>3. {"OSPFDBD", "OSPFLSA"} \subseteq Names(frame) /\ llsFirst
    BY <1>6, <2>2 DEF InPlace, BlockFirst, Names
  <2> QED
    BY <1>6, <2>3 DEF Displaced
<1> QED
  BY <1>1, <1>3, <1>4, <1>5, <1>6 DEF Lies, Astray

\* ReadsWhereItLies: the offset that the handlers move by their own sizes is
\* always at the header that the next one is for (Handler.Scroll and each
\* handler's Parse), but for the two that are named.
THEOREM PlacesAreRight == PipeSpec => []ReadsWhereItLies
<1>1. PipeInv => ReadsWhereItLies
  BY LiesWhereItReads
<1> QED
  BY <1>1, Pipe, PTL

\* Out from the fourth or the sixth handler there is every one before it.
LEMMA WaysOut ==
    ASSUME NEW st, Climbs(st), NEW t \in {4, 6}, t \in DOMAIN st
    PROVE  Ancestors(st, t) = 1 .. t
<1> DEFINE w == [i \in 0 .. t |-> 1 .. i]
           v == [i \in 0 .. t |-> IF i = 0 THEN {} ELSE {i} \cup w[st[i].parent]]
           W(u) == u = [i \in 0 .. t |-> IF i = 0 THEN {} ELSE {i} \cup u[st[i].parent]]
<1>1. ASSUME NEW i \in 1 .. t PROVE st[i].parent = i - 1
  <2>1. i \in DOMAIN st /\ i # 7 /\ i # 9
    BY DEF Climbs
  <2> QED
    BY <2>1, ParentIs
<1>2. ASSUME NEW i \in 0 .. t PROVE w[i] = v[i]
  <2>1. CASE i = 0
    BY <2>1
  <2>2. CASE i # 0
    <3>1. i \in 1 .. t /\ i - 1 \in 0 .. t /\ 1 .. i = {i} \cup (1 .. i - 1)
      BY <2>2
    <3>2. v[i] = {i} \cup w[i - 1]
      BY <1>1, <2>2, <3>1
    <3> QED
      BY <3>1, <3>2
  <2> QED
    BY <2>1, <2>2
<1>3. W(w)
  <2>1. w = v
    BY <1>2
  <2> QED
    BY <2>1
<1>4. \E u : W(u) /\ Ancestors(st, t) = u[t]
  <2> HIDE DEF w, v
  <2> QED
    BY <1>3, Zenon DEF Ancestors
<1>5. PICK u : W(u) /\ Ancestors(st, t) = u[t]
  BY <1>4
<1>6. ASSUME NEW i \in 0 .. t PROVE u[i] = IF i = 0 THEN {} ELSE {i} \cup u[st[i].parent]
  BY <1>5
<1> HIDE DEF w, v, W
<1>7. u[0] = {} /\ \A i \in 1 .. t : u[i] = {i} \cup u[i - 1]
  <2>1. u[0] = {}
    <3>1. 0 \in 0 .. t
      OBVIOUS
    <3> QED
      BY <1>6, <3>1
  <2>2. ASSUME NEW i \in 1 .. t PROVE u[i] = {i} \cup u[i - 1]
    <3>1. i \in 0 .. t /\ i # 0
      OBVIOUS
    <3>2. u[i] = {i} \cup u[st[i].parent]
      BY <1>6, <3>1
    <3> QED
      BY <1>1, <3>2
  <2> QED
    BY <2>1, <2>2
<1>8. u[1] = {1} /\ u[2] = {1, 2} /\ u[3] = {1, 2, 3} /\ u[4] = {1, 2, 3, 4}
  BY <1>7
<1>9. t = 6 => u[6] = {1, 2, 3, 4, 5, 6}
  BY <1>7, <1>8
<1>10. 1 .. 4 = {1, 2, 3, 4} /\ 1 .. 6 = {1, 2, 3, 4, 5, 6}
  OBVIOUS
<1> QED
  BY <1>5, <1>8, <1>9, <1>10

LEMMA TellsOfAll == ASSUME PipeInv PROVE HeadersReachTheSubscriber
<1>1. Telling /\ Climbs(stack) /\ Lies(frame, llsFirst, stack)
  BY DEF PipeInv, Good
<1>2. CASE told = <<>>
  BY <1>2 DEF HeadersReachTheSubscriber
<1>3. CASE told # <<>>
  <2>1. PICK t \in DOMAIN stack :
            /\ stack[t].name \in Tellers /\ stack[t].set
            /\ told = <<[to |-> stack[t].name, package |-> Package(stack, t)]>>
    BY <1>1, <1>3 DEF Telling
  <2>2. t \in {4, 6} /\ t <= Len(stack) /\ Len(stack) \in Nat /\ DOMAIN stack = 1 .. Len(stack)
    <3>1. t = 6 \/ t = 4
      BY <1>1, <2>1, TellerIs, Zenon
    <3>2. Len(stack) \in Nat /\ DOMAIN stack = 1 .. Len(stack)
      BY <1>1 DEF Climbs
    <3> QED
      BY <3>1, <3>2
  <2>3. ~frame[1].own
    BY <1>1, <2>2 DEF Lies
  <2>4. ASSUME NEW i \in 2 .. t
        PROVE  /\ i - 1 \in DOMAIN frame /\ frame[i - 1].name = stack[i].name
               /\ stack[i].set
    <3>1. i \in 2 .. 6 /\ i <= Len(stack) /\ (i # 3 \/ Len(stack) # 3) /\ i \in DOMAIN stack
      BY <2>2
    <3>2. InPlace(frame, stack, i)
      BY <1>1, <3>1, Straight
    <3>3. stack[i].set
      <4>1. CASE i = t
        BY <2>1, <4>1
      <4>2. CASE i # t
        <5>1. i + 1 \in DOMAIN stack /\ i + 1 > 1 /\ i + 1 - 1 = i
          BY <2>2, <3>1, <4>2
        <5>2. stack[i].name \in Parents[stack[i + 1].name] /\ stack[i + 1].name \in Handlers
          <6>1. i + 1 > 1 => i + 1 - 1 \in DOMAIN stack
                               /\ stack[i + 1 - 1].name \in Parents[stack[i + 1].name]
            BY <1>1, <5>1, StackIs
          <6>2. stack[i + 1].name \in Handlers
            BY <1>1, <5>1, StackIs
          <6> QED
            BY <5>1, <6>1, <6>2
        <5>3. stack[i].name # "TCP"
          BY <5>2, Followers
        <5>4. i \in 2 .. 5 /\ i \in 1 .. 9 /\ stack[i].name \in Levels[i]
          BY <1>1, <2>2, <3>1, <4>2, StackIs
        <5>5. stack[i].name \notin Unset
          BY <5>3, <5>4, LevelIs DEF Unset
        <5> QED
          BY <1>1, <3>1, <5>5 DEF Climbs
      <4> QED
        BY <4>1, <4>2
    <3> QED
      BY <3>2, <3>3 DEF InPlace
  <2> DEFINE k == t - 1
  <2>5. k \in DOMAIN frame /\ frame[k].name = stack[t].name
    BY <2>2, <2>4
  <2>6. Names(SubSeq(frame, 1, k)) \subseteq Package(stack, t)
    <3>1. Len(SubSeq(frame, 1, k)) = k /\ DOMAIN SubSeq(frame, 1, k) = 1 .. k
            /\ \A j \in 1 .. k : SubSeq(frame, 1, k)[j] = frame[j]
      BY <2>2
    <3>2. ASSUME NEW j \in 1 .. k PROVE frame[j].name \in Package(stack, t)
      <4>1. j + 1 \in 2 .. t /\ j + 1 - 1 = j /\ j + 1 \in 1 .. t
        BY <2>2
      <4>2. frame[j].name = stack[j + 1].name /\ stack[j + 1].set
        BY <2>4, <4>1
      <4>3. Ancestors(stack, t) = 1 .. t
        BY <1>1, <2>2, WaysOut
      <4> QED
        BY <4>1, <4>2, <4>3 DEF Package
    <3> QED
      BY <3>1, <3>2 DEF Names
  <2>7. /\ Len(told) = 1 /\ told[1].to = stack[t].name /\ told[1].package = Package(stack, t)
    BY <2>1
  <2> QED
    BY <2>3, <2>5, <2>6, <2>7 DEF HeadersReachTheSubscriber
<1> QED
  BY <1>2, <1>3

\* HeadersReachTheSubscriber: one module at most is told of a frame, none of a
\* frame that comes back to its sender, and it is told with every header
\* around its own (RoutingController.cs:343-377, 613-664).
THEOREM SubscribersAreTold == PipeSpec => []HeadersReachTheSubscriber
<1>1. PipeInv => HeadersReachTheSubscriber
  BY TellsOfAll
<1> QED
  BY <1>1, Pipe, PTL

-----------------------------------------------------------------------------
(* What the frames are that routers of this kind send. *)

After(n, m) == m = n + 1

LEMMA BytesAndLast ==
    ASSUME NEW n \in Nat, NEW m \in Nat, After(n, m), NEW v \in [1 .. m -> Nat],
           NEW w \in [1 .. n -> Nat], \A i \in 1 .. n : v[i] = w[i]
    PROVE  Bytes(v) = Bytes(w) + v[m]
<1>1. m = n + 1
  BY DEF After
<1>2. DOMAIN v = 1 .. n + 1 /\ DOMAIN w = 1 .. n
  BY <1>1
<1>3. Bytes(v) = Bytes(w) + v[n + 1]
  BY <1>2, BytesOfMore
<1> QED
  BY <1>1, <1>3

(* A row of field lengths, and one that another continues. *)
RowOf(v, n) == v \in [1 .. n -> Nat]
Continues(v, w, n) == \A i \in 1 .. n : v[i] = w[i]

LEMMA BytesAndTwoLast ==
    ASSUME NEW a \in Nat, NEW b \in Nat, NEW c \in Nat, After(a, b), After(b, c),
           NEW v, NEW v1, NEW v2, RowOf(v, c), RowOf(v2, b), RowOf(v1, a),
           Continues(v, v2, b), Continues(v2, v1, a)
    PROVE  Bytes(v) = Bytes(v2) + v[c] /\ Bytes(v2) = Bytes(v1) + v2[b]
<1>1. v \in [1 .. c -> Nat] /\ v2 \in [1 .. b -> Nat] /\ v1 \in [1 .. a -> Nat]
  BY Zenon DEF RowOf
<1>2. \A i \in 1 .. b : v[i] = v2[i]
  BY Zenon DEF Continues
<1>3. \A i \in 1 .. a : v2[i] = v1[i]
  BY Zenon DEF Continues
<1>4. Bytes(v) = Bytes(v2) + v[c]
  BY <1>1, <1>2, BytesAndLast
<1>5. Bytes(v2) = Bytes(v1) + v2[b]
  BY <1>1, <1>3, BytesAndLast
<1> QED
  BY <1>4, <1>5

LEMMA SumOfThree ==
    ASSUME NEW a \in Nat, NEW b \in Nat, NEW c \in Nat PROVE (a + b) + c = a + (b + c)
  OBVIOUS

LEMMA BytesInFront ==
    ASSUME NEW n \in Nat, NEW v \in [1 .. n -> Nat], NEW w \in [1 .. n + 1 -> Nat],
           \A i \in 1 .. n : w[i + 1] = v[i]
    PROVE  Bytes(w) = w[1] + Bytes(v)
<1> DEFINE P(k) == \A x \in [1 .. k -> Nat], y \in [1 .. k + 1 -> Nat] :
                       (\A i \in 1 .. k : y[i + 1] = x[i]) => Bytes(y) = y[1] + Bytes(x)
           T == {k \in Nat : P(k)}
<1>1. P(0)
  <2>1. ASSUME NEW x \in [1 .. 0 -> Nat], NEW y \in [1 .. 0 + 1 -> Nat]
        PROVE  Bytes(y) = y[1] + Bytes(x)
    <3>1. Bytes(x) = 0
      BY BytesOfNone
    <3>2. Bytes(y) = Bytes(x) + y[0 + 1]
      <4>1. /\ DOMAIN y = 1 .. 0 + 1 /\ DOMAIN x = 1 .. 0 /\ 0 \in Nat
            /\ \A i \in 1 .. 0 : y[i] = x[i]
        OBVIOUS
      <4> QED
        BY <4>1, BytesOfMore
    <3>3. y[1] \in Nat
      OBVIOUS
    <3> QED
      BY <3>1, <3>2, <3>3
  <2> QED
    BY <2>1
<1>2. ASSUME NEW k \in 0 .. n - 1, P(k) PROVE P(k + 1)
  <2>1. ASSUME NEW x \in [1 .. k + 1 -> Nat], NEW y \in [1 .. k + 1 + 1 -> Nat],
               \A i \in 1 .. k + 1 : y[i + 1] = x[i]
        PROVE  Bytes(y) = y[1] + Bytes(x)
    <3> DEFINE x0 == [i \in 1 .. k |-> x[i]]
               y0 == [i \in 1 .. k + 1 |-> y[i]]
    <3>1. k \in Nat /\ k + 1 \in Nat /\ x0 \in [1 .. k -> Nat] /\ y0 \in [1 .. k + 1 -> Nat]
      <4>1. k \in Nat /\ k + 1 \in Nat
        OBVIOUS
      <4>2. \A i \in 1 .. k : i \in 1 .. k + 1
        OBVIOUS
      <4>3. \A i \in 1 .. k + 1 : i \in 1 .. k + 1 + 1
        OBVIOUS
      <4>4. \A i \in 1 .. k : x[i] \in Nat
        BY <4>2
      <4>5. \A i \in 1 .. k + 1 : y[i] \in Nat
        BY <4>3
      <4>6. x0 \in [1 .. k -> Nat]
        BY <4>4
      <4>7. y0 \in [1 .. k + 1 -> Nat]
        BY <4>5
      <4> QED
        BY <4>1, <4>6, <4>7
    <3>2. Bytes(y0) = y0[1] + Bytes(x0)
      <4>1. \A i \in 1 .. k : y0[i + 1] = x0[i]
        BY <2>1
      <4> HIDE DEF x0, y0
      <4> QED
        BY <1>2, <3>1, <4>1
    <3>3. \A i \in 1 .. k : x[i] = x0[i]
      OBVIOUS
    <3>4. \A i \in 1 .. k + 1 : y[i] = y0[i]
      OBVIOUS
    <3>5. y0[1] = y[1]
      BY <3>1
    <3> HIDE DEF x0, y0
    <3>6. y[k + 1 + 1] = x[k + 1] /\ y[1] \in Nat /\ x[k + 1] \in Nat /\ k + 1 + 1 \in Nat
      BY <2>1
    <3> DEFINE a == k + 1
               b == k + 1 + 1
    <3>7. /\ k \in Nat /\ a \in Nat /\ b \in Nat /\ After(k, a) /\ After(a, b)
          /\ x \in [1 .. a -> Nat] /\ y \in [1 .. b -> Nat]
          /\ x0 \in [1 .. k -> Nat] /\ y0 \in [1 .. a -> Nat]
          /\ \A i \in 1 .. a : y[i] = y0[i]
      BY <3>1, <3>4, <3>6 DEF After
    <3>8. Bytes(x) = Bytes(x0) + x[a] /\ Bytes(y) = Bytes(y0) + y[b]
      <4> HIDE DEF a, b
      <4>1. Bytes(x) = Bytes(x0) + x[a]
        BY <3>3, <3>7, BytesAndLast
      <4>2. Bytes(y) = Bytes(y0) + y[b]
        BY <3>7, BytesAndLast
      <4> QED
        BY <4>1, <4>2
    <3>9. Bytes(x0) \in Nat
      BY <3>1, BytesNat, Zenon
    <3>10. Bytes(y) = (y[1] + Bytes(x0)) + x[k + 1]
      BY <3>2, <3>5, <3>6, <3>8, Zenon
    <3>11. (y[1] + Bytes(x0)) + x[k + 1] = y[1] + (Bytes(x0) + x[k + 1])
      BY <3>6, <3>9, SumOfThree
    <3> QED
      BY <3>8, <3>10, <3>11, Zenon
  <2> QED
    BY <2>1
<1>3. \A k \in 0 .. n : k \in T
  <2> HIDE DEF P
  <2>1. 0 \in T
    BY <1>1
  <2>2. ASSUME NEW k \in 0 .. n - 1, k \in T PROVE k + 1 \in T
    <3>1. P(k + 1)
      BY <1>2, <2>2
    <3> QED
      BY <3>1
  <2> HIDE DEF T
  <2> QED
    BY <2>1, <2>2, UpTo
<1>4. P(n)
  <2> HIDE DEF P
  <2> QED
    BY <1>3
<1> QED
  BY <1>4

LEMMA BytesOfZeros ==
    ASSUME NEW n \in Nat, NEW v \in [1 .. n -> Nat], \A i \in 1 .. n : v[i] = 0
    PROVE  Bytes(v) = 0
<1> DEFINE P(k) == \A x \in [1 .. k -> Nat] : (\A i \in 1 .. k : x[i] = 0) => Bytes(x) = 0
           T == {k \in Nat : P(k)}
<1>1. P(0)
  BY BytesOfNone
<1>2. ASSUME NEW k \in 0 .. n - 1, P(k) PROVE P(k + 1)
  <2>1. ASSUME NEW x \in [1 .. k + 1 -> Nat], \A i \in 1 .. k + 1 : x[i] = 0
        PROVE  Bytes(x) = 0
    <3> DEFINE x0 == [i \in 1 .. k |-> x[i]]
    <3>1. k \in Nat /\ x0 \in [1 .. k -> Nat] /\ x[k + 1] = 0 /\ \A i \in 1 .. k : x0[i] = 0
      BY <2>1
    <3>2. Bytes(x) = Bytes(x0) + x[k + 1]
      BY <3>1, BytesOfMore
    <3> HIDE DEF x0
    <3>3. Bytes(x0) = 0
      BY <1>2, <3>1
    <3> QED
      BY <3>1, <3>2, <3>3
  <2> QED
    BY <2>1
<1>3. \A k \in 0 .. n : k \in T
  <2> HIDE DEF P
  <2>1. 0 \in T
    BY <1>1
  <2>2. ASSUME NEW k \in 0 .. n - 1, k \in T PROVE k + 1 \in T
    <3>1. P(k + 1)
      BY <1>2, <2>2
    <3> QED
      BY <3>1
  <2> HIDE DEF T
  <2> QED
    BY <2>1, <2>2, UpTo
<1>4. P(n)
  <2> HIDE DEF P
  <2> QED
    BY <1>3
<1> QED
  BY <1>4

LEMMA Divides == ASSUME NEW x \in Nat, NEW d \in Nat \ {0} PROVE (x + d) \div d > 0
  OBVIOUS

LEMMA Joined ==
    ASSUME NEW S, NEW T, NEW a \in Seq(S), NEW b \in Seq(T)
    PROVE  /\ Len(a \o b) = Len(a) + Len(b) /\ a \o b \in Seq(S \cup T)
           /\ \A i \in 1 .. Len(a) : (a \o b)[i] = a[i]
           /\ \A i \in 1 .. Len(b) : (a \o b)[Len(a) + i] = b[i]
  OBVIOUS

\* A sequence of n headers, each of which has a size.
Row(data, n) ==
    /\ \E T : data \in Seq(T)
    /\ Len(data) = n
    /\ \A k \in 1 .. n : data[k].size \in Nat

Fronted(s, h, data) == s = <<h>> \o data

LEMMA InFront ==
    ASSUME NEW n \in Nat, NEW data, Row(data, n), NEW h, h.size \in Nat,
           NEW s, Fronted(s, h, data)
    PROVE  /\ Row(s, n + 1) /\ s[1] = h
           /\ \A i \in 1 .. n : s[i + 1] = data[i]
<1>1. PICK T : data \in Seq(T)
  BY DEF Row
<1>2. Len(data) = n
  BY DEF Row
<1>3. s \in Seq(T \cup {h}) /\ Len(s) = n + 1 /\ s[1] = h /\ \A i \in 1 .. n : s[i + 1] = data[i]
  BY <1>1, <1>2 DEF Fronted
<1>4. ASSUME NEW k \in 1 .. n + 1 PROVE s[k].size \in Nat
  <2>1. CASE k = 1
    BY <1>3, <2>1
  <2>2. CASE k # 1
    <3>1. k - 1 \in 1 .. n /\ k - 1 + 1 = k
      BY <2>2
    <3>2. s[k] = data[k - 1]
      BY <1>3, <3>1
    <3> QED
      BY <3>1, <3>2 DEF Row
  <2> QED
    BY <2>1, <2>2
<1>5. Row(s, n + 1)
  BY <1>3, <1>4 DEF Row
<1> QED
  BY <1>3, <1>5

LEMMA SizeIs ==
    ASSUME NEW n \in Nat, NEW data, Row(data, n)
    PROVE  /\ [k \in DOMAIN data |-> data[k].size] \in [1 .. n -> Nat]
           /\ Size(data) = Bytes([k \in DOMAIN data |-> data[k].size]) /\ Size(data) \in Nat
<1>1. DOMAIN data = 1 .. n
  BY DEF Row
<1>2. [k \in DOMAIN data |-> data[k].size] \in [1 .. n -> Nat]
  BY <1>1 DEF Row
<1> QED
  BY <1>2, BytesNat DEF Size

LEMMA SizeInFront ==
    ASSUME NEW n \in Nat, NEW data, Row(data, n), NEW h, h.size \in Nat,
           NEW s, Fronted(s, h, data)
    PROVE  Size(s) = h.size + Size(data)
<1> DEFINE v == [k \in DOMAIN data |-> data[k].size]
           w == [k \in DOMAIN s |-> s[k].size]
<1>1. Row(s, n + 1) /\ s[1] = h /\ \A i \in 1 .. n : s[i + 1] = data[i]
  BY InFront
<1>2. v \in [1 .. n -> Nat] /\ Size(data) = Bytes(v)
  BY SizeIs
<1>3. w \in [1 .. n + 1 -> Nat] /\ Size(s) = Bytes(w)
  <2>1. n + 1 \in Nat
    OBVIOUS
  <2> QED
    BY <1>1, <2>1, SizeIs
<1>4. DOMAIN data = 1 .. n /\ DOMAIN s = 1 .. n + 1
  BY <1>1 DEF Row
<1>5. w[1] = h.size /\ \A i \in 1 .. n : w[i + 1] = v[i]
  BY <1>1, <1>4
<1> HIDE DEF v, w
<1>6. Bytes(w) = w[1] + Bytes(v)
  BY <1>2, <1>3, <1>5, BytesInFront
<1> QED
  BY <1>2, <1>3, <1>5, <1>6

\* A datagram of IPv4 in a frame of Ethernet II.
Datagram(f, protocol, data) ==
    f = EthernetIIBytes(FALSE, 2048, IPv4Bytes(5, protocol, data))

LEMMA DatagramIs ==
    ASSUME NEW n \in Nat, NEW data, Row(data, n), NEW protocol,
           NEW f, Datagram(f, protocol, data)
    PROVE  /\ Row(f, n + 3) /\ ~f[1].own /\ f[1].high = 8 /\ f[1].low = 0
           /\ f[1].name = "L2SELECTION" /\ f[2].name = "ETHERNETII" /\ f[3].name = "IPV4"
           /\ f[3].protocol = protocol /\ f[3].words = 5 /\ f[3].total = 20 + Size(data)
           /\ \A i \in 1 .. n : f[i + 3] = data[i]
<1> DEFINE h1 == Ethernet(FALSE, 2048)
           h2 == [name |-> "ETHERNETII", size |-> 0]
           h3 == [name |-> "IPV4", size |-> 4 * 5, words |-> 5, protocol |-> protocol,
                  total |-> 4 * 5 + Size(data)]
           d3 == <<h3>> \o data
<1>1. f = <<h1, h2>> \o d3
  BY Zenon DEF Datagram, EthernetIIBytes, IPv4Bytes
<1>2. Row(d3, n + 1) /\ d3[1] = h3 /\ \A i \in 1 .. n : d3[i + 1] = data[i]
  <2>1. h3.size \in Nat
    OBVIOUS
  <2> HIDE DEF h3
  <2>2. Fronted(d3, h3, data)
    BY DEF Fronted
  <2> HIDE DEF d3
  <2> QED
    BY <2>1, <2>2, InFront
<1>3. h1.size \in Nat /\ ~h1.own /\ h1.high = 8 /\ h1.low = 0 /\ h1.name = "L2SELECTION"
  BY StructureSizes DEF Ethernet
<1>4. h2.size \in Nat /\ h2.name = "ETHERNETII"
  OBVIOUS
<1>5. /\ h3.name = "IPV4" /\ h3.protocol = protocol /\ h3.words = 5
      /\ h3.total = 20 + Size(data)
  OBVIOUS
<1> HIDE DEF h1, h2, h3, d3
<1>6. PICK T : d3 \in Seq(T)
  BY <1>2 DEF Row
<1>7. Len(d3) = n + 1
  BY <1>2 DEF Row
<1>8. /\ f \in Seq(T \cup {h1, h2}) /\ Len(f) = n + 3 /\ f[1] = h1 /\ f[2] = h2
      /\ \A i \in 1 .. n + 1 : f[i + 2] = d3[i]
  BY <1>1, <1>6, <1>7
<1>9. f[3] = h3 /\ \A i \in 1 .. n : f[i + 3] = data[i]
  <2>1. f[1 + 2] = d3[1]
    BY <1>8
  <2>2. ASSUME NEW i \in 1 .. n PROVE f[i + 3] = data[i]
    <3>1. i + 1 \in 1 .. n + 1 /\ i + 1 + 2 = i + 3
      OBVIOUS
    <3>2. f[i + 1 + 2] = d3[i + 1]
      BY <1>8, <3>1
    <3> QED
      BY <1>2, <3>1, <3>2
  <2> QED
    BY <1>2, <2>1, <2>2
<1>10. ASSUME NEW k \in 1 .. n + 3 PROVE f[k].size \in Nat
  <2>1. CASE k \in {1, 2}
    BY <1>3, <1>4, <1>8, <2>1
  <2>2. CASE k \notin {1, 2}
    <3>1. k - 2 \in 1 .. n + 1 /\ k - 2 + 2 = k
      BY <2>2
    <3>2. f[k] = d3[k - 2]
      BY <1>8, <3>1
    <3> QED
      BY <1>2, <3>1, <3>2 DEF Row
  <2> QED
    BY <2>1, <2>2
<1>11. Row(f, n + 3)
  BY <1>8, <1>10 DEF Row
<1> QED
  BY <1>3, <1>4, <1>5, <1>8, <1>9, <1>11

\* The bytes of the LLS data block behind an OSPF packet.
InBlock(data) == [k \in DOMAIN data |-> IF data[k].name \in {"OSPFLLSDATABLOCK", "OSPFLLSDATABLOCKTLV"}
                                        THEN data[k].size ELSE 0]

\* Length says less than is there when the data ends with such a block.
LEMMA PacketIs ==
    ASSUME NEW n \in Nat \ {0}, NEW data, Row(data, n), NEW type,
           data[n].name = "OSPFLLSDATABLOCKTLV", data[n].size > 0
    PROVE  LET s == OspfBytes(type, data)
           IN  /\ Row(s, n + 1) /\ s[1].name = "OSPF" /\ s[1].type = type
               /\ s[1].length = Bytes(OspfHeader) + Size(data) - Bytes(InBlock(data))
               /\ Size(s) - s[1].length > 0
               /\ \A i \in 1 .. n : s[i + 1] = data[i]
<1> DEFINE block == Bytes(InBlock(data))
           h == [name |-> "OSPF", size |-> Bytes(OspfHeader), type |-> type,
                 length |-> Bytes(OspfHeader) + Size(data) - block]
           s == OspfBytes(type, data)
<1>1. Fronted(s, h, data)
  BY Zenon DEF Fronted, OspfBytes, InBlock
<1>2. Bytes(OspfHeader) \in Nat
  BY StructureSizes
<1>3. block \in Nat \ {0}
  <2>1. DOMAIN data = 1 .. n
    BY DEF Row
  <2>2. n - 1 \in Nat /\ n - 1 + 1 = n
    OBVIOUS
  <2>3. \A k \in 1 .. n : data[k].size \in Nat
    BY DEF Row
  <2>4. InBlock(data) \in [1 .. n -> Nat] /\ InBlock(data)[n] = data[n].size
    BY <2>1, <2>3 DEF InBlock
  <2>5. InBlock(data) \in [1 .. n - 1 + 1 -> Nat] /\ InBlock(data)[n - 1 + 1] > 0
    BY <2>2, <2>4
  <2> QED
    BY <2>2, <2>5, BytesPositive
<1>4. Size(data) \in Nat
  BY SizeIs
<1>5. /\ h.name = "OSPF" /\ h.type = type /\ h.size = Bytes(OspfHeader)
      /\ h.length = Bytes(OspfHeader) + Size(data) - block
  OBVIOUS
<1> HIDE DEF s, h, block
<1>6. h.size \in Nat
  BY <1>2, <1>5
<1>7. Row(s, n + 1) /\ s[1] = h /\ \A i \in 1 .. n : s[i + 1] = data[i]
  BY <1>1, <1>6, InFront
<1>8. Size(s) = h.size + Size(data)
  BY <1>1, <1>6, SizeInFront
<1>9. Size(s) - s[1].length > 0
  BY <1>2, <1>3, <1>4, <1>5, <1>7, <1>8
<1>10. /\ Row(s, n + 1) /\ s[1].name = "OSPF" /\ s[1].type = type
       /\ s[1].length = Bytes(OspfHeader) + Size(data) - block
       /\ Size(s) - s[1].length > 0 /\ \A i \in 1 .. n : s[i + 1] = data[i]
  BY <1>5, <1>7, <1>9
<1> QED
  BY <1>10 DEF s, block

LEMMA BlockIs ==
    /\ Row(LlsBlock, 2)
    /\ LlsBlock[1].name = "OSPFLLSDATABLOCK" /\ LlsBlock[2].name = "OSPFLLSDATABLOCKTLV"
    /\ LlsBlock[2].size > 0
<1> DEFINE h == [name |-> "OSPFLLSDATABLOCK", size |-> Bytes(OspfLlsDataBlockHeader)]
           t == [name |-> "OSPFLLSDATABLOCKTLV", size |-> Bytes(OspfLlsDataBlockTlv) + 4]
<1>1. Bytes(OspfLlsDataBlockTlv) \in Nat
  <2>1. OspfLlsDataBlockTlv \in [1 .. 2 -> Nat] /\ 2 \in Nat
    BY DEF OspfLlsDataBlockTlv
  <2> QED
    BY <2>1, BytesNat
<1>2. h.size \in Nat /\ h.name = "OSPFLLSDATABLOCK"
  BY StructureSizes
<1>3. t.size \in Nat /\ t.size > 0 /\ t.name = "OSPFLLSDATABLOCKTLV"
  BY <1>1
<1>4. Fronted(LlsBlock, h, LlsTlvBytes)
  BY Zenon DEF Fronted, LlsBlock, LlsBlockBytes
<1>5. LlsTlvBytes = <<t>>
  BY DEF LlsTlvBytes
<1> HIDE DEF h, t
<1>6. Row(LlsTlvBytes, 1) /\ LlsTlvBytes[1] = t
  <2>1. LlsTlvBytes \in Seq({t}) /\ Len(LlsTlvBytes) = 1 /\ LlsTlvBytes[1] = t
    BY <1>5
  <2> QED
    BY <1>3, <2>1 DEF Row
<1>7. Row(LlsBlock, 1 + 1) /\ LlsBlock[1] = h /\ \A i \in 1 .. 1 : LlsBlock[i + 1] = LlsTlvBytes[i]
  BY <1>2, <1>4, <1>6, InFront
<1>8. LlsBlock[1 + 1] = LlsTlvBytes[1] /\ 1 + 1 = 2
  BY <1>7
<1> QED
  BY <1>2, <1>3, <1>6, <1>7, <1>8

\* What is asked of a frame, to be taken apart down to its last header.
Requested(f) == /\ Len(f) = 3 /\ f[1].low = 6 /\ f[3].name = "ARP" /\ f[3].operation = 1

Routed(f) ==
    /\ Len(f) = 5 /\ f[3].protocol = 17 /\ f[4].name = "UDP" /\ f[4].port = 520 /\ f[5].name = "RIP"

Pinged(f) ==
    /\ Len(f) = 5 /\ f[3].protocol = 1 /\ f[4].name = "ICMP" /\ f[4].type = 8
    /\ f[5].name = "ICMPECHO"

Greeted(f) ==
    /\ Len(f) = 7 /\ f[3].protocol = 89 /\ f[4].name = "OSPF" /\ f[4].type = 1
    /\ f[5].name = "OSPFHELLO" /\ f[5].lls /\ f[3].total - 4 * f[3].words - f[4].length > 0
    /\ f[6].name = "OSPFLLSDATABLOCK" /\ f[7].name = "OSPFLLSDATABLOCKTLV"

Described(f) ==
    /\ Len(f) >= 5 /\ f[3].protocol = 89 /\ f[4].name = "OSPF" /\ f[4].type = 2
    /\ f[5].name = "OSPFDBD"
    /\ \A k \in 6 .. Len(f) :
          f[k].name \in {"OSPFLSA", "OSPFLLSDATABLOCK", "OSPFLLSDATABLOCKTLV"}
    /\ (\E k \in 6 .. Len(f) : f[k].name = "OSPFLSA") => LsaHeaderCount(f[4]) > 0

Carried(f) == f[1].low = 0 /\ f[3].name = "IPV4"

Shaped(f) ==
    /\ Len(f) \in Nat /\ DOMAIN f = 1 .. Len(f)
    /\ ~f[1].own /\ f[1].high = 8 /\ f[1].name = "L2SELECTION" /\ f[2].name = "ETHERNETII"
    /\ \/ Requested(f)
       \/ Carried(f) /\ (Routed(f) \/ Pinged(f) \/ Greeted(f) \/ Described(f))

LEMMA RowIs ==
    ASSUME NEW n \in Nat, NEW f, Row(f, n)
    PROVE  Len(f) = n /\ Len(f) \in Nat /\ DOMAIN f = 1 .. n /\ DOMAIN f = 1 .. Len(f)
  BY DEF Row

LEMMA ArpShape == Shaped(SentArp) /\ Requested(SentArp)
<1> DEFINE h1 == Ethernet(FALSE, 2054)
           h2 == [name |-> "ETHERNETII", size |-> 0]
           h3 == [name |-> "ARP", size |-> Bytes(ArpHeader), operation |-> 1]
           f == <<h1, h2>> \o <<h3>>
<1>1. SentArp = f
  BY Zenon DEF SentArp, EthernetIIBytes, ArpBytes
<1>2. ~h1.own /\ h1.high = 8 /\ h1.low = 6 /\ h1.name = "L2SELECTION"
  BY DEF Ethernet
<1>3. h2.name = "ETHERNETII" /\ h3.name = "ARP" /\ h3.operation = 1
  OBVIOUS
<1> HIDE DEF h1, h2, h3
<1>4. Len(f) = 3 /\ f[1] = h1 /\ f[2] = h2 /\ f[3] = h3 /\ DOMAIN f = 1 .. 3
  OBVIOUS
<1> HIDE DEF f
<1> QED
  BY <1>1, <1>2, <1>3, <1>4 DEF Shaped, Requested

LEMMA RipShape ==
    ASSUME NEW n \in 0 .. 3
    PROVE  Shaped(SentRip(n)) /\ Carried(SentRip(n)) /\ Routed(SentRip(n))
<1> DEFINE h4 == [name |-> "UDP", size |-> Bytes(UdpHeader), port |-> 520,
                  length |-> Bytes(UdpHeader) + Size(RipBytes(n))]
           h5 == [name |-> "RIP", size |-> Bytes(RipPreambleHeader) + Bytes(RipDataHeader) * n]
           d == UdpBytes(520, RipBytes(n))
           f == SentRip(n)
<1>1. Datagram(f, 17, d)
  BY Zenon DEF Datagram, SentRip
<1>2. Fronted(d, h4, RipBytes(n))
  BY Zenon DEF Fronted, UdpBytes
<1>3. RipBytes(n) = <<h5>>
  BY DEF RipBytes
<1>4. h4.size \in Nat /\ h4.name = "UDP" /\ h4.port = 520
  BY StructureSizes
<1>5. h5.size \in Nat /\ h5.name = "RIP"
  <2>1. Bytes(RipPreambleHeader) \in Nat /\ Bytes(RipDataHeader) \in Nat
    BY StructureSizes
  <2>2. \A a, b \in Nat : a + b * n \in Nat
    OBVIOUS
  <2> QED
    BY <2>1, <2>2
<1> HIDE DEF h4, h5, d, f
<1>6. Row(RipBytes(n), 1) /\ RipBytes(n)[1] = h5
  <2>1. RipBytes(n) \in Seq({h5}) /\ Len(RipBytes(n)) = 1 /\ RipBytes(n)[1] = h5
    BY <1>3
  <2> QED
    BY <1>5, <2>1 DEF Row
<1>7. Row(d, 1 + 1) /\ d[1] = h4 /\ \A i \in 1 .. 1 : d[i + 1] = RipBytes(n)[i]
  BY <1>2, <1>4, <1>6, InFront
<1>8. Row(d, 2) /\ d[2] = h5
  <2>1. 1 + 1 = 2 /\ d[1 + 1] = RipBytes(n)[1]
    BY <1>7
  <2> QED
    BY <1>6, <1>7, <2>1
<1>9. /\ Row(f, 2 + 3) /\ ~f[1].own /\ f[1].high = 8 /\ f[1].low = 0
      /\ f[1].name = "L2SELECTION" /\ f[2].name = "ETHERNETII" /\ f[3].name = "IPV4"
      /\ f[3].protocol = 17 /\ \A i \in 1 .. 2 : f[i + 3] = d[i]
  BY <1>1, <1>8, DatagramIs
<1>10. f[1 + 3] = d[1] /\ f[2 + 3] = d[2] /\ 1 + 3 = 4 /\ 2 + 3 = 5
  BY <1>9
<1>11. Len(f) = 5 /\ DOMAIN f = 1 .. 5 /\ Len(f) \in Nat
  BY <1>9, <1>10, RowIs
<1>12. Carried(f) /\ Routed(f)
  BY <1>4, <1>5, <1>7, <1>8, <1>9, <1>10, <1>11 DEF Carried, Routed
<1>13. Shaped(f)
  BY <1>9, <1>11, <1>12 DEF Shaped
<1> QED
  BY <1>12, <1>13 DEF f

LEMMA EchoShape == Shaped(SentEcho) /\ Carried(SentEcho) /\ Pinged(SentEcho)
<1> DEFINE h4 == [name |-> "ICMP", size |-> Bytes(IcmpHeader), type |-> 8]
           h5 == [name |-> "ICMPECHO", size |-> Bytes(IcmpEchoHeader) + 32]
           d == IcmpBytes(8, IcmpEchoBytes)
           f == SentEcho
<1>1. Datagram(f, 1, d)
  BY Zenon DEF Datagram, SentEcho
<1>2. Fronted(d, h4, IcmpEchoBytes)
  BY Zenon DEF Fronted, IcmpBytes
<1>3. IcmpEchoBytes = <<h5>>
  BY DEF IcmpEchoBytes
<1>4. h4.size \in Nat /\ h4.name = "ICMP" /\ h4.type = 8
  BY StructureSizes
<1>5. h5.size \in Nat /\ h5.name = "ICMPECHO"
  <2>1. Bytes(IcmpEchoHeader) \in Nat
    BY StructureSizes
  <2> QED
    BY <2>1
<1> HIDE DEF h4, h5, d, f
<1>6. Row(IcmpEchoBytes, 1) /\ IcmpEchoBytes[1] = h5
  <2>1. IcmpEchoBytes \in Seq({h5}) /\ Len(IcmpEchoBytes) = 1 /\ IcmpEchoBytes[1] = h5
    BY <1>3
  <2> QED
    BY <1>5, <2>1 DEF Row
<1>7. Row(d, 1 + 1) /\ d[1] = h4 /\ \A i \in 1 .. 1 : d[i + 1] = IcmpEchoBytes[i]
  BY <1>2, <1>4, <1>6, InFront
<1>8. Row(d, 2) /\ d[2] = h5
  <2>1. 1 + 1 = 2 /\ d[1 + 1] = IcmpEchoBytes[1]
    BY <1>7
  <2> QED
    BY <1>6, <1>7, <2>1
<1>9. /\ Row(f, 2 + 3) /\ ~f[1].own /\ f[1].high = 8 /\ f[1].low = 0
      /\ f[1].name = "L2SELECTION" /\ f[2].name = "ETHERNETII" /\ f[3].name = "IPV4"
      /\ f[3].protocol = 1 /\ \A i \in 1 .. 2 : f[i + 3] = d[i]
  BY <1>1, <1>8, DatagramIs
<1>10. f[1 + 3] = d[1] /\ f[2 + 3] = d[2] /\ 1 + 3 = 4 /\ 2 + 3 = 5
  BY <1>9
<1>11. Len(f) = 5 /\ DOMAIN f = 1 .. 5 /\ Len(f) \in Nat
  BY <1>9, <1>10, RowIs
<1>12. Carried(f) /\ Pinged(f)
  BY <1>4, <1>5, <1>7, <1>8, <1>9, <1>10, <1>11 DEF Carried, Pinged
<1>13. Shaped(f)
  BY <1>9, <1>11, <1>12 DEF Shaped
<1> QED
  BY <1>12, <1>13 DEF f

LEMMA OspfIs ==
    ASSUME NEW n \in Nat \ {0}, NEW data, Row(data, n), NEW type,
           data[n].name = "OSPFLLSDATABLOCKTLV", data[n].size > 0,
           NEW f, Datagram(f, 89, OspfBytes(type, data))
    PROVE  /\ Len(f) = n + 4 /\ Len(f) \in Nat /\ DOMAIN f = 1 .. Len(f)
           /\ ~f[1].own /\ f[1].high = 8 /\ f[1].name = "L2SELECTION" /\ f[2].name = "ETHERNETII"
           /\ Carried(f) /\ f[3].protocol = 89 /\ f[4].name = "OSPF" /\ f[4].type = type
           /\ f[4].length = Bytes(OspfHeader) + Size(data) - Bytes(InBlock(data))
           /\ f[3].total - 4 * f[3].words - f[4].length > 0
           /\ \A i \in 1 .. n : f[i + 4] = data[i]
<1> DEFINE s == OspfBytes(type, data)
<1>1. /\ Row(s, n + 1) /\ s[1].name = "OSPF" /\ s[1].type = type
      /\ s[1].length = Bytes(OspfHeader) + Size(data) - Bytes(InBlock(data))
      /\ Size(s) - s[1].length > 0
      /\ \A i \in 1 .. n : s[i + 1] = data[i]
  BY PacketIs
<1>2. Datagram(f, 89, s) /\ n + 1 \in Nat
  OBVIOUS
<1> HIDE DEF s
<1>3. /\ Row(f, n + 1 + 3) /\ ~f[1].own /\ f[1].high = 8 /\ f[1].low = 0
      /\ f[1].name = "L2SELECTION" /\ f[2].name = "ETHERNETII" /\ f[3].name = "IPV4"
      /\ f[3].protocol = 89 /\ f[3].words = 5 /\ f[3].total = 20 + Size(s)
      /\ \A i \in 1 .. n + 1 : f[i + 3] = s[i]
  BY <1>1, <1>2, DatagramIs
<1>4. n + 1 + 3 = n + 4 /\ n + 4 \in Nat
  OBVIOUS
<1>5. Len(f) = n + 4 /\ Len(f) \in Nat /\ DOMAIN f = 1 .. Len(f)
  BY <1>3, <1>4, RowIs
<1>6. f[4] = s[1]
  <2>1. f[1 + 3] = s[1] /\ 1 + 3 = 4
    BY <1>3
  <2> QED
    BY <2>1
<1>7. ASSUME NEW i \in 1 .. n PROVE f[i + 4] = data[i]
  <2>1. i + 1 \in 1 .. n + 1 /\ i + 1 + 3 = i + 4
    OBVIOUS
  <2>2. f[i + 1 + 3] = s[i + 1]
    BY <1>3, <2>1
  <2> QED
    BY <1>1, <2>1, <2>2
<1>8. f[3].total - 4 * f[3].words - f[4].length > 0
  <2>1. Size(s) \in Nat
    BY <1>1, <1>2, SizeIs
  <2>2. s[1].length \in Int
    <3>1. Size(data) \in Nat /\ Bytes(OspfHeader) \in Nat
      BY SizeIs, StructureSizes
    <3>2. InBlock(data) \in [1 .. n -> Nat]
      BY DEF InBlock, Row
    <3>3. Bytes(InBlock(data)) \in Nat
      BY <3>2, BytesNat
    <3> QED
      BY <1>1, <3>1, <3>3
  <2>3. f[3].total - 4 * f[3].words - f[4].length = Size(s) - s[1].length
    BY <1>3, <1>6, <2>1, <2>2
  <2> QED
    BY <1>1, <2>3
<1> QED
  BY <1>1, <1>3, <1>5, <1>6, <1>7, <1>8 DEF Carried

LEMMA HelloShape ==
    ASSUME NEW n \in 0 .. 3
    PROVE  Shaped(SentHello(n)) /\ Carried(SentHello(n)) /\ Greeted(SentHello(n))
<1> DEFINE h == [name |-> "OSPFHELLO", size |-> Bytes(OspfHelloHeader) + IPAddress * n,
                 lls |-> TRUE]
           d == HelloBytes(n, TRUE, LlsBlock)
           f == SentHello(n)
<1>1. Datagram(f, 89, OspfBytes(1, d)) /\ Fronted(d, h, LlsBlock)
  BY Zenon DEF Datagram, Fronted, SentHello, HelloBytes
<1>2. h.size \in Nat /\ h.name = "OSPFHELLO" /\ h.lls
  <2>1. Bytes(OspfHelloHeader) \in Nat
    BY StructureSizes
  <2> QED
    BY <2>1 DEF IPAddress
<1> HIDE DEF h, d, f
<1>3. Row(d, 2 + 1) /\ d[1] = h /\ \A i \in 1 .. 2 : d[i + 1] = LlsBlock[i]
  BY <1>1, <1>2, BlockIs, InFront
<1>4. Row(d, 3) /\ d[2] = LlsBlock[1] /\ d[3] = LlsBlock[2]
  <2>1. 2 + 1 = 3 /\ 1 + 1 = 2 /\ d[1 + 1] = LlsBlock[1] /\ d[2 + 1] = LlsBlock[2]
    BY <1>3
  <2> QED
    BY <1>3, <2>1
<1> DEFINE m == 3
<1>5. /\ m \in Nat \ {0} /\ Row(d, m) /\ d[m].name = "OSPFLLSDATABLOCKTLV" /\ d[m].size > 0
      /\ Datagram(f, 89, OspfBytes(1, d))
  BY <1>1, <1>4, BlockIs
<1> HIDE DEF m
<1>6. /\ Len(f) = m + 4 /\ Len(f) \in Nat /\ DOMAIN f = 1 .. Len(f)
      /\ ~f[1].own /\ f[1].high = 8 /\ f[1].name = "L2SELECTION" /\ f[2].name = "ETHERNETII"
      /\ Carried(f) /\ f[3].protocol = 89 /\ f[4].name = "OSPF" /\ f[4].type = 1
      /\ f[3].total - 4 * f[3].words - f[4].length > 0
      /\ \A i \in 1 .. m : f[i + 4] = d[i]
  BY <1>5, OspfIs
<1> USE DEF m
<1>7. f[1 + 4] = d[1] /\ f[2 + 4] = d[2] /\ f[3 + 4] = d[3]
  BY <1>6
<1>8. Greeted(f)
  BY <1>2, <1>3, <1>4, <1>6, <1>7, BlockIs DEF Greeted
<1>9. Shaped(f)
  BY <1>6, <1>8 DEF Shaped
<1> QED
  BY <1>6, <1>8, <1>9 DEF f

\* The length of a DBD packet with the headers of n LSAs counts those.
LEMMA LsasAreCounted ==
    ASSUME NEW n \in Nat \ {0}, NEW data, Row(data, n + 3), NEW ospf,
           data[1].name = "OSPFDBD" /\ data[1].size = Bytes(OspfDbdHeader),
           \A i \in 1 .. n : data[i + 1].name = "OSPFLSA" /\ data[i + 1].size = Bytes(OspfLsaHeader),
           data[n + 2].name = "OSPFLLSDATABLOCK", data[n + 3].name = "OSPFLLSDATABLOCKTLV",
           ospf.length = Bytes(OspfHeader) + Size(data) - Bytes(InBlock(data))
    PROVE  LsaHeaderCount(ospf) > 0
<1> DEFINE v == [k \in DOMAIN data |-> data[k].size]
           w == InBlock(data)
           v2 == [k \in 1 .. n + 2 |-> v[k]]
           w2 == [k \in 1 .. n + 2 |-> w[k]]
           v1 == [k \in 1 .. n + 1 |-> v[k]]
           w1 == [k \in 1 .. n + 1 |-> w[k]]
           v0 == [k \in 1 .. n |-> v[k + 1]]
           u0 == [k \in 1 .. n - 1 |-> v0[k]]
<1>1. /\ n + 3 \in Nat /\ n + 2 \in Nat /\ n + 1 \in Nat /\ n \in Nat /\ n - 1 \in Nat
      /\ n + 2 + 1 = n + 3 /\ n + 1 + 1 = n + 2 /\ n - 1 + 1 = n
  OBVIOUS
<1>2. DOMAIN data = 1 .. n + 3 /\ \A k \in 1 .. n + 3 : data[k].size \in Nat
  BY DEF Row
<1>3. v \in [1 .. n + 3 -> Nat] /\ Size(data) = Bytes(v)
  BY <1>1, SizeIs
<1>4. w \in [1 .. n + 3 -> Nat]
  BY <1>2 DEF InBlock
<1>5. w[n + 3] = v[n + 3] /\ w[n + 2] = v[n + 2]
  <2>1. n + 3 \in DOMAIN data /\ n + 2 \in DOMAIN data
    BY <1>2
  <2> QED
    BY <2>1 DEF InBlock
<1>6. ASSUME NEW k \in 1 .. n + 1 PROVE w[k] = 0
  <2>1. k \in DOMAIN data
    BY <1>2
  <2>2. data[k].name \in {"OSPFDBD", "OSPFLSA"}
    <3>1. CASE k = 1
      BY <3>1
    <3>2. CASE k # 1
      <4>1. k - 1 \in 1 .. n /\ k - 1 + 1 = k
        BY <3>2
      <4>2. data[k - 1 + 1].name = "OSPFLSA"
        BY <4>1
      <4> QED
        BY <4>1, <4>2
    <3> QED
      BY <3>1, <3>2
  <2> QED
    BY <2>1, <2>2 DEF InBlock
<1>7. v[1] = Bytes(OspfDbdHeader) /\ v0[n] = Bytes(OspfLsaHeader)
  <2>1. 1 \in DOMAIN data /\ n + 1 \in DOMAIN data /\ n \in 1 .. n
    BY <1>2
  <2>2. data[n + 1].size = Bytes(OspfLsaHeader)
    BY <2>1
  <2> QED
    BY <2>1, <2>2
<1> HIDE DEF w
<1>8. /\ v2 \in [1 .. n + 2 -> Nat] /\ w2 \in [1 .. n + 2 -> Nat]
      /\ v1 \in [1 .. n + 1 -> Nat] /\ w1 \in [1 .. n + 1 -> Nat]
  <2> HIDE DEF v
  <2>1. \A k \in 1 .. n + 2 : v[k] \in Nat /\ w[k] \in Nat
    BY <1>3, <1>4
  <2>2. \A k \in 1 .. n + 1 : v[k] \in Nat /\ w[k] \in Nat
    BY <1>3, <1>4
  <2> QED
    BY <2>1, <2>2
<1>9. v0 \in [1 .. n -> Nat] /\ u0 \in [1 .. n - 1 -> Nat]
  <2> HIDE DEF v
  <2>1. \A k \in 1 .. n : v[k + 1] \in Nat
    BY <1>3
  <2> QED
    BY <2>1
<1>10. /\ \A i \in 1 .. n + 2 : v[i] = v2[i] /\ w[i] = w2[i]
       /\ \A i \in 1 .. n + 1 : v2[i] = v1[i] /\ w2[i] = w1[i]
       /\ v2[n + 2] = v[n + 2] /\ w2[n + 2] = w[n + 2]
  <2> HIDE DEF v
  <2>1. (\A i \in 1 .. n + 1 : i \in 1 .. n + 2) /\ n + 2 \in 1 .. n + 2
    OBVIOUS
  <2>2. \A i \in 1 .. n + 2 : v[i] = v2[i] /\ w[i] = w2[i]
    OBVIOUS
  <2>3. \A i \in 1 .. n + 1 : v[i] = v1[i] /\ w[i] = w1[i]
    OBVIOUS
  <2> HIDE DEF v1, v2, w1, w2
  <2> QED
    BY <2>1, <2>2, <2>3, Zenon
<1>11. /\ Bytes(v) = Bytes(v2) + v[n + 3] /\ Bytes(w) = Bytes(w2) + w[n + 3]
       /\ Bytes(v2) = Bytes(v1) + v[n + 2] /\ Bytes(w2) = Bytes(w1) + w[n + 2]
  <2> HIDE DEF v, v1, v2, w1, w2
  <2> DEFINE a == n + 1
             b == n + 2
             c == n + 3
  <2>1. a \in Nat /\ b \in Nat /\ c \in Nat /\ After(b, c) /\ After(a, b)
    BY <1>1 DEF After
  <2>2. RowOf(v, c) /\ RowOf(v2, b) /\ RowOf(v1, a)
    BY <1>3, <1>8, Zenon DEF RowOf
  <2>3. RowOf(w, c) /\ RowOf(w2, b) /\ RowOf(w1, a)
    BY <1>4, <1>8, Zenon DEF RowOf
  <2>4. Continues(v, v2, b) /\ Continues(v2, v1, a)
    BY <1>10, Zenon DEF Continues
  <2>5. Continues(w, w2, b) /\ Continues(w2, w1, a)
    BY <1>10, Zenon DEF Continues
  <2>6. v2[b] = v[b] /\ w2[b] = w[b]
    BY <1>10, Zenon
  <2> HIDE DEF a, b, c
  <2>7. Bytes(v) = Bytes(v2) + v[c] /\ Bytes(v2) = Bytes(v1) + v2[b]
    BY <2>1, <2>2, <2>4, BytesAndTwoLast
  <2>8. Bytes(w) = Bytes(w2) + w[c] /\ Bytes(w2) = Bytes(w1) + w2[b]
    BY <2>1, <2>3, <2>5, BytesAndTwoLast
  <2> QED
    BY <2>6, <2>7, <2>8, Zenon DEF b, c
<1>12. Bytes(w1) = 0
  <2>1. ASSUME NEW k \in 1 .. n + 1 PROVE w1[k] = 0
    BY <1>6, <2>1
  <2> HIDE DEF w1
  <2> QED
    BY <1>1, <1>8, <2>1, BytesOfZeros
<1>13. Bytes(v1) = v[1] + Bytes(v0)
  <2> HIDE DEF v
  <2>1. v1[1] = v[1] /\ \A i \in 1 .. n : v1[i + 1] = v0[i]
    OBVIOUS
  <2> HIDE DEF v1, v0
  <2>2. Bytes(v1) = v1[1] + Bytes(v0)
    BY <1>1, <1>8, <1>9, <2>1, BytesInFront
  <2> QED
    BY <2>1, <2>2
<1>14. Bytes(v0) = Bytes(u0) + v0[n] /\ Bytes(u0) \in Nat
  <2>1. DOMAIN v0 = 1 .. n - 1 + 1 /\ DOMAIN u0 = 1 .. n - 1 /\ \A i \in 1 .. n - 1 : v0[i] = u0[i]
    BY <1>1
  <2> HIDE DEF v, v0, u0
  <2>2. Bytes(v0) = Bytes(u0) + v0[n - 1 + 1]
    BY <1>1, <2>1, BytesOfMore
  <2>3. Bytes(u0) \in Nat
    BY <1>1, <1>9, BytesNat
  <2> QED
    BY <1>1, <2>2, <2>3
<1>15. v[n + 2] \in Nat /\ v[n + 3] \in Nat
  <2> HIDE DEF v
  <2> QED
    BY <1>3
<1>16. Bytes(OspfHeader) \in Nat /\ Bytes(OspfDbdHeader) \in Nat /\ Bytes(OspfLsaHeader) \in Nat \ {0}
  BY StructureSizes
<1> HIDE DEF v, v0, v1, v2, w1, w2, u0
<1>17. Size(data) - Bytes(w) = Bytes(OspfDbdHeader) + Bytes(u0) + Bytes(OspfLsaHeader)
  BY <1>3, <1>5, <1>7, <1>10, <1>11, <1>12, <1>13, <1>14, <1>15, <1>16
<1>18. Size(data) \in Nat /\ Bytes(w) \in Nat
  BY <1>1, <1>4, SizeIs, BytesNat
<1>19. ospf.length - Bytes(OspfHeader) - Bytes(OspfDbdHeader) = Bytes(u0) + Bytes(OspfLsaHeader)
  <2>1. ospf.length = Bytes(OspfHeader) + Size(data) - Bytes(w)
    BY DEF w
  <2> QED
    BY <1>14, <1>16, <1>17, <1>18, <2>1
<1>20. (Bytes(u0) + Bytes(OspfLsaHeader)) \div Bytes(OspfLsaHeader) > 0
  BY <1>14, <1>16, Divides
<1> QED
  BY <1>19, <1>20 DEF LsaHeaderCount

Description(d, n) == d = DbdBytes(n, TRUE, LlsBlock)

LEMMA DescriptionIs ==
    ASSUME NEW n \in 0 .. 3, NEW d, Description(d, n)
    PROVE  /\ Row(d, n + 3) /\ d[1].name = "OSPFDBD" /\ d[1].size = Bytes(OspfDbdHeader)
           /\ \A i \in 1 .. n : d[i + 1].name = "OSPFLSA" /\ d[i + 1].size = Bytes(OspfLsaHeader)
           /\ d[n + 2].name = "OSPFLLSDATABLOCK" /\ d[n + 3].name = "OSPFLLSDATABLOCKTLV"
           /\ d[n + 3].size > 0
<1> DEFINE h == [name |-> "OSPFDBD", size |-> Bytes(OspfDbdHeader), lls |-> TRUE]
           l == Head(LsaBytes(1))
           ls == [i \in 1 .. n |-> l]
<1>1. d = <<h>> \o ls \o LlsBlock
  BY Zenon DEF Description, DbdBytes
<1>2. h.name = "OSPFDBD" /\ h.size = Bytes(OspfDbdHeader) /\ h.size \in Nat
  BY StructureSizes
<1>3. l.name = "OSPFLSA" /\ l.size = Bytes(OspfLsaHeader) /\ l.size \in Nat
  <2>1. Bytes(OspfLsaHeader) \in Nat
    BY StructureSizes
  <2> QED
    BY <2>1 DEF LsaBytes
<1> HIDE DEF h, l
<1>4. Len(<<h>> \o ls) = n + 1 /\ <<h>> \o ls \in Seq({h, l}) /\ (<<h>> \o ls)[1] = h
      /\ \A i \in 1 .. n : (<<h>> \o ls)[i + 1] = l
  OBVIOUS
<1> DEFINE e == <<h>> \o ls
<1> HIDE DEF e
<1>5. PICK T : LlsBlock \in Seq(T)
  BY BlockIs DEF Row
<1>6. Len(LlsBlock) = 2
  BY BlockIs DEF Row
<1>7. /\ Len(e) = n + 1 /\ e \in Seq({h, l}) /\ e[1] = h
      /\ \A i \in 1 .. n : e[i + 1] = l
  BY <1>4 DEF e
<1>8. d = e \o LlsBlock
  BY <1>1 DEF e
<1>9. /\ Len(d) = n + 3 /\ d \in Seq({h, l} \cup T)
      /\ \A i \in 1 .. n + 1 : d[i] = e[i]
      /\ d[n + 2] = LlsBlock[1] /\ d[n + 3] = LlsBlock[2]
  <2>1. /\ Len(d) = Len(e) + Len(LlsBlock) /\ d \in Seq({h, l} \cup T)
        /\ \A i \in 1 .. Len(e) : d[i] = e[i]
        /\ \A i \in 1 .. Len(LlsBlock) : d[Len(e) + i] = LlsBlock[i]
    BY <1>5, <1>7, <1>8, Joined
  <2>2. \A i \in 1 .. 2 : d[n + 1 + i] = LlsBlock[i]
    BY <1>6, <1>7, <2>1
  <2>3. d[n + 1 + 1] = LlsBlock[1] /\ d[n + 1 + 2] = LlsBlock[2]
    BY <2>2
  <2>4. n + 1 + 1 = n + 2 /\ n + 1 + 2 = n + 3
    OBVIOUS
  <2>5. Len(d) = n + 3
    BY <1>6, <1>7, <2>1
  <2>6. \A i \in 1 .. n + 1 : d[i] = e[i]
    BY <1>7, <2>1
  <2> QED
    BY <2>1, <2>3, <2>4, <2>5, <2>6
<1>10. d[1] = h /\ \A i \in 1 .. n : d[i + 1] = l
  <2>1. 1 \in 1 .. n + 1 /\ \A i \in 1 .. n : i + 1 \in 1 .. n + 1
    OBVIOUS
  <2> QED
    BY <1>7, <1>9, <2>1
<1>11. ASSUME NEW k \in 1 .. n + 3 PROVE d[k].size \in Nat
  <2>1. LlsBlock[1].size \in Nat /\ LlsBlock[2].size \in Nat
    BY BlockIs DEF Row
  <2>2. CASE k = 1
    BY <1>2, <1>10, <2>2
  <2>3. CASE k \in 2 .. n + 1
    <3>1. k - 1 \in 1 .. n /\ k - 1 + 1 = k
      BY <2>3
    <3>2. d[k - 1 + 1] = l
      BY <1>10, <3>1
    <3> QED
      BY <1>3, <3>1, <3>2
  <2>4. CASE k = n + 2
    BY <1>9, <2>1, <2>4
  <2>5. CASE k = n + 3
    BY <1>9, <2>1, <2>5
  <2> QED
    BY <2>2, <2>3, <2>4, <2>5
<1>12. Row(d, n + 3)
  BY <1>9, <1>11 DEF Row
<1> QED
  BY <1>2, <1>3, <1>9, <1>10, <1>12, BlockIs

LEMMA DbdShape ==
    ASSUME NEW n \in 0 .. 3
    PROVE  Shaped(SentDbd(n)) /\ Carried(SentDbd(n)) /\ Described(SentDbd(n))
<1> DEFINE d == DbdBytes(n, TRUE, LlsBlock)
           f == SentDbd(n)
           m == n + 3
<1>1. Datagram(f, 89, OspfBytes(2, d))
  BY Zenon DEF Datagram, SentDbd
<1>2. /\ Row(d, n + 3) /\ d[1].name = "OSPFDBD" /\ d[1].size = Bytes(OspfDbdHeader)
      /\ \A i \in 1 .. n : d[i + 1].name = "OSPFLSA" /\ d[i + 1].size = Bytes(OspfLsaHeader)
      /\ d[n + 2].name = "OSPFLLSDATABLOCK" /\ d[n + 3].name = "OSPFLLSDATABLOCKTLV"
      /\ d[n + 3].size > 0
  <2> HIDE DEF d
  <2>1. Description(d, n)
    BY DEF d, Description
  <2> QED
    BY <2>1, DescriptionIs
<1> HIDE DEF d, f
<1>3. /\ m \in Nat \ {0} /\ Row(d, m) /\ d[m].name = "OSPFLLSDATABLOCKTLV" /\ d[m].size > 0
  BY <1>2
<1> HIDE DEF m
<1>4. /\ Len(f) = m + 4 /\ Len(f) \in Nat /\ DOMAIN f = 1 .. Len(f)
      /\ ~f[1].own /\ f[1].high = 8 /\ f[1].name = "L2SELECTION" /\ f[2].name = "ETHERNETII"
      /\ Carried(f) /\ f[3].protocol = 89 /\ f[4].name = "OSPF" /\ f[4].type = 2
      /\ f[4].length = Bytes(OspfHeader) + Size(d) - Bytes(InBlock(d))
      /\ \A i \in 1 .. m : f[i + 4] = d[i]
  BY <1>1, <1>3, OspfIs
<1>5. Len(f) = n + 7 /\ \A i \in 1 .. n + 3 : f[i + 4] = d[i]
  BY <1>4 DEF m
<1>6. f[5].name = "OSPFDBD"
  <2>1. 1 \in 1 .. n + 3 /\ f[1 + 4] = d[1] /\ 1 + 4 = 5
    BY <1>5
  <2> QED
    BY <1>2, <2>1
<1>7. ASSUME NEW k \in 6 .. Len(f)
      PROVE  /\ f[k].name \in {"OSPFLSA", "OSPFLLSDATABLOCK", "OSPFLLSDATABLOCKTLV"}
             /\ f[k].name = "OSPFLSA" => n > 0
  <2>1. k - 4 \in 1 .. n + 3 /\ k - 4 + 4 = k /\ k - 4 \in 2 .. n + 3
    BY <1>5
  <2>2. f[k] = d[k - 4]
    BY <1>5, <2>1
  <2>3. CASE k - 4 \in 2 .. n + 1
    <3>1. k - 5 \in 1 .. n /\ k - 5 + 1 = k - 4 /\ n > 0
      BY <2>3
    <3>2. d[k - 5 + 1].name = "OSPFLSA"
      BY <1>2, <3>1
    <3> QED
      BY <2>2, <3>1, <3>2
  <2>4. CASE k - 4 \in {n + 2, n + 3}
    BY <1>2, <2>2, <2>4
  <2> QED
    BY <2>1, <2>3, <2>4
<1>8. n > 0 => LsaHeaderCount(f[4]) > 0
  <2>1. SUFFICES ASSUME n \in Nat \ {0} PROVE LsaHeaderCount(f[4]) > 0
    OBVIOUS
  <2> QED
    BY <1>2, <1>4, <2>1, LsasAreCounted
<1>9. Described(f)
  BY <1>4, <1>5, <1>6, <1>7, <1>8 DEF Described
<1>10. Shaped(f)
  BY <1>4, <1>9 DEF Shaped
<1> QED
  BY <1>4, <1>9, <1>10 DEF f

\* Each frame of Built is one of those.
LEMMA BuiltIs ==
    ASSUME NEW f \in Built
    PROVE  /\ Shaped(f)
           /\ f = SentArp => Requested(f)
           /\ f # SentArp => Carried(f) /\ (Routed(f) \/ Pinged(f) \/ Greeted(f) \/ Described(f))
<1>1. \/ \E n \in 0 .. 3 : f = SentHello(n) \/ f = SentDbd(n) \/ f = SentRip(n)
      \/ f = SentArp \/ f = SentEcho
  BY Zenon DEF Built
<1>2. CASE f = SentArp
  BY <1>2, ArpShape
<1>3. CASE f = SentEcho
  BY <1>3, EchoShape, ArpShape DEF Requested, Carried
<1>4. CASE \E n \in 0 .. 3 : f = SentHello(n) \/ f = SentDbd(n) \/ f = SentRip(n)
  <2>1. PICK n \in 0 .. 3 : f = SentHello(n) \/ f = SentDbd(n) \/ f = SentRip(n)
    BY <1>4
  <2>2. /\ Shaped(f) /\ Carried(f) /\ (Routed(f) \/ Greeted(f) \/ Described(f))
    BY <2>1, HelloShape, DbdShape, RipShape
  <2>3. f # SentArp
    BY <2>2, ArpShape DEF Requested, Carried
  <2> QED
    BY <2>2, <2>3
<1> QED
  BY <1>1, <1>2, <1>3, <1>4

-----------------------------------------------------------------------------
(* The next header that is announced is found. *)

LEMMA HeadersOf ==
    ASSUME NEW f \in Built, NEW k \in DOMAIN f
    PROVE  /\ k = 1 => f[k].name = "L2SELECTION"
           /\ k = 2 => f[k].name = "ETHERNETII"
           /\ k = 3 => f[k].name = IF f = SentArp THEN "ARP" ELSE "IPV4"
           /\ k = 4 => f[k].name \in {"UDP", "ICMP", "OSPF"}
           /\ k = 5 => f[k].name \in {"RIP", "ICMPECHO", "OSPFHELLO", "OSPFDBD"}
           /\ k > 5 => f[k].name \in {"OSPFLSA", "OSPFLLSDATABLOCK", "OSPFLLSDATABLOCKTLV"}
           /\ k > 5 => f[5].name = "OSPFDBD" \/ (Greeted(f) /\ k \in {6, 7})
<1>1. Shaped(f) /\ (f = SentArp => Requested(f))
  BY BuiltIs
<1>2. f # SentArp => Carried(f) /\ (Routed(f) \/ Pinged(f) \/ Greeted(f) \/ Described(f))
  BY BuiltIs
<1>3. k \in 1 .. Len(f) /\ Len(f) \in Nat
  BY <1>1 DEF Shaped
<1>4. CASE f = SentArp
  BY <1>1, <1>3, <1>4 DEF Shaped, Requested
<1>5. CASE f # SentArp /\ Routed(f)
  BY <1>1, <1>2, <1>3, <1>5 DEF Shaped, Carried, Routed
<1>6. CASE f # SentArp /\ Pinged(f)
  BY <1>1, <1>2, <1>3, <1>6 DEF Shaped, Carried, Pinged
<1>7. CASE f # SentArp /\ Greeted(f)
  <2>1. k \in {1, 2, 3, 4, 5, 6, 7}
    BY <1>3, <1>7 DEF Greeted
  <2> QED
    BY <1>1, <1>2, <1>7, <2>1 DEF Shaped, Carried, Greeted
<1>8. CASE f # SentArp /\ Described(f)
  <2>1. k \in {1, 2, 3, 4, 5} \/ k \in 6 .. Len(f)
    BY <1>3
  <2> QED
    BY <1>1, <1>2, <1>8, <2>1 DEF Shaped, Carried, Described
<1> QED
  BY <1>2, <1>4, <1>5, <1>6, <1>7, <1>8

\* The converse of Checks: when CheckForNext says yes.
LEMMA Passes ==
    ASSUME NEW c, NEW st,
           \/ c \in {"L2SELECTION", "OSPFLLSDATABLOCKTLV"}
           \/ c = "ETHERNETII" /\ TypeOrLengthInt32(HeaderFor("L2SELECTION")) >= 1536
           \/ c \in DOMAIN LayerId /\ TypeOrLengthInt32(HeaderFor("L2SELECTION")) = LayerId[c]
           \/ c \in DOMAIN Protocol /\ Finds(st, "IPV4") /\ HeaderFor("IPV4").protocol = Protocol[c]
           \/ c \in DOMAIN DestinationPort /\ HeaderFor("UDP").port = DestinationPort[c]
           \/ c = "ICMPECHO" /\ HeaderFor("ICMP").type \in {0, 8}
           \/ c \in DOMAIN PacketType /\ HeaderFor("OSPF").type \in PacketType[c]
           \/ c = "OSPFLLSDATABLOCK" /\ LlsFits
    PROVE  CheckForNext(c, st)
<1> DEFINE own == TypeOrLengthInt32(HeaderFor("L2SELECTION"))
           any == c \in {"L2SELECTION", "OSPFLLSDATABLOCKTLV"}
           type == c = "ETHERNETII" /\ own >= 1536
           layer == c \in DOMAIN LayerId /\ own = LayerId[c]
           carried == /\ c \in DOMAIN Protocol /\ Finds(st, "IPV4")
                      /\ HeaderFor("IPV4").protocol = Protocol[c]
           port == c \in DOMAIN DestinationPort /\ HeaderFor("UDP").port = DestinationPort[c]
           echo == c = "ICMPECHO" /\ HeaderFor("ICMP").type \in {0, 8}
           packet == c \in DOMAIN PacketType /\ HeaderFor("OSPF").type \in PacketType[c]
           block == c = "OSPFLLSDATABLOCK" /\ LlsFits
<1>1. any => CheckForNext(c, st)
  BY DEF CheckForNext
<1>2. type => CheckForNext(c, st)
  <2> HIDE DEF type
  <2> QED
    BY SMT DEF CheckForNext, type
<1>3. layer => CheckForNext(c, st)
  <2> HIDE DEF layer
  <2> QED
    BY SMT DEF CheckForNext, layer
<1>4. carried => CheckForNext(c, st)
  <2> HIDE DEF carried
  <2> QED
    BY SMT DEF CheckForNext, carried
<1>5. port => CheckForNext(c, st)
  <2> HIDE DEF port
  <2> QED
    BY SMT DEF CheckForNext, port
<1>6. echo => CheckForNext(c, st)
  <2> HIDE DEF echo
  <2> QED
    BY SMT DEF CheckForNext, echo
<1>7. packet => CheckForNext(c, st)
  <2> HIDE DEF packet
  <2> QED
    BY SMT DEF CheckForNext, packet
<1>8. block => CheckForNext(c, st)
  <2> HIDE DEF block
  <2> QED
    BY SMT DEF CheckForNext, block
<1> QED
  BY <1>1, <1>2, <1>3, <1>4, <1>5, <1>6, <1>7, <1>8

LEMMA TypesOfBuilt ==
    ASSUME NEW h, h.high = 8
    PROVE  /\ h.low = 0 => TypeOrLengthInt32(h) = 2048
           /\ h.low = 6 => TypeOrLengthInt32(h) = 2054
<1>1. Digits(8) = 8 /\ Digits(0) = 0 /\ Digits(6) = 6
  BY DEF Digits
<1> HIDE DEF Digits
<1>2. h.low = 0 => TypeOrLengthInt32(h) = 8 * 256 + 0
  BY <1>1 DEF TypeOrLengthInt32
<1>3. h.low = 6 => TypeOrLengthInt32(h) = 8 * 256 + 6
  BY <1>1 DEF TypeOrLengthInt32
<1> QED
  BY <1>2, <1>3

\* The handler of IPv4 finds its own property.
LEMMA DatagramHolds ==
    ASSUME NEW st, Climbs(st), Len(st) = 4, st[4].name = "IPV4"
    PROVE  Holder(st, 4, "IPV4") = 4
<1> DEFINE w == [i \in 0 .. 4 |-> IF i = 4 THEN 4 ELSE 0]
           v == [i \in 0 .. 4 |-> IF i = 0 \/ st[i].name = "IPV4" THEN i
                                  ELSE w[st[i].parent]]
<1>0. DOMAIN st = 1 .. 4
  BY DEF Climbs
<1>1. ASSUME NEW i \in 1 .. 4
      PROVE  st[i].parent \in 0 .. i - 1 /\ (st[i].name = "IPV4" => i = 4)
  <2>1. i \in DOMAIN st
    BY <1>0
  <2>2. i \in 1 .. 9 /\ st[i].name \in Levels[i]
    BY <2>1, StackIs
  <2> QED
    BY <2>1, <2>2, ParentIs, LevelIs
<1>2. ASSUME NEW i \in 0 .. 4 PROVE w[i] = v[i]
  <2>1. CASE i = 0
    BY <2>1
  <2>2. CASE i = 4
    BY <2>2
  <2>3. CASE i # 0 /\ i # 4
    <3>1. i \in 1 .. 4 /\ \A j \in 0 .. i - 1 : j \in 0 .. 4 /\ j # 4
      BY <2>3
    <3>2. v[i] = w[st[i].parent] /\ st[i].parent \in 0 .. i - 1
      BY <1>1, <2>3, <3>1
    <3> QED
      BY <2>3, <3>1, <3>2
  <2> QED
    BY <2>1, <2>2, <2>3
<1>3. Walks(st, 4, "IPV4", w)
  <2>1. w = v
    BY <1>2
  <2> QED
    BY <2>1, Zenon DEF Walks
<1>4. PICK u : Walks(st, 4, "IPV4", u) /\ Holder(st, 4, "IPV4") = u[4]
  <2> HIDE DEF w, v
  <2> QED
    BY <1>3, HolderIs
<1> QED
  BY <1>4 DEF Walks

\* st is the stack when the n-th handler looks for the one of the n-th header,
\* which is not behind a DBD.
LEMMA NextSuits ==
    ASSUME frame \in Traffic, frame \in Built, NEW st, Climbs(st), Lies(frame, llsFirst, st),
           NEW n \in 1 .. 7, Height(st, n), n \in DOMAIN frame,
           n > 1 => InPlace(frame, st, n),
           n >= 6 => frame[5].name # "OSPFDBD"
    PROVE  st[n].name \in Parents[frame[n].name] /\ CheckForNext(frame[n].name, st)
<1> DEFINE c == frame[n].name
<1>1. DOMAIN st = 1 .. n /\ Len(st) = n /\ n \in DOMAIN st
  BY HeightIs DEF Height
<1>2. Shaped(frame) /\ (frame = SentArp => Requested(frame))
  BY BuiltIs
<1>3. frame # SentArp => /\ Carried(frame)
                         /\ Routed(frame) \/ Pinged(frame) \/ Greeted(frame) \/ Described(frame)
  BY BuiltIs
<1>4. n > 1 => /\ n - 1 \in DOMAIN frame /\ frame[n - 1].name = st[n].name
  BY DEF InPlace
<1>5. \A i \in 2 .. 6 : i <= n /\ i # 3 =>
         HeaderFor(frame[i - 1].name) = frame[i - 1] /\ frame[i - 1].name = st[i].name
  <2>1. SUFFICES ASSUME NEW i \in 2 .. 6, i <= n, i # 3
                 PROVE  HeaderFor(frame[i - 1].name) = frame[i - 1] /\ frame[i - 1].name = st[i].name
    OBVIOUS
  <2>2. i <= Len(st) /\ i \in 2 .. 8
    BY <1>1, <2>1
  <2>3. InPlace(frame, st, i)
    BY <2>1, <2>2, Straight
  <2>4. /\ HeaderFor(st[i].name) = frame[i - 1] /\ i - 1 \in DOMAIN frame
        /\ frame[i - 1].name = st[i].name
    BY <2>2, <2>3, HeaderOnStack
  <2> QED
    BY <2>4
<1>6. Len(frame) \in Nat /\ DOMAIN frame = 1 .. Len(frame)
  BY <1>2 DEF Shaped
<1>7. CASE n = 1
  <2>1. st[1].name = "ROOT"
    BY <1>1, <1>7 DEF Climbs, Levels
  <2>2. c = "L2SELECTION"
    BY <1>7, HeadersOf
  <2> QED
    BY <1>7, <2>1, <2>2, Passes DEF Parents
<1>8. CASE n = 2
  <2>1. HeaderFor("L2SELECTION") = frame[1] /\ st[2].name = "L2SELECTION"
    <3>1. 2 \in 2 .. 6 /\ 2 <= n /\ 2 # 3 /\ 2 - 1 = 1
      BY <1>8
    <3>2. HeaderFor(frame[2 - 1].name) = frame[2 - 1] /\ frame[2 - 1].name = st[2].name
      BY <1>5, <3>1
    <3>3. frame[1].name = "L2SELECTION"
      BY <1>2 DEF Shaped
    <3> QED
      BY <3>1, <3>2, <3>3
  <2>2. c = "ETHERNETII"
    BY <1>8, HeadersOf
  <2>3. TypeOrLengthInt32(frame[1]) \in {2048, 2054}
    <3>1. frame[1].high = 8 /\ frame[1].low \in {0, 6}
      BY <1>2, <1>3 DEF Shaped, Requested, Carried
    <3> QED
      BY <3>1, TypesOfBuilt
  <2>4. TypeOrLengthInt32(HeaderFor("L2SELECTION")) >= 1536
    BY <2>1, <2>3
  <2>5. CheckForNext("ETHERNETII", st)
    BY <2>4, Passes
  <2> QED
    BY <1>8, <2>1, <2>2, <2>5 DEF Parents
<1>9. CASE n = 3
  <2>1. HeaderFor("L2SELECTION") = frame[1]
    <3>1. 2 \in 2 .. 6 /\ 2 <= n /\ 2 # 3 /\ 2 - 1 = 1
      BY <1>9
    <3>2. HeaderFor(frame[2 - 1].name) = frame[2 - 1]
      BY <1>5, <3>1
    <3>3. frame[1].name = "L2SELECTION"
      BY <1>2 DEF Shaped
    <3> QED
      BY <3>1, <3>2, <3>3
  <2>2. st[3].name = "ETHERNETII"
    <3>1. frame[3 - 1].name = st[3].name /\ 3 - 1 = 2
      BY <1>4, <1>9
    <3> QED
      BY <1>2, <3>1 DEF Shaped
  <2>3. CASE frame = SentArp
    <3>1. c = "ARP"
      BY <1>9, <2>3, HeadersOf
    <3>2. frame[1].high = 8 /\ frame[1].low = 6
      BY <1>2, <2>3 DEF Shaped, Requested
    <3>3. TypeOrLengthInt32(frame[1]) = 2054
      BY <3>2, TypesOfBuilt
    <3>4. CheckForNext("ARP", st)
      BY <2>1, <3>3, Passes, Fields
    <3> QED
      BY <1>9, <2>2, <3>1, <3>4 DEF Parents
  <2>4. CASE frame # SentArp
    <3>1. c = "IPV4"
      BY <1>9, <2>4, HeadersOf
    <3>2. frame[1].high = 8 /\ frame[1].low = 0
      BY <1>2, <1>3, <2>4 DEF Shaped, Carried
    <3>3. TypeOrLengthInt32(frame[1]) = 2048
      BY <3>2, TypesOfBuilt
    <3>4. CheckForNext("IPV4", st)
      BY <2>1, <3>3, Passes, Fields
    <3> QED
      BY <1>9, <2>2, <3>1, <3>4 DEF Parents
  <2> QED
    BY <2>3, <2>4
<1>10. CASE n = 4
  <2>1. frame # SentArp
    BY <1>2, <1>6, <1>10 DEF Requested
  <2>2. frame[3].name = "IPV4"
    BY <1>3, <2>1 DEF Carried
  <2>3. HeaderFor("IPV4") = frame[3] /\ st[4].name = "IPV4"
    <3>1. 4 \in 2 .. 6 /\ 4 <= n /\ 4 # 3 /\ 4 - 1 = 3
      BY <1>10
    <3>2. HeaderFor(frame[4 - 1].name) = frame[4 - 1] /\ frame[4 - 1].name = st[4].name
      BY <1>5, <3>1
    <3> QED
      BY <2>2, <3>1, <3>2
  <2>4. Finds(st, "IPV4")
    <3>1. Holder(st, 4, "IPV4") = 4
      BY <1>1, <1>10, <2>3, DatagramHolds
    <3>2. st[4].set
      BY <1>1, <1>10, <2>3 DEF Climbs, Unset
    <3> QED
      BY <1>1, <1>10, <3>1, <3>2 DEF Finds
  <2>5. c \in DOMAIN Protocol /\ frame[3].protocol = Protocol[c] /\ c \in {"UDP", "ICMP", "OSPF"}
    BY <1>3, <1>10, <2>1 DEF Routed, Pinged, Greeted, Described, Protocol
  <2>6. CheckForNext(c, st)
    BY <2>3, <2>4, <2>5, Passes
  <2> QED
    BY <1>10, <2>3, <2>5, <2>6 DEF Parents
<1>11. CASE n = 5
  <2>1. frame # SentArp
    BY <1>2, <1>6, <1>11 DEF Requested
  <2>2. HeaderFor(frame[4].name) = frame[4] /\ frame[4].name = st[5].name
    <3>1. 5 \in 2 .. 6 /\ 5 <= n /\ 5 # 3 /\ 5 - 1 = 4
      BY <1>11
    <3>2. HeaderFor(frame[5 - 1].name) = frame[5 - 1] /\ frame[5 - 1].name = st[5].name
      BY <1>5, <3>1
    <3> QED
      BY <3>1, <3>2
  <2>3. CASE Routed(frame)
    <3>1. c = "RIP" /\ frame[4].name = "UDP" /\ frame[4].port = 520
      BY <1>11, <2>3 DEF Routed
    <3>2. "RIP" \in DOMAIN DestinationPort /\ DestinationPort["RIP"] = 520
      BY DEF DestinationPort
    <3>3. CheckForNext("RIP", st)
      BY <2>2, <3>1, <3>2, Passes
    <3> QED
      BY <1>11, <2>2, <3>1, <3>3 DEF Parents
  <2>4. CASE Pinged(frame)
    <3>1. c = "ICMPECHO" /\ frame[4].name = "ICMP" /\ frame[4].type = 8
      BY <1>11, <2>4 DEF Pinged
    <3>2. CheckForNext("ICMPECHO", st)
      BY <2>2, <3>1, Passes
    <3> QED
      BY <1>11, <2>2, <3>1, <3>2 DEF Parents
  <2>5. CASE Greeted(frame) \/ Described(frame)
    <3>1. /\ frame[4].name = "OSPF" /\ c \in DOMAIN PacketType
          /\ frame[4].type \in PacketType[c] /\ c \in {"OSPFHELLO", "OSPFDBD"}
      BY <1>11, <2>5 DEF Greeted, Described, PacketType
    <3>2. CheckForNext(c, st)
      BY <2>2, <3>1, Passes
    <3> QED
      BY <1>11, <2>2, <3>1, <3>2 DEF Parents
  <2> QED
    BY <1>3, <2>1, <2>3, <2>4, <2>5
<1>12. CASE n \in {6, 7}
  <2>1. Greeted(frame)
    BY <1>12, HeadersOf
  <2>2. CASE n = 6
    <3>1. /\ HeaderFor("IPV4") = frame[3] /\ HeaderFor("OSPF") = frame[4]
          /\ HeaderFor("OSPFHELLO") = frame[5] /\ st[6].name = "OSPFHELLO"
      <4>1. \A i \in {4, 5, 6} : i \in 2 .. 6 /\ i <= n /\ i # 3
        BY <2>2
      <4>2. frame[3].name = "IPV4" /\ frame[4].name = "OSPF" /\ frame[5].name = "OSPFHELLO"
        <5>1. frame # SentArp
          BY <1>2, <2>1 DEF Requested, Greeted
        <5> QED
          BY <1>3, <2>1, <5>1 DEF Greeted, Carried
      <4>3. \A i \in {4, 5, 6} : HeaderFor(frame[i - 1].name) = frame[i - 1]
                                 /\ frame[i - 1].name = st[i].name
        BY <1>5, <4>1
      <4>4. 4 - 1 = 3 /\ 5 - 1 = 4 /\ 6 - 1 = 5
        OBVIOUS
      <4>5. HeaderFor(frame[4 - 1].name) = frame[4 - 1] /\ HeaderFor(frame[5 - 1].name) = frame[5 - 1]
            /\ HeaderFor(frame[6 - 1].name) = frame[6 - 1] /\ frame[6 - 1].name = st[6].name
        BY <4>3
      <4> QED
        BY <4>2, <4>4, <4>5
    <3>2. "OSPFHELLO" \in Names(frame)
      <4>1. 5 \in DOMAIN frame /\ frame[5].name = "OSPFHELLO"
        BY <1>6, <2>1 DEF Greeted
      <4> QED
        BY <4>1 DEF Names
    <3>3. LlsFits
      BY <2>1, <3>1, <3>2 DEF LlsFits, Greeted
    <3>4. c = "OSPFLLSDATABLOCK"
      BY <2>1, <2>2 DEF Greeted
    <3>5. CheckForNext("OSPFLLSDATABLOCK", st)
      BY <3>3, Passes
    <3> QED
      BY <2>2, <3>1, <3>4, <3>5 DEF Parents
  <2>3. CASE n = 7
    <3>1. c = "OSPFLLSDATABLOCKTLV" /\ frame[6].name = "OSPFLLSDATABLOCK"
      BY <2>1, <2>3 DEF Greeted
    <3>2. frame[7 - 1].name = st[7].name /\ 7 - 1 = 6
      BY <1>4, <2>3
    <3>3. CheckForNext("OSPFLLSDATABLOCKTLV", st)
      BY Passes
    <3> QED
      BY <2>3, <3>1, <3>2, <3>3 DEF Parents
  <2> QED
    BY <1>12, <2>2, <2>3
<1>13. n \in {1, 2, 3, 4, 5, 6, 7}
  OBVIOUS
<1> QED
  BY <1>7, <1>8, <1>9, <1>10, <1>11, <1>12, <1>13

-----------------------------------------------------------------------------
(* The loop goes on to the last of these headers. *)

\* A frame that a router of this kind sent, and all handlers that it is for.
Wanted == frame \in Built /\ Names(frame) \subseteq Indexed

LEMMA NoneOf == ASSUME NEW S, S # {}, None \notin S PROVE FirstOf(S) # None
<1>1. (CHOOSE c \in S : TRUE) \in S
  <2>1. \E c \in S : TRUE
    OBVIOUS
  <2> QED
    BY <2>1, Zenon
<1>2. FirstOf(S) \in S
  BY <1>1 DEF FirstOf
<1> QED
  BY <1>2

\* GetNextHandler only ends the loop where no handler fits.
LEMMA NoEnd ==
    ASSUME NEW st, NEW n, Height(st, n), GetNextHandler(st), phase' = "tell"
    PROVE  \A d \in Indexed : st[n].name \in Parents[d] => ~CheckForNext(d, st)
<1> DEFINE tried == {c \in Indexed : st[n].name \in Parents[c]}
           fits == {c \in tried : CheckForNext(c, st)}
           next == FirstOf(fits)
<1>1. IF \E c \in tried \cap DOMAIN CounterOf : Counter(st, c).index = Null
      THEN Throws(st)
      ELSE IF next = None
      THEN Ends(st) /\ shared' = FALSE
      ELSE /\ following' = next
           /\ phase' = "parse"
           /\ shared' = (next \in DOMAIN CounterOf)
           /\ stack' = IF next \in DOMAIN CounterOf
                       THEN [st EXCEPT ![Holder(st, Len(st), CounterOf[next])].index = @ + 1]
                       ELSE st
           /\ UNCHANGED <<given, frame, teller, told>>
  <2>1. Len(st) = n
    BY DEF Height
  <2> QED
    BY <2>1, Zenon DEF GetNextHandler
<1>2. fits \subseteq Indexed
  OBVIOUS
<1>3. \A d \in Indexed : st[n].name \in Parents[d] /\ CheckForNext(d, st) => d \in fits
  OBVIOUS
<1> HIDE DEF tried, fits
<1>4. next = None
  <2>1. ~Throws(st)
    BY DEF Throws
  <2> HIDE DEF next
  <2> QED
    BY <1>1, <2>1
<1>5. fits = {}
  <2>1. None \notin fits
    BY <1>2, IndexedAre
  <2> QED
    BY <1>4, <2>1, NoneOf
<1> QED
  BY <1>3, <1>5

\* st is the stack when the n-th handler looks for the next one, and there is
\* an n-th header.
LEMMA GoesFurther ==
    ASSUME frame \in Traffic, Wanted, NEW st, NEW n \in 1 .. 7, NEW c, Rises(st, n, c),
           n \in DOMAIN frame, n > 1 => InPlace(frame, st, n),
           n >= 6 => frame[5].name # "OSPFDBD", GetNextHandler(st)
    PROVE  phase' # "tell"
<1>1. Climbs(st) /\ Lies(frame, llsFirst, st) /\ Height(st, n)
  BY DEF Rises, Good
<1>2. frame \in Built /\ frame[n].name \in Indexed
  BY DEF Wanted, Names
<1>3. st[n].name \in Parents[frame[n].name] /\ CheckForNext(frame[n].name, st)
  BY <1>1, <1>2, NextSuits
<1> QED
  BY <1>1, <1>2, <1>3, NoEnd

\* Which handlers look for a next one, and with what.
LooksFurther(c) ==
    /\ c = "ROOT" => GetNextHandler(Attached("ROOT", FALSE))
    /\ c = "L2SELECTION" => HeaderFor("L2SELECTION").own \/ GetNextHandler(Attached(c, TRUE))
    /\ c \in {"ETHERNETII", "IPV4", "UDP", "ICMP", "OSPF", "OSPFHELLO", "OSPFLLSDATABLOCK"} =>
          GetNextHandler(Attached(c, TRUE))
    /\ c = "OSPFDBD" => DeclareInteration(Attached("OSPFDBD", TRUE), "OSPF",
                                          LsaHeaderCount(HeaderFor("OSPF")))

LEMMA Looking ==
    ASSUME BeginStep, phase = "parse" PROVE LooksFurther(following)
<1>1. ASSUME NEW c, c \notin {"ROOT", "OSPFDBD"}, \E bytes : Reads(c, bytes)
      PROVE  LooksFurther(following)
  <2>1. following = c /\ GetNextHandler(Attached(c, TRUE))
    BY <1>1, Zenon DEF Reads, Turn
  <2> QED
    BY <1>1, <2>1 DEF LooksFurther
<1>2. ASSUME NEW c, c \in {"ICMPECHO", "IMAGE", "LDPMESSAGETLV", "OSPFLLSDATABLOCKTLV", "OSPFLSU",
                            "OSPFLSACK", "OSPFLSA", "OSPFLSAROUTE", "OSPFLSAROUTELINK", "TCP"},
             Turn(c)
      PROVE  LooksFurther(following)
  BY <1>2 DEF Turn, LooksFurther
<1>3. CASE Plain
  <2>1. \/ \E bytes : Reads("ETHERNETII", bytes) \/ Reads("IEEE8023", bytes) \/ Reads("STP", bytes)
        \/ \E bytes : Reads("CISCO", bytes) \/ Reads("ARP", bytes) \/ Reads("UDP", bytes)
        \/ \E bytes : Reads("ICMP", bytes) \/ Reads("LDP", bytes) \/ Reads("LDPMESSAGE", bytes)
        \/ \E bytes : Reads("OSPF", bytes) \/ Reads("OSPFLSR", bytes)
        \/ \E bytes : Reads("OSPFLSANETWORK", bytes) \/ Reads("OSPFLSASUMMARY", bytes)
        \/ \E bytes : Reads("OSPFLSAEXTERNAL", bytes) \/ Reads("OSPFLLSDATABLOCK", bytes)
    BY <1>3, Zenon DEF Plain, LoadHeader, ParseEthernetII, ParseIeee8023, ParseStp, ParseCisco,
       ParseArp, ParseUdp, ParseIcmp, ParseLdp, ParseLdpMessage, ParseOspf, ParseLsr,
       ParseLsaNetwork, ParseLsaSummary, ParseLsaExternal, ParseLlsBlock
  <2> QED
    BY <1>1, <2>1
<1>4. CASE ParseIPv4 \/ ParseHello \/ ParseRip
  <2>1. \E bytes : Reads("IPV4", bytes) \/ Reads("OSPFHELLO", bytes) \/ Reads("RIP", bytes)
    BY <1>4, Zenon DEF ParseIPv4, ParseHello, ParseRip
  <2> QED
    BY <1>1, <2>1
<1>5. CASE Ending
  <2>1. \/ Turn("ICMPECHO") \/ Turn("IMAGE") \/ Turn("OSPFLSACK") \/ Turn("LDPMESSAGETLV")
        \/ Turn("OSPFLLSDATABLOCKTLV")
    BY <1>5, Zenon DEF Ending, ParseIcmpEcho, ParseImage, ParseLsack, ParseLlsTlv, ParseLdpTlv,
       ParseTlv
  <2> QED
    BY <1>2, <2>1
<1>6. CASE ParseLsu \/ ParseLsa \/ ParseLsaRoute \/ ParseLsaRouteLink \/ ParseTcp
  <2>1. \/ Turn("OSPFLSU") \/ Turn("OSPFLSA") \/ Turn("OSPFLSAROUTE") \/ Turn("OSPFLSAROUTELINK")
        \/ Turn("TCP")
    BY <1>6, Zenon DEF ParseLsu, ParseLsa, ParseLsaRoute, ParseLsaRouteLink, ParseTcp
  <2> QED
    BY <1>2, <2>1
<1>7. CASE ParseRoot
  <2>1. following = "ROOT" /\ GetNextHandler(Attached("ROOT", FALSE))
    BY <1>7, Zenon DEF ParseRoot, Turn
  <2> QED
    BY <2>1 DEF LooksFurther
<1>8. CASE ParseDbd
  <2>1. /\ following = "OSPFDBD"
        /\ DeclareInteration(Attached("OSPFDBD", TRUE), "OSPF", LsaHeaderCount(HeaderFor("OSPF")))
    BY <1>8, Zenon DEF ParseDbd, Turn
  <2> QED
    BY <2>1 DEF LooksFurther
<1>9. CASE ParseL2Selection
  <2>1. /\ following = "L2SELECTION"
        /\ HeaderFor("L2SELECTION").own \/ GetNextHandler(Attached("L2SELECTION", TRUE))
    BY <1>9, Zenon DEF ParseL2Selection, Turn
  <2> QED
    BY <2>1 DEF LooksFurther
<1>10. ~TcpOption /\ ~OnSeriesCompleted /\ ~Returned
  <2>1. TcpOption => phase = "options"
    BY Zenon DEF TcpOption
  <2>2. OnSeriesCompleted => phase = "tell"
    BY Zenon DEF OnSeriesCompleted
  <2>3. Returned => phase = "tell"
    BY Zenon DEF Returned
  <2> QED
    BY <2>1, <2>2, <2>3
<1>11. ParseHeader \/ ParseTcp \/ ParseL2Selection
  BY <1>10, Zenon DEF BeginStep
<1>12. ParseHeader => \/ Plain \/ Ending \/ ParseRoot \/ ParseIPv4 \/ ParseHello \/ ParseRip
                      \/ ParseDbd \/ ParseLsu \/ ParseLsa \/ ParseLsaRoute \/ ParseLsaRouteLink
  BY Zenon DEF ParseHeader, Plain, Ending
<1> QED
  BY <1>3, <1>4, <1>5, <1>6, <1>7, <1>8, <1>9, <1>11, <1>12

\* One handler more is on the stack, or Begin returns at once.
LEMMA BeginTurns ==
    ASSUME PipeInv, BeginStep, phase = "parse", ~ParseTcp
    PROVE  phase' = "idle" \/ Turns
<1>1. ~TcpOption /\ ~OnSeriesCompleted /\ ~Returned
  <2>1. TcpOption => phase = "options"
    BY Zenon DEF TcpOption
  <2>2. OnSeriesCompleted => phase = "tell"
    BY Zenon DEF OnSeriesCompleted
  <2>3. Returned => phase = "tell"
    BY Zenon DEF Returned
  <2> QED
    BY <2>1, <2>2, <2>3
<1>2. ParseL2Selection \/ ParseHeader
  BY <1>1, Zenon DEF BeginStep
<1>3. CASE ParseHeader
  BY <1>3, HeaderTurns
<1>4. CASE ParseL2Selection /\ HeaderFor("L2SELECTION").own
  <2>1. Return
    BY <1>4, Zenon DEF ParseL2Selection
  <2> QED
    BY <2>1 DEF Return
<1>5. CASE ParseL2Selection /\ ~HeaderFor("L2SELECTION").own
  BY <1>5, L2Turns
<1> QED
  BY <1>2, <1>3, <1>4, <1>5

LEMMA DescribedIs ==
    ASSUME NEW f \in Built
    PROVE  /\ "OSPFDBD" \in Names(f) <=> 5 \in DOMAIN f /\ f[5].name = "OSPFDBD"
           /\ "OSPFDBD" \in Names(f) => f # SentArp /\ Carried(f) /\ Described(f)
           /\ "OSPFDBD" \notin Names(f) /\ f # SentArp =>
                 Carried(f) /\ (Routed(f) \/ Pinged(f) \/ Greeted(f))
<1>1. Shaped(f) /\ (f = SentArp => Requested(f))
  BY BuiltIs
<1>2. f # SentArp => Carried(f) /\ (Routed(f) \/ Pinged(f) \/ Greeted(f) \/ Described(f))
  BY BuiltIs
<1>3. Len(f) \in Nat /\ DOMAIN f = 1 .. Len(f)
  BY <1>1 DEF Shaped
<1>4. ASSUME "OSPFDBD" \in Names(f) PROVE 5 \in DOMAIN f /\ f[5].name = "OSPFDBD"
  <2>1. PICK k \in DOMAIN f : f[k].name = "OSPFDBD"
    BY <1>4 DEF Names
  <2>2. k \in Nat
    BY <1>3
  <2>3. k = 5
    <3>1. ~(k = 1) /\ ~(k = 2) /\ ~(k = 3) /\ ~(k = 4) /\ ~(k > 5)
      BY <2>1, HeadersOf
    <3>2. k \in 1 .. Len(f)
      BY <1>3
    <3> QED
      BY <1>3, <3>1, <3>2
  <2> QED
    BY <2>1, <2>3
<1>5. 5 \in DOMAIN f /\ f[5].name = "OSPFDBD" => "OSPFDBD" \in Names(f)
  BY DEF Names
<1>6. 5 \in DOMAIN f => Len(f) >= 5
  BY <1>3
<1>7. "OSPFDBD" \in Names(f) => f # SentArp /\ Described(f)
  <2>1. f = SentArp => Len(f) = 3
    BY <1>1 DEF Requested
  <2>2. f[5].name = "OSPFDBD" => ~Routed(f) /\ ~Pinged(f) /\ ~Greeted(f)
    BY DEF Routed, Pinged, Greeted
  <2> QED
    BY <1>2, <1>4, <1>6, <2>1, <2>2
<1>8. Described(f) => 5 \in DOMAIN f /\ f[5].name = "OSPFDBD"
  BY <1>3 DEF Described
<1> QED
  BY <1>2, <1>4, <1>5, <1>7, <1>8

\* Behind a DBD with LSA headers an LLS data block may be looked for where the
\* first of them is.
Gropes(n) == /\ n \in {7, 8} /\ "OSPFDBD" \in Names(frame) /\ "OSPFLSA" \in Names(frame)

\* Which header the next handler reads.
LEMMA WhereItReads ==
    ASSUME PipeInv, Wanted, NEW c, Turn(c)
    PROVE  \E n \in 1 .. 8 :
              /\ c \in Levels[n] /\ Height(stack, n - 1) /\ frame \in Traffic
              /\ n > 1 /\ ~Gropes(n) => n - 1 \in DOMAIN frame /\ frame[n - 1].name = c
              /\ \A set \in BOOLEAN : set \/ c \in Unset =>
                    /\ Rises(Attached(c, set), n, c)
                    /\ n > 1 /\ ~Gropes(n) => InPlace(frame, Attached(c, set), n)
<1>1. /\ frame \in Traffic
      /\ \E n \in 1 .. 9 :
            /\ c \in Levels[n] /\ Height(stack, n - 1)
            /\ \A set \in BOOLEAN : set \/ c \in Unset => Rises(Attached(c, set), n, c)
  BY Attaches
<1>2. PICK n \in 1 .. 9 :
            /\ c \in Levels[n] /\ Height(stack, n - 1)
            /\ \A set \in BOOLEAN : set \/ c \in Unset => Rises(Attached(c, set), n, c)
  BY <1>1
<1>3. frame \in Built
  BY DEF Wanted
<1>4. ASSUME NEW st, Rises(st, n, c), n > 1, ~Gropes(n) PROVE InPlace(frame, st, n)
  <2>1. Climbs(st) /\ Lies(frame, llsFirst, st) /\ Height(st, n)
    BY <1>4 DEF Rises, Good
  <2>2. n \in 2 .. Len(st) /\ DOMAIN st = 1 .. n
    <3>1. DOMAIN st = 1 .. n /\ Len(st) = n
      BY <2>1, HeightIs DEF Height
    <3> QED
      BY <1>4, <3>1
  <2>3. ~Misread(frame)
    <3>1. 2 \in DOMAIN frame => frame[2].name = "ETHERNETII"
      BY <1>3, HeadersOf
    <3> QED
      BY <3>1 DEF Misread
  <2>4. ~(n \in {7, 8} /\ BlockFirst(frame, llsFirst, st))
    <3>1. SUFFICES ASSUME n \in {7, 8}, BlockFirst(frame, llsFirst, st) PROVE FALSE
      OBVIOUS
    <3>2. 6 \in DOMAIN frame /\ frame[6].name = "OSPFLSA" /\ st[6].name = "OSPFDBD"
      BY <3>1 DEF BlockFirst
    <3>3. InPlace(frame, st, 6)
      <4>1. 6 \in 2 .. 6 /\ 6 # 3 /\ 6 <= Len(st)
        BY <2>2, <3>1
      <4> QED
        BY <2>1, <4>1, Straight
    <3>4. 6 - 1 \in DOMAIN frame /\ frame[6 - 1].name = "OSPFDBD"
      BY <3>2, <3>3 DEF InPlace
    <3> QED
      BY <1>4, <3>1, <3>2, <3>4 DEF Gropes, Names
  <2> QED
    BY <2>1, <2>2, <2>3, <2>4 DEF Lies, Astray
<1>5. \A set \in BOOLEAN : set \/ c \in Unset =>
          /\ Rises(Attached(c, set), n, c)
          /\ n > 1 /\ ~Gropes(n) => InPlace(frame, Attached(c, set), n)
  BY <1>2, <1>4
<1>6. n > 1 /\ ~Gropes(n) => n - 1 \in DOMAIN frame /\ frame[n - 1].name = c
  <2>1. TRUE \in BOOLEAN /\ (TRUE \/ c \in Unset)
    OBVIOUS
  <2>2. /\ Rises(Attached(c, TRUE), n, c)
        /\ n > 1 /\ ~Gropes(n) => InPlace(frame, Attached(c, TRUE), n)
    BY <1>5, <2>1
  <2>3. Attached(c, TRUE)[n].name = c
    BY <2>2 DEF Rises
  <2> QED
    BY <2>2, <2>3 DEF InPlace
<1>7. n # 9
  <2>1. SUFFICES ASSUME n = 9 PROVE FALSE
    OBVIOUS
  <2>2. c = "OSPFLSAROUTELINK"
    BY <1>2, <2>1 DEF Levels
  <2>3. 9 - 1 \in DOMAIN frame /\ frame[9 - 1].name = "OSPFLSAROUTELINK" /\ 9 - 1 > 5
    BY <1>6, <2>1, <2>2 DEF Gropes
  <2> QED
    BY <1>3, <2>3, HeadersOf
<1>8. n \in 1 .. 8
  BY <1>7
<1> QED
  BY <1>1, <1>2, <1>5, <1>6, <1>8

\* What is left of the frame when nothing more is looked for.
Whole(f, st) ==
    IF "OSPFDBD" \in Names(f)
    THEN Len(st) >= 6 /\ (Len(st) > 6) = ("OSPFLSA" \in Names(f))
    ELSE Len(st) = Len(f) + 1

\* A DBD is read on exactly if it has headers of LSAs.
LEMMA LsasAreLookedFor ==
    ASSUME PipeInv, Wanted, BeginStep, Turn("OSPFDBD")
    PROVE  /\ phase' = "parse" => "OSPFLSA" \in Names(frame)
           /\ phase' = "tell" => "OSPFLSA" \notin Names(frame)
<1> DEFINE st == Attached("OSPFDBD", TRUE)
           max == LsaHeaderCount(HeaderFor("OSPF"))
<1>1. phase = "parse" /\ DeclareInteration(st, "OSPF", max)
  <2>1. phase = "parse" /\ following = "OSPFDBD"
    BY DEF Turn
  <2>2. LooksFurther("OSPFDBD")
    BY <2>1, Looking
  <2> QED
    BY <2>1, <2>2 DEF LooksFurther
<1>2. frame \in Traffic /\ Rises(st, 6, "OSPFDBD")
  <2>1. "OSPFDBD" \in Levels[6] /\ 6 \in 1 .. 9
    BY DEF Levels
  <2>2. /\ frame \in Traffic
        /\ \A x \in BOOLEAN : x \/ "OSPFDBD" \in Unset => Rises(Attached("OSPFDBD", x), 6, "OSPFDBD")
    BY <2>1, RisesTo
  <2> QED
    BY <2>2
<1> HIDE DEF st
<1>3. /\ st[5].name = "OSPF" /\ HeaderFor("OSPF") = frame[4]
      /\ 5 \in DOMAIN frame /\ frame[5].name = "OSPFDBD"
  BY <1>2, UnderOspf
<1>4. frame \in Built /\ Described(frame) /\ Len(frame) \in Nat /\ DOMAIN frame = 1 .. Len(frame)
  <2>1. frame \in Built
    BY DEF Wanted
  <2>2. Shaped(frame)
    BY <2>1, BuiltIs
  <2> QED
    BY <1>3, <2>1, <2>2, DescribedIs DEF Shaped
<1>5. max > 0 => 6 \in DOMAIN frame /\ frame[6].name = "OSPFLSA"
  <2>1. SUFFICES ASSUME max > 0 PROVE 6 \in DOMAIN frame /\ frame[6].name = "OSPFLSA"
    OBVIOUS
  <2>2. LsaHeaderCount(frame[5 - 1]) > 0
    BY <1>3, <2>1
  <2>3. Announces(frame, 5, "OSPFLSA")
    BY <1>3, <2>2 DEF Announces
  <2>4. 5 + 1 \in DOMAIN frame /\ frame[5 + 1].name = "OSPFLSA"
    BY <1>2, <1>3, <2>3, Announced, HandlersAre
  <2> QED
    BY <2>4
<1>6. "OSPFLSA" \in Names(frame) => max > 0
  <2>1. SUFFICES ASSUME "OSPFLSA" \in Names(frame) PROVE max > 0
    OBVIOUS
  <2>2. PICK k \in DOMAIN frame : frame[k].name = "OSPFLSA"
    BY <2>1 DEF Names
  <2>3. k \in 6 .. Len(frame)
    <3>1. k \in 1 .. Len(frame)
      BY <1>4
    <3>2. ~(k = 1) /\ ~(k = 2) /\ ~(k = 3) /\ ~(k = 4) /\ ~(k = 5)
      BY <1>4, <2>2, HeadersOf
    <3> QED
      BY <1>4, <3>1, <3>2
  <2>4. LsaHeaderCount(frame[4]) > 0
    BY <1>4, <2>2, <2>3 DEF Described
  <2> QED
    BY <1>3, <2>4
<1>7. CASE max = 0
  <2>1. Ends(st)
    BY <1>1, <1>7, Zenon DEF DeclareInteration
  <2>2. phase' = "tell"
    BY <2>1 DEF Ends
  <2>3. ~(max > 0)
    BY <1>7
  <2> QED
    BY <1>6, <2>2, <2>3
<1>8. CASE max # 0
  <2>1. max > 0
    <3>1. max \in Nat
      BY <1>2, <1>3, CountNat
    <3> QED
      BY <1>8, <3>1
  <2>2. "OSPFLSA" \in Names(frame) /\ "OSPFLSA" \in Indexed
    <3>1. "OSPFLSA" \in Names(frame)
      BY <1>5, <2>1 DEF Names
    <3> QED
      BY <3>1 DEF Wanted
  <2>3. Declarer(st, 6, "OSPFDBD", "OSPF", 5) /\ Declared(6)
    BY <1>3, <1>5, <2>1 DEF Declarer, Declared
  <2>4. PICK s : /\ GetNextHandler(s) /\ Good(frame, llsFirst, s) /\ SameShape(st, s, 6)
                 /\ Height(s, 6) /\ s[5].index = 0 /\ s[5].max = max
    <3>1. max \in Nat \ {0} /\ 6 \in {6, 8}
      BY <1>2, <1>3, <1>8, CountNat
    <3> HIDE DEF max
    <3> QED
      BY <1>1, <1>2, <2>3, <3>1, Declares
  <2>5. Climbs(s) /\ s[6].name = "OSPFDBD" /\ s[5].name = "OSPF" /\ Len(s) = 6
    <3>1. st[6].name = "OSPFDBD"
      BY <1>2 DEF Rises
    <3> QED
      BY <1>3, <2>4, <3>1 DEF Good, SameShape, Height
  <2>6. Counter(s, "OSPFLSA").index < Counter(s, "OSPFLSA").max
    <3>1. Counter(s, "OSPFLSA") = [index |-> s[5].index, max |-> s[5].max]
      BY <2>5, CounterIs
    <3>2. s[5].index < s[5].max
      BY <2>1, <2>4
    <3> QED
      BY <3>1, <3>2
  <2>7. CheckForNext("OSPFLSA", s)
    <3>1. "OSPFLSA" \in DOMAIN CounterOf
      BY Repeating
    <3> QED
      BY <2>6, <3>1, Repeats
  <2>8. s[6].name \in Parents["OSPFLSA"]
    BY <2>5 DEF Parents
  <2>9. phase' # "tell"
    BY <2>2, <2>4, <2>7, <2>8, NoEnd
  <2> QED
    BY <2>2, <2>9
<1> QED
  BY <1>7, <1>8

\* A DBD without headers of LSAs is not read on.
ShortDbd ==
    phase = "parse" /\ Wanted /\ "OSPFDBD" \in Names(frame) /\ "OSPFLSA" \notin Names(frame)
        => Len(stack) <= 5

\* Handlers that ask for the next one, whatever they read.
Asking == {"ROOT", "ETHERNETII", "IPV4", "UDP", "ICMP", "OSPF", "OSPFHELLO", "OSPFLLSDATABLOCK"}

LEMMA Asks ==
    ASSUME NEW c, LooksFurther(c),
           c \in Asking \/ (c = "L2SELECTION" /\ ~HeaderFor("L2SELECTION").own)
    PROVE  \E set \in BOOLEAN : (set \/ c \in Unset) /\ GetNextHandler(Attached(c, set))
<1>1. CASE c = "ROOT"
  <2>1. GetNextHandler(Attached(c, FALSE)) /\ c \in Unset /\ FALSE \in BOOLEAN
    BY <1>1 DEF LooksFurther, Unset
  <2> QED
    BY <2>1
<1>2. CASE c # "ROOT"
  <2>1. GetNextHandler(Attached(c, TRUE)) /\ TRUE \in BOOLEAN
    BY <1>2 DEF LooksFurther, Asking
  <2> QED
    BY <2>1
<1> QED
  BY <1>1, <1>2

\* The handlers of such a frame that ask, and where they are.
LEMMA Askers ==
    ASSUME frame \in Traffic, frame \in Built, NEW n \in 1 .. 8, n \in DOMAIN frame,
           NEW c, c \in Levels[n], n > 1 => n - 1 \in DOMAIN frame /\ frame[n - 1].name = c,
           n <= 5 \/ "OSPFDBD" \notin Names(frame)
    PROVE  /\ c \in Asking \/ (c = "L2SELECTION" /\ ~HeaderFor("L2SELECTION").own)
           /\ n <= 7 /\ (n >= 6 => frame[5].name # "OSPFDBD")
<1>1. Shaped(frame) /\ (frame = SentArp => Requested(frame))
  BY BuiltIs
<1>2. Len(frame) \in Nat /\ DOMAIN frame = 1 .. Len(frame)
  BY <1>1 DEF Shaped
<1>3. CASE n = 1
  <2>1. c = "ROOT"
    BY <1>3 DEF Levels
  <2> QED
    BY <1>3, <2>1 DEF Asking
<1>4. CASE n = 2
  <2>1. 1 \in DOMAIN frame /\ frame[1].name = c /\ c = "L2SELECTION"
    <3>1. 2 - 1 \in DOMAIN frame /\ frame[2 - 1].name = c /\ 2 - 1 = 1
      BY <1>4
    <3> QED
      BY <1>1, <3>1 DEF Shaped
  <2>2. HeaderFor(frame[1].name) = frame[1]
    <3>1. \A j \in 1 .. 1 - 1 : frame[j].name # frame[1].name
      OBVIOUS
    <3> QED
      BY <2>1, <3>1, HeaderIs
  <2>3. ~HeaderFor("L2SELECTION").own
    BY <1>1, <2>1, <2>2 DEF Shaped
  <2> QED
    BY <1>4, <2>1, <2>3
<1>5. CASE n = 3
  <2>1. 2 \in DOMAIN frame /\ frame[2].name = c
    <3>1. 3 - 1 \in DOMAIN frame /\ frame[3 - 1].name = c /\ 3 - 1 = 2
      BY <1>5
    <3> QED
      BY <3>1
  <2>2. c = "ETHERNETII"
    BY <2>1, HeadersOf
  <2> QED
    BY <1>5, <2>2 DEF Asking
<1>6. CASE n = 4
  <2>1. 3 \in DOMAIN frame /\ frame[3].name = c
    <3>1. 4 - 1 \in DOMAIN frame /\ frame[4 - 1].name = c /\ 4 - 1 = 3
      BY <1>6
    <3> QED
      BY <3>1
  <2>2. frame # SentArp
    BY <1>1, <1>2, <1>6 DEF Requested
  <2>3. c = "IPV4"
    BY <2>1, <2>2, HeadersOf
  <2> QED
    BY <1>6, <2>3 DEF Asking
<1>7. CASE n = 5
  <2>1. 4 \in DOMAIN frame /\ frame[4].name = c
    <3>1. 5 - 1 \in DOMAIN frame /\ frame[5 - 1].name = c /\ 5 - 1 = 4
      BY <1>7
    <3> QED
      BY <3>1
  <2>2. c \in {"UDP", "ICMP", "OSPF"}
    BY <2>1, HeadersOf
  <2> QED
    BY <1>7, <2>2 DEF Asking
<1>8. CASE n \in {6, 7, 8}
  <2>1. "OSPFDBD" \notin Names(frame)
    BY <1>8
  <2>2. 5 \in DOMAIN frame
    BY <1>2, <1>8
  <2>3. frame[5].name # "OSPFDBD"
    BY <2>1, <2>2 DEF Names
  <2>4. Greeted(frame) /\ n \in {6, 7}
    <3>1. n > 5
      BY <1>8
    <3> QED
      BY <2>3, <3>1, HeadersOf
  <2>5. c \in Asking
    <3>1. CASE n = 6
      <4>1. frame[6 - 1].name = c /\ 6 - 1 = 5
        BY <3>1
      <4> QED
        BY <2>4, <4>1 DEF Greeted, Asking
    <3>2. CASE n = 7
      <4>1. frame[7 - 1].name = c /\ 7 - 1 = 6
        BY <3>2
      <4> QED
        BY <2>4, <4>1 DEF Greeted, Asking
    <3> QED
      BY <2>4, <3>1, <3>2
  <2> QED
    BY <2>3, <2>4, <2>5
<1>9. n \in {1, 2, 3, 4, 5, 6, 7, 8}
  OBVIOUS
<1> QED
  BY <1>3, <1>4, <1>5, <1>6, <1>7, <1>8, <1>9

\* The turn of the loop that takes the handler of such a frame.
LEMMA WantedTurns ==
    ASSUME PipeInv, Wanted, BeginStep, phase = "parse", phase' # "idle", NEW n,
           Height(stack, n - 1), n \in 1 .. 8,
           n > 1 /\ ~Gropes(n) => n - 1 \in DOMAIN frame /\ frame[n - 1].name = following,
           following \in Levels[n]
    PROVE  Turned(n) /\ Height(stack', n) /\ frame' = frame
<1>1. following # "TCP"
  <2>1. SUFFICES ASSUME following = "TCP" PROVE FALSE
    OBVIOUS
  <2>2. n = 5
    <3>1. n \in 1 .. 9
      OBVIOUS
    <3> QED
      BY <2>1, <3>1, LevelIs
  <2>3. 5 - 1 \in DOMAIN frame /\ frame[5 - 1].name = "TCP" /\ 5 - 1 = 4
    BY <2>1, <2>2 DEF Gropes
  <2>4. frame \in Built
    BY DEF Wanted
  <2>5. frame[4].name \in {"UDP", "ICMP", "OSPF"}
    BY <2>3, <2>4, HeadersOf
  <2> QED
    BY <2>3, <2>5
<1>2. Turns
  <2>1. ~ParseTcp
    BY <1>1, Zenon DEF ParseTcp, Turn
  <2> QED
    BY <2>1, BeginTurns
<1>3. PICK m \in 1 .. 9 : Height(stack, m - 1) /\ Turned(m)
  BY <1>2 DEF Turns
<1>4. m = n
  BY <1>3 DEF Height
<1> QED
  BY <1>3, <1>4 DEF Turned

LEMMA ReadsToTheEnd ==
    ASSUME PipeInv, ShortDbd, Wanted, BeginStep, phase = "parse", phase' = "tell"
    PROVE  Whole(frame, stack')
<1> DEFINE c == following
<1>1. Turn(c) /\ LooksFurther(c) /\ frame \in Built
  BY Looking DEF Turn, Wanted
<1>2. PICK n \in 1 .. 8 :
              /\ c \in Levels[n] /\ Height(stack, n - 1) /\ frame \in Traffic
              /\ n > 1 /\ ~Gropes(n) => n - 1 \in DOMAIN frame /\ frame[n - 1].name = c
              /\ \A set \in BOOLEAN : set \/ c \in Unset =>
                    /\ Rises(Attached(c, set), n, c)
                    /\ n > 1 /\ ~Gropes(n) => InPlace(frame, Attached(c, set), n)
  <2> HIDE DEF c
  <2> QED
    BY <1>1, WhereItReads
<1>3. Len(stack') = n
  <2>1. phase' # "idle"
    OBVIOUS
  <2> QED
    BY <1>2, <2>1, WantedTurns DEF Height
<1>4. Len(frame) \in Nat /\ DOMAIN frame = 1 .. Len(frame)
  BY <1>1, BuiltIs DEF Shaped
<1>5. CASE "OSPFDBD" \in Names(frame) /\ n >= 7
  <2>1. "OSPFLSA" \in Names(frame)
    <3>1. ~(Len(stack) <= 5)
      BY <1>2, <1>5 DEF Height
    <3> QED
      BY <1>5, <3>1 DEF ShortDbd
  <2> QED
    BY <1>3, <1>5, <2>1 DEF Whole
<1>6. CASE "OSPFDBD" \in Names(frame) /\ n = 6
  <2>1. frame[6 - 1].name = c /\ 6 - 1 = 5
    BY <1>2, <1>6 DEF Gropes
  <2>2. c = "OSPFDBD"
    BY <1>1, <1>6, <2>1, DescribedIs
  <2>3. "OSPFLSA" \notin Names(frame)
    BY <1>1, <2>2, LsasAreLookedFor
  <2> QED
    BY <1>3, <1>6, <2>3 DEF Whole
<1>7. CASE n <= 5 \/ "OSPFDBD" \notin Names(frame)
  <2>1. ~Gropes(n)
    BY <1>7 DEF Gropes
  <2>2. n \notin DOMAIN frame
    <3>1. SUFFICES ASSUME n \in DOMAIN frame PROVE FALSE
      OBVIOUS
    <3>2. /\ c \in Asking \/ (c = "L2SELECTION" /\ ~HeaderFor("L2SELECTION").own)
          /\ n <= 7 /\ (n >= 6 => frame[5].name # "OSPFDBD")
      <4> HIDE DEF c
      <4> QED
        BY <1>1, <1>2, <1>7, <2>1, <3>1, Askers
    <3>3. PICK set \in BOOLEAN : (set \/ c \in Unset) /\ GetNextHandler(Attached(c, set))
      <4> HIDE DEF c
      <4> QED
        BY <1>1, <3>2, Asks
    <3> DEFINE st == Attached(c, set)
    <3>4. Rises(st, n, c) /\ (n > 1 => InPlace(frame, st, n)) /\ GetNextHandler(st)
      BY <1>2, <2>1, <3>3
    <3>5. n \in 1 .. 7
      BY <3>2
    <3> HIDE DEF st, c
    <3>6. phase' # "tell"
      BY <1>2, <3>1, <3>2, <3>4, <3>5, GoesFurther
    <3> QED
      BY <3>6
  <2>3. n = Len(frame) + 1
    BY <1>2, <1>4, <2>1, <2>2
  <2>4. "OSPFDBD" \notin Names(frame)
    <3>1. SUFFICES ASSUME "OSPFDBD" \in Names(frame) PROVE FALSE
      OBVIOUS
    <3>2. 5 \in DOMAIN frame
      BY <1>1, <3>1, DescribedIs
    <3> QED
      BY <1>4, <1>7, <2>3, <3>1, <3>2
  <2> QED
    BY <1>3, <2>3, <2>4 DEF Whole
<1> QED
  BY <1>5, <1>6, <1>7

\* A DBD is read on only behind the sixth handler if it has LSA headers.
LEMMA ShortStays ==
    ASSUME PipeInv, ShortDbd, BeginStep, phase = "parse", phase' = "parse", Wanted
    PROVE  /\ frame' = frame
           /\ "OSPFDBD" \in Names(frame) /\ "OSPFLSA" \notin Names(frame) => Len(stack') <= 5
<1> DEFINE c == following
<1>1. Turn(c) /\ frame \in Built
  BY DEF Turn, Wanted
<1>2. PICK n \in 1 .. 8 :
              /\ c \in Levels[n] /\ Height(stack, n - 1) /\ frame \in Traffic
              /\ n > 1 /\ ~Gropes(n) => n - 1 \in DOMAIN frame /\ frame[n - 1].name = c
  <2> HIDE DEF c
  <2> QED
    BY <1>1, WhereItReads
<1>3. Len(stack') = n /\ frame' = frame
  <2>1. phase' # "idle"
    OBVIOUS
  <2> QED
    BY <1>2, <2>1, WantedTurns DEF Height
<1>4. ASSUME "OSPFDBD" \in Names(frame), "OSPFLSA" \notin Names(frame) PROVE n <= 5
  <2>1. n <= 6
    <3>1. Len(stack) <= 5
      BY <1>4 DEF ShortDbd
    <3> QED
      BY <1>2, <3>1 DEF Height
  <2>2. n # 6
    <3>1. SUFFICES ASSUME n = 6 PROVE FALSE
      OBVIOUS
    <3>2. frame[6 - 1].name = c /\ 6 - 1 = 5
      BY <1>2, <3>1 DEF Gropes
    <3>3. c = "OSPFDBD"
      BY <1>1, <1>4, <3>2, DescribedIs
    <3>4. "OSPFLSA" \in Names(frame)
      BY <1>1, <3>3, LsasAreLookedFor
    <3> QED
      BY <1>4, <3>4
  <2> QED
    BY <2>1, <2>2
<1> QED
  BY <1>3, <1>4

\* Nobody is told before the loop has ended, and the callbacks then start with
\* the last handler.
LEMMA LoopIsSilent ==
    ASSUME PipeInv, BeginStep, phase = "parse"
    PROVE  /\ told' = <<>>
           /\ phase' # "idle" => UNCHANGED <<given, frame>>
           /\ phase' = "tell" => teller' = Len(stack')
<1>1. told = <<>>
  BY DEF PipeInv, Parsing
<1>2. PipeInv'
  BY BeginKeeps
<1>3. CASE ParseTcp
  <2>1. UNCHANGED <<given, frame, told>>
    BY <1>3, Zenon DEF ParseTcp
  <2>2. phase' = "tell" => teller' = Len(stack')
    <3>1. phase' = "options" \/ teller' = Len(stack')
      BY <1>3, Zenon DEF ParseTcp
    <3> QED
      BY <3>1
  <2> QED
    BY <1>1, <2>1, <2>2
<1>4. CASE ~ParseTcp
  <2>1. phase' = "idle" \/ Turns
    BY <1>4, BeginTurns
  <2>2. CASE phase' = "idle"
    <3>1. told' = <<>>
      BY <1>2, <2>2 DEF PipeInv, Resting
    <3> QED
      BY <2>2, <3>1
  <2>3. CASE Turns
    <3>1. PICK n \in 1 .. 9 : Turned(n)
      BY <2>3 DEF Turns
    <3>2. UNCHANGED <<given, frame, told>> /\ Height(stack', n)
      BY <3>1 DEF Turned
    <3>3. phase' = "tell" => teller' = n
      BY <3>1 DEF Turned
    <3> QED
      BY <1>1, <3>2, <3>3 DEF Height
  <2> QED
    BY <2>1, <2>2, <2>3
<1> QED
  BY <1>3, <1>4

\* A frame of Built is read as far as it should be, and who has something to
\* tell tells it.
WholeRead == phase = "tell" /\ Wanted => Whole(frame, stack)

AllTell ==
    phase = "tell" /\ told = <<>> =>
        \A t \in DOMAIN stack : t > teller => ~Tells(stack[t].name)

ReadInv ==
    /\ ShortDbd
    /\ WholeRead
    /\ AllTell
    /\ told # <<>> => Tells(told[1].to)

LEMMA SameFrame ==
    ASSUME UNCHANGED <<given, frame>>
    PROVE  (Wanted' <=> Wanted) /\ \A name : Tells(name)' <=> Tells(name)
<1>1. Wanted' <=> Wanted
  BY DEF Wanted, Indexed, given
<1>2. \A name : Tells(name)' <=> Tells(name)
  BY DEF Tells, HeaderFor
<1> QED
  BY <1>1, <1>2

LEMMA ParsingReads ==
    ASSUME PipeInv, ReadInv, BeginStep, phase = "parse" PROVE ReadInv'
<1>1. /\ told' = <<>>
      /\ phase' # "idle" => UNCHANGED <<given, frame>>
      /\ phase' = "tell" => teller' = Len(stack')
  BY LoopIsSilent
<1>2. ShortDbd'
  <2>1. SUFFICES ASSUME phase' = "parse", Wanted', ("OSPFDBD" \in Names(frame))',
                        ("OSPFLSA" \notin Names(frame))'
                 PROVE  Len(stack') <= 5
    BY DEF ShortDbd
  <2>2. UNCHANGED <<given, frame>>
    BY <1>1, <2>1
  <2>3. Wanted /\ "OSPFDBD" \in Names(frame) /\ "OSPFLSA" \notin Names(frame)
    BY <2>1, <2>2, SameFrame
  <2> QED
    BY <2>1, <2>3, ShortStays DEF ReadInv
<1>3. WholeRead'
  <2>1. SUFFICES ASSUME phase' = "tell", Wanted' PROVE Whole(frame', stack')
    BY DEF WholeRead
  <2>2. UNCHANGED <<given, frame>>
    BY <1>1, <2>1
  <2>3. Wanted
    BY <2>1, <2>2, SameFrame
  <2>4. Whole(frame, stack')
    BY <2>1, <2>3, ReadsToTheEnd DEF ReadInv
  <2> QED
    BY <2>2, <2>4
<1>4. AllTell'
  <2>1. SUFFICES ASSUME phase' = "tell", NEW t \in DOMAIN stack', t > teller' PROVE FALSE
    BY DEF AllTell
  <2>2. Climbs(stack)'
    BY BeginKeeps DEF PipeInv, Good
  <2>3. t \in 1 .. Len(stack') /\ Len(stack') \in Nat
    BY <2>1, <2>2 DEF Climbs
  <2> QED
    BY <1>1, <2>1, <2>3
<1> QED
  BY <1>1, <1>2, <1>3, <1>4 DEF ReadInv

LEMMA OptionReads ==
    ASSUME PipeInv, ReadInv, TcpOption PROVE ReadInv'
<1>1. phase = "options" /\ told = <<>>
  <2>1. phase = "options"
    BY Zenon DEF TcpOption
  <2> QED
    BY <2>1 DEF PipeInv, Reading
<1>2. UNCHANGED <<given, frame, told, stack>> /\ phase' \in {"down", "options", "tell"}
  <2>1. UNCHANGED <<given, frame, told>>
    BY Zenon DEF TcpOption
  <2>2. UNCHANGED stack /\ (phase' = "down" \/ phase' = "options" \/ phase' = "tell")
    BY Zenon DEF TcpOption
  <2> QED
    BY <2>1, <2>2
<1>3. phase' = "tell" => teller' = Len(stack)
  <2> DEFINE kind == OptionKinds[taken + 1]
             size == OptionSize[kind]
             done == kind = "EOL" \/ optionsOffset + size = HeaderFor("TCP").size - 20
  <2>1. \/ phase' = "down"
        \/ phase' = (IF done THEN "tell" ELSE "options") /\ teller' = IF done THEN Len(stack) ELSE teller
    BY Zenon DEF TcpOption
  <2> HIDE DEF done
  <2> QED
    BY <2>1
<1>4. ~Wanted
  <2>1. SUFFICES ASSUME Wanted PROVE FALSE
    OBVIOUS
  <2>2. 4 \in DOMAIN frame /\ frame[4].name = "TCP"
    BY <1>1, KindIsTold
  <2>3. frame[4].name \in {"UDP", "ICMP", "OSPF"}
    BY <2>1, <2>2, HeadersOf DEF Wanted
  <2> QED
    BY <2>2, <2>3
<1>5. ~Wanted'
  BY <1>2, <1>4, SameFrame
<1>6. ShortDbd' /\ WholeRead'
  BY <1>5 DEF ShortDbd, WholeRead
<1>7. AllTell'
  <2>1. SUFFICES ASSUME phase' = "tell", NEW t \in DOMAIN stack', t > teller' PROVE FALSE
    BY DEF AllTell
  <2>2. t \in 1 .. Len(stack) /\ Len(stack) \in Nat
    BY <1>2, <2>1 DEF PipeInv, Good, Climbs
  <2> QED
    BY <1>3, <2>1, <2>2
<1> QED
  BY <1>1, <1>2, <1>6, <1>7 DEF ReadInv

LEMMA NotEmpty == ASSUME NEW S, NEW q \in Seq(S), NEW e PROVE Append(q, e) # <<>>
<1>1. Len(Append(q, e)) = Len(q) + 1 /\ Len(q) \in Nat
  OBVIOUS
<1>2. Len(<<>>) = 0
  OBVIOUS
<1>3. Len(q) + 1 # 0
  BY <1>1
<1> QED
  BY <1>1, <1>2, <1>3, Zenon

LEMMA TellingReads ==
    ASSUME PipeInv, ReadInv, OnSeriesCompleted PROVE ReadInv'
<1> DEFINE name == stack[teller].name
<1>1. /\ phase = "tell" /\ teller > 0 /\ teller' = teller - 1
      /\ UNCHANGED <<given, frame, stack>>
      /\ \/ ~Tells(name) /\ phase' = phase /\ told' = told
         \/ /\ Tells(name) /\ phase' = phase
            /\ told' = Append(told, [to |-> name, package |-> Package(stack, teller)])
         \/ phase' = "down" /\ told' = told
  <2>1. phase = "tell" /\ teller > 0 /\ teller' = teller - 1 /\ UNCHANGED <<given, frame, stack>>
    BY Zenon DEF OnSeriesCompleted
  <2>2. \/ ~Tells(name) /\ phase' = phase /\ told' = told
        \/ /\ Tells(name) /\ phase' = phase
           /\ told' = Append(told, [to |-> name, package |-> Package(stack, teller)])
        \/ phase' = "down" /\ told' = told
    BY Zenon DEF OnSeriesCompleted
  <2> QED
    BY <2>1, <2>2
<1> HIDE DEF name
<1>2. /\ Wanted' <=> Wanted
      /\ \A nm : Tells(nm)' <=> Tells(nm)
  BY <1>1, SameFrame
<1>3. ShortDbd'
  BY <1>1 DEF ShortDbd
<1>4. WholeRead'
  <2>1. SUFFICES ASSUME phase' = "tell", Wanted' PROVE Whole(frame', stack')
    BY DEF WholeRead
  <2>2. Whole(frame, stack)
    BY <1>1, <1>2, <2>1 DEF ReadInv, WholeRead
  <2> QED
    BY <1>1, <2>2
<1>5. told = <<>> \/ told = <<told[1]>>
  BY DEF PipeInv, Telling
<1>6. AllTell'
  <2>1. SUFFICES ASSUME phase' = "tell", told' = <<>>, NEW t \in DOMAIN stack', t > teller'
                 PROVE  ~(Tells(stack[t].name)')
    BY DEF AllTell
  <2>2. Append(told, [to |-> name, package |-> Package(stack, teller)]) # <<>>
    <3>1. <<>> \in Seq({told[1]}) /\ <<told[1]>> \in Seq({told[1]})
      OBVIOUS
    <3>2. told \in Seq({told[1]})
      BY <1>5, <3>1, Zenon
    <3> QED
      BY <3>2, NotEmpty, Zenon
  <2>3. ~Tells(name) /\ told = <<>>
    BY <1>1, <2>1, <2>2
  <2>4. t \in DOMAIN stack /\ t \in Nat /\ teller \in Nat
    <3>1. DOMAIN stack = 1 .. Len(stack)
      BY DEF PipeInv, Good, Climbs
    <3>2. teller \in 0 .. Len(stack)
      BY DEF PipeInv, Typed
    <3> QED
      BY <1>1, <2>1, <3>1, <3>2
  <2>5. t > teller \/ t = teller
    BY <1>1, <2>1, <2>4
  <2>6. ~Tells(stack[t].name)
    BY <1>1, <2>3, <2>4, <2>5 DEF ReadInv, AllTell, name
  <2>7. Tells(stack[t].name)' <=> Tells(stack[t].name)
    BY <1>1, <1>2
  <2> QED
    BY <2>6, <2>7
<1>7. told' # <<>> => Tells(told[1].to)'
  <2>1. CASE told' = told
    BY <1>2, <2>1 DEF ReadInv
  <2>2. CASE Tells(name) /\ told' = Append(told, [to |-> name, package |-> Package(stack, teller)])
    <3>1. CASE told = <<>>
      <4>1. told'[1].to = name
        BY <2>2, <3>1
      <4> QED
        BY <1>2, <2>2, <4>1
    <3>2. CASE told # <<>>
      <4>1. told = <<told[1]>>
        BY <1>5, <3>2
      <4>2. told'[1] = told[1]
        BY <2>2, <4>1
      <4> QED
        BY <1>2, <3>2, <4>2 DEF ReadInv
    <3> QED
      BY <3>1, <3>2
  <2> QED
    BY <1>1, <2>1, <2>2
<1> QED
  BY <1>3, <1>4, <1>6, <1>7 DEF ReadInv

LEMMA ReadingStarts ==
    ASSUME PipeInv, NEW f \in Traffic, Captured(f) PROVE ReadInv'
<1>1. phase = "idle" /\ phase' = "parse" /\ UNCHANGED <<stack, told>>
  BY Zenon DEF Captured
<1>2. stack = <<>> /\ told = <<>>
  BY <1>1 DEF PipeInv, Resting
<1>3. Len(stack') <= 5 /\ told' = <<>>
  BY <1>1, <1>2
<1> QED
  BY <1>1, <1>3 DEF ReadInv, ShortDbd, WholeRead, AllTell

LEMMA ReadsOnAndOn ==
    ASSUME PipeInv, ReadInv, BeginStep PROVE ReadInv'
<1>1. CASE phase = "parse"
  BY <1>1, ParsingReads
<1>2. CASE TcpOption
  BY <1>2, OptionReads
<1>3. CASE OnSeriesCompleted
  BY <1>3, TellingReads
<1>4. CASE Returned
  <2>1. phase' = "idle" /\ told' = <<>>
    BY <1>4, Zenon DEF Returned, Return
  <2> QED
    BY <2>1 DEF ReadInv, ShortDbd, WholeRead, AllTell
<1>5. phase = "parse" \/ TcpOption \/ OnSeriesCompleted \/ Returned
  <2>1. ParseL2Selection => phase = "parse"
    BY Zenon DEF ParseL2Selection, Turn
  <2>2. ParseTcp => phase = "parse"
    BY Zenon DEF ParseTcp, Turn
  <2>3. PipeInv /\ ParseHeader => Turns
    BY HeaderTurns
  <2>4. Turns => phase = "parse"
    BY DEF Turns
  <2> QED
    BY <2>1, <2>2, <2>3, <2>4, Zenon DEF BeginStep
<1> QED
  BY <1>1, <1>2, <1>3, <1>4, <1>5

LEMMA ReadStutter == ASSUME ReadInv, UNCHANGED pipeVars PROVE ReadInv'
<1>1. UNCHANGED <<given, frame>> /\ UNCHANGED <<phase, stack, teller, told>>
  BY DEF pipeVars, given
<1>2. /\ Wanted' <=> Wanted
      /\ \A name : Tells(name)' <=> Tells(name)
  BY <1>1, SameFrame
<1>3. ShortDbd'
  BY <1>1, <1>2 DEF ReadInv, ShortDbd
<1>4. WholeRead'
  BY <1>1, <1>2 DEF ReadInv, WholeRead
<1>5. AllTell'
  BY <1>1, <1>2 DEF ReadInv, AllTell
<1>6. told' # <<>> => Tells(told[1].to)'
  BY <1>1, <1>2 DEF ReadInv
<1> QED
  BY <1>3, <1>4, <1>5, <1>6 DEF ReadInv

\* Of a frame of Built each header is read by its handler, where it is read.
LEMMA NamesAreRead ==
    ASSUME NEW st, Climbs(st), Lies(frame, llsFirst, st), frame \in Built, Whole(frame, st)
    PROVE  /\ Len(st) \in 4 .. 9
           /\ \A i \in 2 .. Len(st) : i <= 6 \/ "OSPFDBD" \notin Names(frame) =>
                 InPlace(frame, st, i)
<1>1. Shaped(frame) /\ Len(frame) \in Nat /\ DOMAIN frame = 1 .. Len(frame)
  BY BuiltIs DEF Shaped
<1>2. Len(frame) >= 3
  BY <1>1 DEF Shaped, Requested, Routed, Pinged, Greeted, Described
<1>3. Len(st) \in 4 .. 9
  <2>1. Len(st) \in Nat /\ Len(st) <= 9
    BY DEF Climbs
  <2>2. Len(st) >= 6 \/ Len(st) = Len(frame) + 1
    BY DEF Whole
  <2> DEFINE n == Len(st)
             m == Len(frame)
  <2>3. n \in Nat /\ n <= 9 /\ m \in Nat /\ m >= 3 /\ (n >= 6 \/ n = m + 1)
    BY <1>1, <1>2, <2>1, <2>2
  <2> HIDE DEF n, m
  <2>4. n \in 4 .. 9
    BY <2>3
  <2> QED
    BY <2>4 DEF n
<1>4. ASSUME NEW i \in 2 .. Len(st), i <= 6 PROVE InPlace(frame, st, i)
  <2>1. i \in 2 .. 6 /\ i <= Len(st) /\ Len(st) # 3
    <3> DEFINE n == Len(st)
    <3>1. n \in 4 .. 9 /\ i \in 2 .. n /\ i <= 6
      BY <1>3, <1>4
    <3> HIDE DEF n
    <3>2. i \in 2 .. 6 /\ i <= n /\ n # 3
      BY <3>1
    <3> QED
      BY <3>2 DEF n
  <2> QED
    BY <2>1, Straight
<1>5. ASSUME NEW i \in 2 .. Len(st), i > 6, "OSPFDBD" \notin Names(frame)
      PROVE  InPlace(frame, st, i)
  <2>1. Len(frame) >= 6 /\ 5 \in DOMAIN frame /\ 6 \in DOMAIN frame
    <3>1. Len(st) = Len(frame) + 1
      BY <1>5 DEF Whole
    <3> QED
      BY <1>1, <1>3, <1>5, <3>1
  <2>2. frame[5].name # "OSPFDBD"
    BY <1>5, <2>1 DEF Names
  <2>3. Greeted(frame)
    BY <2>1, <2>2, HeadersOf
  <2>4. ~BlockFirst(frame, llsFirst, st)
    BY <2>3 DEF BlockFirst, Greeted
  <2>5. ~Astray(frame, llsFirst, st, i)
    BY <1>5, <2>4 DEF Astray
  <2> QED
    BY <2>5 DEF Lies
<1>6. \A i \in 2 .. Len(st) : i <= 6 \/ i > 6
  BY <1>3
<1> QED
  BY <1>3, <1>4, <1>5, <1>6

\* Of an ARP request nobody is told, of the other frames the module that the
\* fifth header is for.
LEMMA RightSubscriber ==
    ASSUME PipeInv, ReadInv, phase = "tell", teller = 0, Wanted
    PROVE  IF frame = SentArp THEN told = <<>>
           ELSE 5 \in DOMAIN frame /\ told = <<told[1]>> /\ told[1].to = frame[5].name
<1>1. frame \in Traffic /\ Climbs(stack) /\ Lies(frame, llsFirst, stack) /\ frame \in Built
  BY DEF PipeInv, Good, Wanted
<1>2. Whole(frame, stack)
  BY DEF ReadInv, WholeRead
<1>3. /\ Len(stack) \in 4 .. 9
      /\ \A i \in 2 .. Len(stack) : i <= 6 => InPlace(frame, stack, i)
  BY <1>1, <1>2, NamesAreRead
<1>4. DOMAIN stack = 1 .. Len(stack)
  BY <1>1 DEF Climbs
<1>5. told # <<>> =>
        \E t \in DOMAIN stack : /\ stack[t].name \in Tellers /\ told = <<told[1]>>
                                /\ told[1].to = stack[t].name
  BY DEF PipeInv, Telling
<1>6. Shaped(frame) /\ Len(frame) \in Nat /\ DOMAIN frame = 1 .. Len(frame)
  BY <1>1, BuiltIs DEF Shaped
<1>7. CASE frame = SentArp
  <2>1. SUFFICES ASSUME told # <<>> PROVE FALSE
    BY <1>7
  <2>2. PICK t \in DOMAIN stack : stack[t].name \in Tellers /\ told[1].to = stack[t].name
    BY <1>5, <2>1
  <2>3. Requested(frame)
    BY <1>1, <1>7, BuiltIs
  <2>4. Len(stack) = 4
    <3>1. 5 \notin DOMAIN frame
      BY <1>6, <2>3 DEF Requested
    <3>2. "OSPFDBD" \notin Names(frame)
      BY <1>1, <3>1, DescribedIs
    <3> QED
      BY <1>2, <2>3, <3>2 DEF Whole, Requested
  <2>5. t = 4
    <3>1. t = 6 \/ t = 4
      BY <1>1, <2>2, TellerIs
    <3> QED
      BY <1>4, <2>2, <2>4, <3>1
  <2>6. HeaderFor(stack[4].name) = frame[3] /\ frame[3].name = stack[4].name
    <3>1. 4 \in 2 .. 8 /\ 4 \in 2 .. Len(stack) /\ 4 <= Len(stack) /\ 4 - 1 = 3
      BY <2>4
    <3>2. InPlace(frame, stack, 4)
      BY <1>3, <3>1
    <3>3. HeaderFor(stack[4].name) = frame[4 - 1] /\ frame[4 - 1].name = stack[4].name
      BY <1>1, <3>1, <3>2, HeaderOnStack
    <3> QED
      BY <3>1, <3>3
  <2>7. stack[4].name = "ARP" /\ HeaderFor("ARP").operation = 1
    BY <2>3, <2>6 DEF Requested
  <2>8. Tells("ARP")
    BY <2>1, <2>2, <2>5, <2>7 DEF ReadInv
  <2> QED
    BY <2>7, <2>8 DEF Tells
<1>8. CASE frame # SentArp
  <2>1. 5 \in DOMAIN frame
    <3>1. Len(frame) >= 5
      BY <1>1, <1>8, BuiltIs DEF Routed, Pinged, Greeted, Described
    <3> QED
      BY <1>6, <3>1
  <2>2. frame[5].name \in {"RIP", "ICMPECHO", "OSPFHELLO", "OSPFDBD"}
    BY <1>1, <2>1, HeadersOf
  <2>3. 6 \in DOMAIN stack
    <3>1. Len(stack) >= 6
      <4>1. Len(frame) >= 5
        BY <1>6, <2>1
      <4> QED
        BY <1>2, <1>6, <4>1 DEF Whole
    <3> QED
      BY <1>3, <1>4, <3>1
  <2>4. stack[6].name = frame[5].name
    <3>1. 6 \in 2 .. Len(stack) /\ 6 <= 6 /\ 6 - 1 = 5
      BY <1>3, <1>4, <2>3
    <3>2. frame[6 - 1].name = stack[6].name
      BY <1>3, <3>1 DEF InPlace
    <3> QED
      BY <3>1, <3>2
  <2>5. Tells(stack[6].name)
    BY <2>2, <2>4 DEF Tells, Tellers
  <2>6. told # <<>>
    <3>1. 6 > teller
      OBVIOUS
    <3> QED
      BY <2>3, <2>5, <3>1 DEF ReadInv, AllTell
  <2>7. PICK t \in DOMAIN stack : /\ stack[t].name \in Tellers /\ told = <<told[1]>>
                                  /\ told[1].to = stack[t].name
    BY <1>5, <2>6
  <2>8. t = 6
    <3>1. t = 6 \/ (t = 4 /\ Len(stack) = 4)
      BY <1>1, <2>7, TellerIs
    <3> QED
      BY <1>4, <2>3, <3>1
  <2> QED
    BY <1>8, <2>1, <2>4, <2>7, <2>8
<1> QED
  BY <1>7, <1>8

LEMMA ReadAndTold == ASSUME PipeInv, ReadInv PROVE BuiltIsParsed
<1> DEFINE read == [i \in 1 .. Len(stack) - 1 |-> stack[i + 1].name]
           sent == [k \in DOMAIN frame |-> frame[k].name]
           subscribers == [i \in DOMAIN told |-> told[i].to]
<1>1. SUFFICES ASSUME phase = "tell", teller = 0, frame \in Built, Names(frame) \subseteq Indexed
      PROVE  /\ subscribers = IF frame = SentArp THEN <<>> ELSE <<sent[5]>>
             /\ IF "OSPFDBD" \in Names(frame)
                THEN /\ Len(read) >= 5 /\ \A k \in 1 .. 5 : read[k] = sent[k]
                     /\ (Len(read) > 5) = ("OSPFLSA" \in Names(frame))
                ELSE read = sent
  BY Zenon DEF BuiltIsParsed
<1>2. Wanted /\ Climbs(stack) /\ Lies(frame, llsFirst, stack)
  BY <1>1 DEF Wanted, PipeInv, Good
<1>3. Whole(frame, stack)
  BY <1>1, <1>2 DEF ReadInv, WholeRead
<1>4. /\ Len(stack) \in 4 .. 9
      /\ \A i \in 2 .. Len(stack) : i <= 6 \/ "OSPFDBD" \notin Names(frame) =>
            InPlace(frame, stack, i)
  BY <1>1, <1>2, <1>3, NamesAreRead
<1>5. Len(frame) \in Nat /\ DOMAIN frame = 1 .. Len(frame)
  BY <1>1, BuiltIs DEF Shaped
<1>6. subscribers = IF frame = SentArp THEN <<>> ELSE <<sent[5]>>
  <2>1. IF frame = SentArp THEN told = <<>>
        ELSE 5 \in DOMAIN frame /\ told = <<told[1]>> /\ told[1].to = frame[5].name
    BY <1>1, <1>2, RightSubscriber
  <2>2. CASE frame = SentArp
    BY <2>1, <2>2
  <2>3. CASE frame # SentArp
    <3>1. 5 \in DOMAIN frame /\ told = <<told[1]>> /\ told[1].to = frame[5].name
      BY <2>1, <2>3
    <3>2. subscribers = <<told[1].to>>
      BY <3>1
    <3>3. sent[5] = frame[5].name
      BY <3>1
    <3> HIDE DEF subscribers, sent
    <3> QED
      BY <2>3, <3>1, <3>2, <3>3
  <2> QED
    BY <2>2, <2>3
<1>7. ASSUME NEW k \in 1 .. Len(stack) - 1, k <= 5 \/ "OSPFDBD" \notin Names(frame)
      PROVE  k \in DOMAIN frame /\ read[k] = sent[k]
  <2>1. k + 1 \in 2 .. Len(stack) /\ (k <= 5 => k + 1 <= 6) /\ k + 1 - 1 = k
    BY <1>4
  <2>2. InPlace(frame, stack, k + 1)
    BY <1>4, <1>7, <2>1
  <2>3. k \in DOMAIN frame /\ frame[k].name = stack[k + 1].name
    <3>1. k + 1 - 1 \in DOMAIN frame /\ frame[k + 1 - 1].name = stack[k + 1].name
      BY <2>2 DEF InPlace
    <3> QED
      BY <2>1, <3>1
  <2> QED
    BY <2>3
<1>8. Len(read) = Len(stack) - 1 /\ DOMAIN read = 1 .. Len(stack) - 1
  BY <1>4
<1>9. CASE "OSPFDBD" \in Names(frame)
  <2>1. Len(stack) >= 6 /\ (Len(stack) > 6) = ("OSPFLSA" \in Names(frame))
    BY <1>3, <1>9 DEF Whole
  <2>2. \A k \in 1 .. 5 : read[k] = sent[k]
    <3> HIDE DEF read, sent
    <3> QED
      BY <1>4, <1>7, <2>1
  <2>3. Len(read) >= 5 /\ (Len(read) > 5) = (Len(stack) > 6)
    <3> HIDE DEF read
    <3> QED
      BY <1>4, <1>8, <2>1
  <2> HIDE DEF read, sent, subscribers
  <2> QED
    BY <1>6, <1>9, <2>1, <2>2, <2>3
<1>10. CASE "OSPFDBD" \notin Names(frame)
  <2>1. Len(stack) = Len(frame) + 1
    BY <1>3, <1>10 DEF Whole
  <2>2. DOMAIN sent = 1 .. Len(stack) - 1
    BY <1>5, <2>1
  <2>3. \A k \in 1 .. Len(stack) - 1 : read[k] = sent[k]
    BY <1>7, <1>10
  <2>4. read = [k \in 1 .. Len(stack) - 1 |-> read[k]] /\ sent = [k \in 1 .. Len(stack) - 1 |-> sent[k]]
    BY <1>5, <2>1
  <2> HIDE DEF read, sent, subscribers
  <2>5. read = sent
    BY <2>3, <2>4
  <2> QED
    BY <1>6, <1>10, <2>5
<1> QED
  BY <1>9, <1>10

\* BuiltIsParsed: what a router of this kind sends, another one of which the
\* handlers are configured takes apart down to the last header, and tells the
\* module that is there for it; behind OSPFDBD it reads on exactly if the packet
\* has LSA headers (GetBytes and Parse of the handlers, Interface.cs:309-327,
\* Neighbor.cs:350-373, RipModule.cs:188-235).
THEOREM BuiltIsRead == PipeSpec => []BuiltIsParsed
<1>1. PipeInit => PipeInv /\ ReadInv
  <2>1. PipeInit => PipeInv
    BY InitHolds
  <2>2. PipeInit => phase = "idle" /\ told = <<>>
    BY DEF PipeInit
  <2> QED
    BY <2>1, <2>2 DEF ReadInv, ShortDbd, WholeRead, AllTell
<1>2. PipeInv /\ ReadInv /\ [PipeNext]_pipeVars => PipeInv' /\ ReadInv'
  <2>1. SUFFICES ASSUME PipeInv, ReadInv, [PipeNext]_pipeVars PROVE PipeInv' /\ ReadInv'
    OBVIOUS
  <2>2. CASE \E f \in Traffic : Captured(f)
    BY <2>1, <2>2, CapturedKeeps, ReadingStarts
  <2>3. CASE BeginStep
    BY <2>1, <2>3, BeginKeeps, ReadsOnAndOn
  <2>4. CASE UNCHANGED pipeVars
    BY <2>1, <2>4, StutterKeeps, ReadStutter
  <2> QED
    BY <2>1, <2>2, <2>3, <2>4 DEF PipeNext
<1>3. PipeInv /\ ReadInv => BuiltIsParsed
  BY ReadAndTold
<1> QED
  BY <1>1, <1>2, <1>3, PTL DEF PipeSpec
=============================================================================
