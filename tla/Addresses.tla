----------------------------- MODULE Addresses -----------------------------
(***************************************************************************)
(* IP addresses (IPAddress.cs).  An address is the set of the bits that    *)
(* are one: bit 31 is the first bit of the first octet, bit 0 the last of  *)
(* the fourth.  & is then intersection, ~ the complement, and the order of *)
(* the numbers that GetUInt32 makes is decided by the highest bit in which *)
(* two addresses differ.                                                   *)
(***************************************************************************)
EXTENDS Naturals

Bits == 0 .. 31

(* IPAddress.From(p1, p2, p3, p4)                                          *)
From(p1, p2, p3, p4) ==
    LET octets == <<p1, p2, p3, p4>>
    IN  {b \in Bits : (octets[4 - b \div 8] \div 2 ^ (b % 8)) % 2 = 1}

NetworkAMask == 24 .. 31
NetworkBMask == 16 .. 31
NetworkCMask == 8 .. 31

FlipBits(a) == Bits \ a
GetNetwork(a, mask) == a \cap mask
IsSameNetwork(a, b, mask) == GetNetwork(a, mask) = GetNetwork(b, mask)

(* CompareTo, < and > on GetUInt32.                                        *)
Less(a, b) == \E i \in b \ a : \A j \in a \ b : j < i

(* What OrderBy(...).First() yields for a set of addresses.                *)
Lowest(S) == CHOOSE a \in S : \A b \in S : ~Less(b, a)

(* The tests of the leading bits, 0xE0, 0xC0 and 0x80, in that order.      *)
GetClass(a) ==
    CASE 29 .. 31 \subseteq a -> "D"
      [] 30 .. 31 \subseteq a /\ ~ 29 .. 31 \subseteq a -> "C"
      [] 31 \in a /\ 30 \notin a -> "B"
      [] OTHER -> "A"

(* The masks that GetInterfaceListForAddress gives the classes.            *)
OwnClassMask(a) ==
    CASE GetClass(a) = "A" -> NetworkAMask
      [] GetClass(a) = "B" -> NetworkBMask
      [] GetClass(a) = "C" -> NetworkCMask
      [] OTHER -> {}

(* The mask of every class but D is that of class A.                       *)
GetClassMask(a) == IF GetClass(a) = "D" THEN {} ELSE NetworkAMask

GetClassAddress(a) == GetNetwork(a, GetClassMask(a))
=============================================================================
