----------------------------- MODULE IpFragment -----------------------------
(***************************************************************************)
(* SystemModule.CreatePacketData: the payload of one datagram is cut into  *)
(* the fragments that AcceptHandoff then sends one by one.  One state is   *)
(* one turn of the while loop.  The bytes are left out; what counts is how *)
(* many there are and where in the payload they come from.                 *)
(*                                                                         *)
(* The header field InternetHeaderLength is four times the low half of     *)
(* VersionIHL, which Build of IPv4Handler sets to 4, so the room is worked *)
(* out with a header of 16 bytes although GetBytes writes 20.              *)
(***************************************************************************)
EXTENDS Integers, Sequences

CONSTANTS
    Lengths,    \* the payload lengths
    Mtu,        \* ipMtu, 1500
    Version     \* VersionIHL of the header that Build makes, 4

UShort == 65536

(* What the header on the wire says and what the loop calculates with.     *)
headerLength == Version * 5
InternetHeaderLength == (Version % 16) * 4

(* A bug a change could bring in: the room is not rounded to eights.       *)
CutUnrounded == Mtu - InternetHeaderLength

(* The largest multiple of eight that is left for a fragment.              *)
copyCount == ((Mtu - InternetHeaderLength) \div 8) * 8

ASSUME IpFragmentAssumption ==
    /\ Version \in 0 .. 15
    /\ Mtu \in Nat
    /\ Mtu - InternetHeaderLength >= 8
    /\ Lengths \subseteq Nat

VARIABLES
    total,      \* totalTransmitCount
    remaining,  \* remainingData.Count
    fragmentOffset,
    list        \* fragments: from (where the bytes start), size, offset, more, length

fvars == <<total, remaining, fragmentOffset, list>>

FInit ==
    /\ total \in Lengths
    /\ remaining = total
    /\ fragmentOffset = 0
    /\ list = <<>>

(* A bug a change could bring in: the offset is not shifted.               *)
OffsetInBytes(size, more) ==
    [from   |-> total - remaining, size |-> size, offset |-> fragmentOffset,
     more   |-> more, length |-> (headerLength + size) % UShort]

(* offset is in units of eight bytes; length is TotalLength.               *)
Fragment(size, more) ==
    [from   |-> total - remaining,
     size   |-> size,
     offset |-> fragmentOffset \div 8,
     more   |-> more,
     length |-> (headerLength + size) % UShort]

TooLong == remaining + headerLength > Mtu

CutFragment ==
    /\ remaining > 0
    /\ TooLong
    /\ remaining >= copyCount         \* GetRange throws otherwise
    /\ list' = Append(list, Fragment(copyCount, TRUE))
    /\ fragmentOffset' = (fragmentOffset + copyCount) % UShort
    /\ remaining' = remaining - copyCount
    /\ UNCHANGED total

LastFragment ==
    /\ remaining > 0
    /\ ~TooLong
    /\ list' = Append(list, Fragment(remaining, FALSE))
    /\ remaining' = 0
    /\ UNCHANGED <<total, fragmentOffset>>

FNext == CutFragment \/ LastFragment

FSpec == FInit /\ [][FNext]_fvars
-----------------------------------------------------------------------------
FTypeOK ==
    /\ total \in Lengths
    /\ remaining \in 0 .. total
    /\ fragmentOffset \in 0 .. UShort - 1
    /\ list \in Seq([from : Nat, size : Nat, offset : Nat, more : BOOLEAN,
                     length : 0 .. UShort - 1])

(* Every fragment fits the MTU with the header that is really written, and *)
(* its TotalLength says how long it is.  The room is worked out with the   *)
(* wrong header length; it is the rounding to eight that makes up for it   *)
(* (SystemModule.cs:167-172).                                              *)
FragmentsFit ==
    \A i \in DOMAIN list :
        list[i].length = headerLength + list[i].size /\ list[i].length <= Mtu

(* What a receiver that goes by the offsets puts together is the payload:  *)
(* as long as the offsets, in thirteen bits of eights, reach it, each      *)
(* fragment says where its bytes come from (SystemModule.cs:174-187).      *)
OffsetsTellThePlace ==
    total <= UShort => \A i \in DOMAIN list : list[i].offset * 8 = list[i].from

(* Every fragment arrives, and where it belongs.                           *)
EveryFragmentIsPlaced == FragmentsFit /\ OffsetsTellThePlace
=============================================================================
