----------------------------- MODULE NodeBinding -----------------------------
(***************************************************************************)
(* The controller written for Node.js, netinterop_run.js, which sees the   *)
(* lists of the bridge through netinterop.cc, beside the one of Startup,   *)
(* which sees them as they are.                                            *)
(*                                                                         *)
(* The binding hands out objects whose values are all strings.  The script *)
(* keeps a list of devices and does nothing with it yet: opening them and  *)
(* the modules are comments there.                                         *)
(*                                                                         *)
(* External: in JavaScript every string but the empty one counts as true.  *)
(***************************************************************************)
EXTENDS Startup, Integers

Truthy(string) == string # ""

(* Boolean.ToString.                                                       *)
BooleanText(boolean) == IF boolean THEN "True" ELSE "False"

(* A bug a change could bring in: the adapters without a description are   *)
(* numbered here too.                                                      *)
EveryAdapter == {[index |-> i - 1, id |-> setup.pcap[i].id] : i \in DOMAIN setup.pcap}

(* GetDeviceIndexDictionary of the binding: the names and their numbers.   *)
DeviceIndexDictionary == {[index |-> Number(i), id |-> setup.pcap[i].id] : i \in Described}

(* The bridge marks the first address of an adapter, the binding writes    *)
(* the mark out.                                                           *)
IsPrimary(i) == BooleanText(i = 1)

(* GetDeviceDictionary of the binding: the addresses of an adapter.        *)
AddressList(a) ==
    [i \in DOMAIN a.addresses |-> [address |-> a.addresses[i], isPrimary |-> IsPrimary(i)]]

(* That of the first entry with the name, or -1.                           *)
GetDeviceIndexByID(id) ==
    LET numbers == {entry.index : entry \in {e \in DeviceIndexDictionary : e.id = id}}
    IN  IF numbers = {} THEN -1 ELSE CHOOSE n \in numbers : \A m \in numbers : n <= m

(* Only the first entry is looked at.                                      *)
GetPrimaryIPConfiguration(list) ==
    IF Truthy(list[1].isPrimary) THEN {list[1].address} ELSE {}

GetSecondaryIPConfigurationList(list) ==
    {list[i].address : i \in {j \in DOMAIN list : ~Truthy(list[j].isPrimary)}}

(* setupDeviceInformation, for one adapter: configured or not, it is a     *)
(* device.                                                                 *)
ScriptDevice(a) ==
    [index       |-> GetDeviceIndexByID(a.id),
     primary     |-> GetPrimaryIPConfiguration(AddressList(a)),
     secondaries |-> GetSecondaryIPConfigurationList(AddressList(a))]
-----------------------------------------------------------------------------
(* Of a device that both controllers have, the script has the same primary *)
(* address and the same number, in whatever orders pcap and Windows list   *)
(* the adapters; only one that pcap does not list, or lists without a      *)
(* description, is -1 for the script and 0 for the other, where 0 may be   *)
(* another adapter's (netinterop.cc:56-75, netinterop_run.js:97-118,       *)
(* RoutingController.cs:483-502, Monitor.cpp:88-109).                      *)
ScriptAgrees ==
    \A i \in DOMAIN setup.adapters :
        LET a == setup.adapters[i]
            number == IF Entries(a.id) = {} THEN -1 ELSE devices[a.id].number
        IN  a.id \in DOMAIN devices =>
                /\ ScriptDevice(a).primary = {devices[a.id].primary}
                /\ ScriptDevice(a).index = number
                /\ number = -1 => devices[a.id].number = 0

(* And it has no secondary address of any adapter, as "False" is true      *)
(* (netinterop.cc:96, netinterop_run.js:119-132).                          *)
ScriptMissesSecondaries ==
    \A i \in DOMAIN setup.adapters : ScriptDevice(setup.adapters[i]).secondaries = {}
=============================================================================
