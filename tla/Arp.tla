-------------------------------- MODULE Arp ---------------------------------
(***************************************************************************)
(* Address resolution in SystemModule: the table of resolved addresses and *)
(* the map of the requests that wait for a reply.                          *)
(*                                                                         *)
(* ArpLookup holds the lock of the table from the test whether an address  *)
(* is known until the last device has been asked for it.  The threads that *)
(* send datagrams call it; the one capture thread that handles a packet    *)
(* takes the replies.  The map of pending requests has no lock: replies    *)
(* and timers remove from it while a lookup adds to it.                    *)
(*                                                                         *)
(* ArpData has a timer that would take an entry out of the table after     *)
(* 3000 seconds; nothing starts it, and it is left out here.               *)
(*                                                                         *)
(* The timer of a request is started after the send and never stopped, not *)
(* by a reply either: after five seconds every callback removes the guid   *)
(* of the request, listed or not.  A guid is never used again, so only the *)
(* first of these callbacks matters, and the model keeps the name of a     *)
(* request from further use until it has run.                              *)
(*                                                                         *)
(* A search for a request that meets a change of the map throws and takes  *)
(* the process with it; such a run just ends, and is not modelled.         *)
(*                                                                         *)
(* External: Map.Add of an address that is listed throws or replaces.      *)
(***************************************************************************)
EXTENDS Integers, FiniteSets

CONSTANTS
    Addresses, Macs,
    Devices,    \* the devices that are enabled and no loopback
    Guids,      \* the entries of _pendingArpMap, by the name of their guid
    Nothing,
    MaxFailures \* bound: requests that stay listed because their send threw

ASSUME ArpAssumption ==
    /\ Nothing \notin Guids \cup Addresses \cup Devices \cup Macs
    /\ MaxFailures \in Nat

Wanted == [addr : Addresses, dev : Devices]
Entries == [dev : Devices, mac : Macs]
NoEntry == [dev |-> Nothing, mac |-> Nothing]
NoRequest == [addr |-> Nothing, dev |-> Nothing]
NoReply == [addr |-> Nothing, dev |-> Nothing, mac |-> Nothing, found |-> Nothing, added |-> FALSE]
Idle == [addr |-> Nothing, todo |-> {}]

VARIABLES
    table,      \* _arpTable
    pending,    \* _pendingArpMap
    ticking,    \* the requests whose timer runs and has not removed them yet
    failed,     \* the requests that are listed although their send threw
    asking,     \* the lookup that holds the lock: its address, the devices to come
    reply,      \* the reply HandleArpResponse works on
    asked       \* history: the requests that were ever made

arpVars == <<table, pending, ticking, failed, asking, reply, asked>>

ArpInit ==
    /\ table = [a \in Addresses |-> NoEntry]
    /\ pending = [r \in Guids |-> NoRequest]
    /\ ticking = {} /\ failed = {}
    /\ asking = Idle
    /\ reply = NoReply
    /\ asked = {}

Locked == asking # Idle

Unresolved(a) == table[a] = NoEntry

(* ArpLookup of an address the table does not have.                        *)
BeginLookup(a) ==
    /\ ~Locked
    /\ Unresolved(a)
    /\ asking' = [addr |-> a, todo |-> Devices]
    /\ UNCHANGED <<table, pending, ticking, failed, reply, asked>>

(* A bug a change could bring in: the timer of one request serves all.     *)
StartOneTimer(r) == ticking' = IF ticking = {} THEN {r} ELSE ticking

StartTimer(r) == ticking' = ticking \cup {r}

(* One turn of the loop: the request is listed, sent and timed.  A send    *)
(* that throws ends the lookup with the request listed and its timer off.  *)
Ask(r, d) ==
    /\ d \in asking.todo
    /\ pending[r] = NoRequest /\ reply.found # r /\ r \notin ticking
    /\ pending' = [pending EXCEPT ![r] = [addr |-> asking.addr, dev |-> d]]
    /\ asked' = asked \cup {[addr |-> asking.addr, dev |-> d]}
    /\ \/ /\ StartTimer(r)
          /\ asking' = [asking EXCEPT !.todo = @ \ {d}]
          /\ UNCHANGED failed
       \/ /\ Cardinality(failed) < MaxFailures
          /\ failed' = failed \cup {r}
          /\ asking' = Idle
          /\ UNCHANGED ticking
    /\ UNCHANGED <<table, reply>>

EndLookup ==
    /\ Locked /\ asking.todo = {}
    /\ asking' = Idle
    /\ UNCHANGED <<table, pending, ticking, failed, reply, asked>>

(* A bug a change could bring in: the device is not compared.              *)
AnswersAddress(r, d, a) == pending[r].addr = a

Answers(r, d, a) == pending[r] = [addr |-> a, dev |-> d]

(* A reply arrives and some request is found for it; any other is ignored. *)
ReplyArrives(r, d, a, m) ==
    /\ reply = NoReply
    /\ Answers(r, d, a)
    /\ reply' = [addr |-> a, dev |-> d, mac |-> m, found |-> r, added |-> FALSE]
    /\ UNCHANGED <<table, pending, ticking, failed, asking, asked>>

(* A bug a change could bring in: the entry is written without the lock.   *)
AddUnlocked ==
    /\ reply # NoReply /\ ~reply.added
    /\ table' = [table EXCEPT ![reply.addr] = [dev |-> reply.dev, mac |-> reply.mac]]
    /\ reply' = [reply EXCEPT !.added = TRUE]
    /\ UNCHANGED <<pending, ticking, failed, asking, asked>>

(* The entry is made under the lock.                                       *)
AddEntry ==
    /\ reply # NoReply /\ ~reply.added
    /\ ~Locked
    /\ table' = [table EXCEPT ![reply.addr] = [dev |-> reply.dev, mac |-> reply.mac]]
    /\ reply' = [reply EXCEPT !.added = TRUE]
    /\ UNCHANGED <<pending, ticking, failed, asking, asked>>

(* Another reply has made the entry already and Add throws: the request    *)
(* that was found is left to its timer.                                    *)
AddThrows ==
    /\ reply # NoReply /\ ~reply.added
    /\ ~Locked /\ ~Unresolved(reply.addr)
    /\ reply' = NoReply
    /\ UNCHANGED <<table, pending, ticking, failed, asking, asked>>

Forget(r) ==
    /\ pending' = [pending EXCEPT ![r] = NoRequest]
    /\ failed' = failed \ {r}

(* The request found, which its timer may have removed in the meantime;    *)
(* the timer goes on.                                                      *)
RemovePending ==
    /\ reply.added
    /\ Forget(reply.found)
    /\ reply' = NoReply
    /\ UNCHANGED <<table, ticking, asking, asked>>

(* More than five seconds have passed since the request, whether or not it *)
(* is still listed.                                                        *)
Expire(r) ==
    /\ r \in ticking
    /\ Forget(r)
    /\ ticking' = ticking \ {r}
    /\ UNCHANGED <<table, asking, reply, asked>>

ArpNext ==
    \/ \E a \in Addresses : BeginLookup(a)
    \/ \E r \in Guids, d \in Devices : Ask(r, d)
    \/ EndLookup
    \/ \E r \in Guids, d \in Devices, a \in Addresses, m \in Macs : ReplyArrives(r, d, a, m)
    \/ AddEntry \/ AddThrows \/ RemovePending
    \/ \E r \in Guids : Expire(r)

ArpSpec == ArpInit /\ [][ArpNext]_arpVars

(* A timer that was started goes on for ever.                              *)
ArpFairness == \A r \in Guids : WF_arpVars(Expire(r))
-----------------------------------------------------------------------------
ArpTypeOK ==
    /\ table \in [Addresses -> Entries \cup {NoEntry}]
    /\ pending \in [Guids -> Wanted \cup {NoRequest}]
    /\ ticking \subseteq Guids /\ failed \subseteq Guids
    /\ asking \in [addr : Addresses, todo : SUBSET Devices] \cup {Idle}
    /\ reply \in [addr : Addresses, dev : Devices, mac : Macs, found : Guids,
                  added : BOOLEAN] \cup {NoReply}
    /\ asked \subseteq Wanted

(* Whatever replies arrive, in whatever order with timeouts and lookups,   *)
(* the table holds an address only from a device on which it was asked for *)
(* (SystemModule.cs:222-226).                                              *)
Solicited ==
    \A a \in Addresses :
        ~Unresolved(a) => [addr |-> a, dev |-> table[a].dev] \in asked

(* Once an address is resolved nobody asks for it again, on no device: the *)
(* lock is held over the test and all of the loop, so that no entry can    *)
(* appear between them (SystemModule.cs:227-231, 237-284).                 *)
ResolvedIsNotAsked ==
    [][\A a \in Addresses : ~Unresolved(a) =>
          \A r \in Guids : pending'[r].addr = a => pending[r].addr = a]_arpVars

(* A request is off the list in the end, whether it is answered or not,    *)
(* also one that was found for a reply whose entry had been made already   *)
(* and that this left where it was; all but those whose send threw, which  *)
(* no timer removes (SystemModule.cs:229-232, 272-280).                    *)
RequestsEnd ==
    \A r \in Guids : pending[r] # NoRequest ~> pending[r] = NoRequest \/ r \in failed
=============================================================================
