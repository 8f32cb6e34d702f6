---------------------------- MODULE IpIdentifier ----------------------------
(***************************************************************************)
(* The identifications of the IP datagrams SystemModule sends.  Each       *)
(* datagram takes the next number of its destination and is listed under   *)
(* it, so that the number is not given out again while fragments of the    *)
(* datagram may still travel; a timer counts its TTL down once a second    *)
(* and takes it off the list at zero.                                      *)
(*                                                                         *)
(* The list is locked, the countdown is not: "_ttl--", the comparison with *)
(* zero, the stop and the removal are statements of a callback that the    *)
(* thread pool may run twice at once, and every fragment starts the timer  *)
(* anew, even after the stop.                                              *)
(*                                                                         *)
(* External: Map.Add of a number that is listed throws or replaces.        *)
(***************************************************************************)
EXTENDS Integers, FiniteSets

CONSTANTS
    Objects,        \* the IPPacketIdentifier objects
    Callbacks,      \* bound: the Elapsed callbacks of one timer under way at once
    Destinations,
    Unlisted,
    KeyMod,         \* 2^16: the numbers of a destination are 0 .. KeyMod - 1
    TtlMod,         \* 2^8: _ttl is a byte
    StartTtl,       \* the values IPHeader.TTL may have
    MaxOverlaps,    \* bound: how often a callback starts before the last one ended
    MaxLeaks        \* bound: datagrams of which no fragment is sent

ASSUME IpIdentifierAssumption ==
    /\ Unlisted \notin Objects
    /\ KeyMod \in Nat \ {0} /\ TtlMod \in Nat \ {0}
    /\ StartTtl \subseteq 0 .. TtlMod - 1
    /\ MaxOverlaps \in Nat /\ MaxLeaks \in Nat

VARIABLES
    MaxKey,     \* of each destination
    Data,       \* Data[d][key]: the object listed, or Unlisted
    stage,      \* free, made, sending, done, leaked
    Daddr, Key, ttl,
    enabled,    \* _timer.Enabled
    callback,   \* the statement each callback is at, or idle
    held,       \* the value "_ttl--" has read and not yet written
    owed,       \* history: the decrements of its first TTL still to come
    overlaps, leaks

timerVars == <<enabled, callback, held, overlaps>>
ivars == <<MaxKey, Data, stage, Daddr, Key, ttl, timerVars, owed, leaks>>

Keys == 0 .. KeyMod - 1
Statements == {"idle", "read", "write", "compare", "stop", "kill"}
Listed(o) == Data[Daddr[o]][Key[o]] = o

IpInit ==
    /\ MaxKey = [d \in Destinations |-> 0]
    /\ Data = [d \in Destinations |-> [k \in Keys |-> Unlisted]]
    /\ stage = [o \in Objects |-> "free"]
    /\ Daddr \in {[o \in Objects |-> d] : d \in Destinations}
    /\ Key = [o \in Objects |-> 0]
    /\ ttl = [o \in Objects |-> 0]
    /\ enabled = [o \in Objects |-> FALSE]
    /\ callback = [o \in Objects |-> [c \in Callbacks |-> "idle"]]
    /\ held = [o \in Objects |-> [c \in Callbacks |-> 0]]
    /\ owed = [o \in Objects |-> 0]
    /\ overlaps = 0
    /\ leaks = 0

(* The cast to ushort makes 0 follow 65535; the test for 65536 is dead.    *)
NextKey(d) == (MaxKey[d] + 1) % KeyMod

(* CreateIPPacketIdentifier, all of it under the lock.                     *)
Create(o, d, t) ==
    /\ stage[o] = "free"
    /\ MaxKey' = [MaxKey EXCEPT ![d] = NextKey(d)]
    /\ Data' = [Data EXCEPT ![d][NextKey(d)] = o]
    /\ stage' = [stage EXCEPT ![o] = "made"]
    /\ Daddr' = [Daddr EXCEPT ![o] = d]
    /\ Key' = [Key EXCEPT ![o] = NextKey(d)]
    /\ ttl' = [ttl EXCEPT ![o] = t]
    /\ owed' = [owed EXCEPT ![o] = t]
    /\ UNCHANGED <<timerVars, leaks>>

(* The number is listed still and Add throws: it is used up, nothing goes  *)
(* out.                                                                    *)
CreateThrows(d) ==
    /\ Data[d][NextKey(d)] # Unlisted
    /\ MaxKey' = [MaxKey EXCEPT ![d] = NextKey(d)]
    /\ UNCHANGED <<Data, stage, Daddr, Key, ttl, timerVars, owed, leaks>>

(* AcceptHandoff ends without a fragment: there is no data, or ARP does    *)
(* not know the destination yet.  Nothing ever takes the object off.       *)
Leak(o) ==
    /\ stage[o] = "made"
    /\ leaks < MaxLeaks
    /\ stage' = [stage EXCEPT ![o] = "leaked"]
    /\ leaks' = leaks + 1
    /\ UNCHANGED <<MaxKey, Data, Daddr, Key, ttl, timerVars, owed>>

(* PackageLayer2AndSend of a fragment, and its callback id.StartTimer.     *)
SendFragment(o) ==
    /\ stage[o] \in {"made", "sending"}
    /\ stage' = [stage EXCEPT ![o] = "sending"]
    /\ enabled' = [enabled EXCEPT ![o] = TRUE]
    /\ UNCHANGED <<MaxKey, Data, Daddr, Key, ttl, callback, held, overlaps, owed, leaks>>

(* That was the last fragment.                                             *)
SendEnds(o) ==
    /\ stage[o] = "sending"
    /\ stage' = [stage EXCEPT ![o] = "done"]
    /\ UNCHANGED <<MaxKey, Data, Daddr, Key, ttl, timerVars, owed, leaks>>

(* A bug a change could bring in: the timer elapses once.                  *)
OneShot(o) == [enabled EXCEPT ![o] = FALSE]

(* The default of a System.Timers.Timer.                                   *)
AutoReset(o) == enabled

Overlapping(o) == \E c \in Callbacks : callback[o][c] # "idle"

(* An interval is over.  A second callback while the first has not ended   *)
(* needs a pool that is a second behind.                                   *)
Fire(o) ==
    /\ enabled[o]
    /\ \E c \in Callbacks : callback[o][c] = "idle"
    /\ \/ ~Overlapping(o) /\ UNCHANGED overlaps
       \/ Overlapping(o) /\ overlaps < MaxOverlaps /\ overlaps' = overlaps + 1
    /\ callback' = [callback EXCEPT ![o][CHOOSE c \in Callbacks : callback[o][c] = "idle"] = "read"]
    /\ enabled' = AutoReset(o)
    /\ UNCHANGED <<MaxKey, Data, stage, Daddr, Key, ttl, held, owed, leaks>>

(* The callback is at the one statement and goes on to the other.          *)
Goes(o, c, from, to) ==
    /\ callback[o][c] = from
    /\ callback' = [callback EXCEPT ![o][c] = to]
    /\ UNCHANGED <<MaxKey, stage, Daddr, Key, overlaps, leaks>>

(* id._ttl-- reads the byte                                                *)
Read(o, c) ==
    /\ Goes(o, c, "read", "write")
    /\ held' = [held EXCEPT ![o][c] = ttl[o]]
    /\ UNCHANGED <<Data, ttl, enabled, owed>>

(* A bug a change could bring in: the countdown does not wrap.             *)
Below(t) == t - 1

(* _ttl is a byte: 255 follows 0.                                          *)
Less1(t) == (t + TtlMod - 1) % TtlMod

(* and writes it.                                                          *)
Write(o, c) ==
    /\ Goes(o, c, "write", "compare")
    /\ ttl' = [ttl EXCEPT ![o] = Less1(held[o][c])]
    /\ held' = [held EXCEPT ![o][c] = 0]
    /\ owed' = [owed EXCEPT ![o] = IF @ = 0 THEN 0 ELSE @ - 1]
    /\ UNCHANGED <<Data, enabled>>

(* A bug a change could bring in: the comparison with zero is one off.     *)
SpentEarly(o) == ttl[o] <= 1

Spent(o) == ttl[o] = 0

Compare(o, c) ==
    /\ Goes(o, c, "compare", IF Spent(o) THEN "stop" ELSE "idle")
    /\ UNCHANGED <<Data, ttl, enabled, held, owed>>

(* _timer.Stop()                                                           *)
Stop(o, c) ==
    /\ Goes(o, c, "stop", "kill")
    /\ enabled' = [enabled EXCEPT ![o] = FALSE]
    /\ UNCHANGED <<Data, ttl, held, owed>>

(* A bug a change could bring in: the timer is stopped and the object      *)
(* stays on the list.                                                      *)
KillNone(o) == UNCHANGED Data

(* KillIPPacketIdentifier removes the number of the destination, whichever *)
(* object is listed under it.                                              *)
KillIPPacketIdentifier(o) == Data' = [Data EXCEPT ![Daddr[o]][Key[o]] = Unlisted]

Kill(o, c) ==
    /\ Goes(o, c, "kill", "idle")
    /\ KillIPPacketIdentifier(o)
    /\ UNCHANGED <<ttl, enabled, held, owed>>

(* Nothing refers to the object any more: the model uses its name again.   *)
FreeObject(o) ==
    /\ stage[o] \in {"done", "leaked"}
    /\ ~Listed(o) /\ ~enabled[o] /\ ~Overlapping(o)
    /\ stage' = [stage EXCEPT ![o] = "free"]
    /\ Key' = [Key EXCEPT ![o] = 0]
    /\ ttl' = [ttl EXCEPT ![o] = 0]
    /\ owed' = [owed EXCEPT ![o] = 0]
    /\ leaks' = IF stage[o] = "leaked" THEN leaks - 1 ELSE leaks
    /\ UNCHANGED <<MaxKey, Data, Daddr, timerVars>>

Elapses(o, c) == Read(o, c) \/ Write(o, c) \/ Compare(o, c) \/ Stop(o, c) \/ Kill(o, c)

IpNext ==
    \/ \E o \in Objects, d \in Destinations, t \in StartTtl : Create(o, d, t)
    \/ \E d \in Destinations : CreateThrows(d)
    \/ \E o \in Objects :
          \/ Leak(o) \/ SendFragment(o) \/ SendEnds(o) \/ Fire(o) \/ FreeObject(o)
          \/ \E c \in Callbacks : Elapses(o, c)

IpSpec == IpInit /\ [][IpNext]_ivars

(* The sending thread comes to its last fragment, timers tick and the pool *)
(* runs what it is given.                                                  *)
IpFairness == \A o \in Objects :
    /\ WF_ivars(SendEnds(o)) /\ WF_ivars(Fire(o))
    /\ \A c \in Callbacks : WF_ivars(Elapses(o, c))

IpFairSpec == IpSpec /\ IpFairness
-----------------------------------------------------------------------------
IpTypeOK ==
    /\ MaxKey \in [Destinations -> Keys]
    /\ Data \in [Destinations -> [Keys -> Objects \cup {Unlisted}]]
    /\ stage \in [Objects -> {"free", "made", "sending", "done", "leaked"}]
    /\ Daddr \in [Objects -> Destinations]
    /\ Key \in [Objects -> Keys]
    /\ ttl \in [Objects -> 0 .. TtlMod - 1]
    /\ enabled \in [Objects -> BOOLEAN]
    /\ callback \in [Objects -> [Callbacks -> Statements]]
    /\ held \in [Objects -> [Callbacks -> 0 .. TtlMod - 1]]
    /\ owed \in [Objects -> 0 .. TtlMod - 1]
    /\ overlaps \in 0 .. MaxOverlaps /\ leaks \in 0 .. MaxLeaks

(* A datagram that was sent and is still listed has its timer on, or a     *)
(* callback that has stopped it is about to remove the number, however the *)
(* fragments, the callbacks and the numbers that come round again          *)
(* interleave (IPPacketIdentifier.cs:34-43, SystemModule.cs:46-52,         *)
(* 143-146).  Without it the number would be lost.                         *)
ListedIsTicking ==
    \A o \in Objects :
        Listed(o) /\ stage[o] \in {"sending", "done"}
            => enabled[o] \/ \E c \in Callbacks : callback[o][c] = "kill"

(* However callbacks overlap, overwrite each other's byte or wrap it, and  *)
(* whatever they do to it between the comparison and the removal, a number *)
(* is freed only by a datagram that had it and has been counted down at    *)
(* least as often as its TTL says: the one listed, or an earlier one whose *)
(* timer a late fragment started again (IPPacketIdentifier.cs:36-41).      *)
FreedWhenSpent ==
    [][\A d \in Destinations, k \in Keys :
          Data[d][k] # Unlisted /\ Data'[d][k] = Unlisted
             => \E o \in Objects, c \in Callbacks :
                    /\ Daddr[o] = d /\ Key[o] = k /\ owed[o] = 0
                    /\ callback[o][c] # "idle" /\ callback'[o][c] = "idle"]_ivars

(* The number of a datagram that was sent becomes free again (or goes to   *)
(* another datagram), although two callbacks at once may step over zero:   *)
(* the byte wraps and the countdown comes by again.                        *)
SentIsFreed ==
    \A o \in Objects : (Listed(o) /\ enabled[o]) ~> ~Listed(o)
=============================================================================
