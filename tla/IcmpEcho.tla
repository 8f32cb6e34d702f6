------------------------------ MODULE IcmpEcho ------------------------------
(***************************************************************************)
(* The echo requests IcmpModule waits for.  A request is tracked under its *)
(* (identifier, sequence number) in _sequenceTrackingMap, together with a  *)
(* System.Timers.Timer of its own, from the moment it is handed to the     *)
(* SYSTEM module until an echo with that pair is parsed or its timer finds *)
(* that more than four seconds have gone by.                               *)
(*                                                                         *)
(* Three kinds of thread meet in the map: the one that submits a request,  *)
(* the capture thread that parses an echo, and the pool threads that run   *)
(* Elapsed.  The map is only touched under its lock, so what can go wrong  *)
(* is the order: the timer is started after the lock is given up, a        *)
(* callback may already be queued when its timer is stopped, and a pair of *)
(* numbers may be used again while the timer of its first use still runs.  *)
(*                                                                         *)
(* External: Nalarium's Map.Add on a key that is present (the library is   *)
(* not in the repository) throws or replaces; Stop does not recall the     *)
(* callbacks that are queued already.                                      *)
(***************************************************************************)
EXTENDS Integers

CONSTANTS
    Requests,   \* the request objects (echoHeader, timer, then) of one lifetime
    Ids,        \* the (identifier, sequence number) pairs
    Nobody,     \* no request
    Limit,      \* the 4 of "Seconds > 4"
    Minute,     \* the 60 after which TimeSpan.Seconds starts again from 0
    Jitter,     \* bound: how many seconds late a tick or a callback may be
    MaxPool     \* bound: callbacks of one timer queued or running at once

ASSUME IcmpEchoAssumption ==
    /\ Nobody \notin Requests
    /\ Limit \in Nat /\ Minute \in Nat /\ Limit < Minute
    /\ Jitter \in Nat
    /\ MaxPool \in Nat \ {0}

VARIABLES
    tracked,    \* _sequenceTrackingMap: pair -> the request whose timer it holds
    at,         \* how far AcceptHandoff got with the request
    idOf,       \* the pair the request carries
    running,    \* timer.Enabled
    seconds,    \* (DateTime.Now - then).Seconds
    pool        \* Elapsed callbacks of the timer that are queued or running

echoVars == <<tracked, at, idOf, running, seconds, pool>>

Stages == {"idle", "made", "tracked", "sent", "failed"}

(* A bug a change could bring in: the limit is compared with a number that *)
(* Seconds never reaches.                                                  *)
DueInMinutes(r, late) == (seconds[r] + late) % Minute >= Minute

(* A callback reads the clock when the pool comes to it, which may be late *)
(* and, after a Stop, is the only thing that still goes on.                *)
Due(r, late) == (seconds[r] + late) % Minute > Limit

EchoInit ==
    /\ tracked = [id \in Ids |-> Nobody]
    /\ at = [r \in Requests |-> "idle"]
    /\ idOf \in [Requests -> Ids]
    /\ running = [r \in Requests |-> FALSE]
    /\ seconds = [r \in Requests |-> 0]
    /\ pool = [r \in Requests |-> 0]

(* AcceptHandoff up to the lock: headers, timer and "then".                *)
Make(r, id) ==
    /\ at[r] = "idle"
    /\ at' = [at EXCEPT ![r] = "made"]
    /\ idOf' = [idOf EXCEPT ![r] = id]
    /\ seconds' = [seconds EXCEPT ![r] = 0]
    /\ UNCHANGED <<tracked, running, pool>>

(* lock { _sequenceTrackingMap.Add(id, timer) }                            *)
Track(r) ==
    /\ at[r] = "made"
    /\ at' = [at EXCEPT ![r] = "tracked"]
    /\ tracked' = [tracked EXCEPT ![idOf[r]] = r]
    /\ UNCHANGED <<idOf, running, seconds, pool>>

(* The Add of a pair that is tracked already, where it throws: the request *)
(* is not sent and its timer never starts.                                 *)
TrackThrows(r) ==
    /\ at[r] = "made"
    /\ tracked[idOf[r]] # Nobody
    /\ at' = [at EXCEPT ![r] = "failed"]
    /\ UNCHANGED <<tracked, idOf, running, seconds, pool>>

(* timer.Start(), then the hand-over of the packet to the SYSTEM module.   *)
StartAndSend(r) ==
    /\ at[r] = "tracked"
    /\ at' = [at EXCEPT ![r] = "sent"]
    /\ running' = [running EXCEPT ![r] = TRUE]
    /\ UNCHANGED <<tracked, idOf, seconds, pool>>

(* An interval of the timer is over: a callback goes to the thread pool.   *)
Elapse(r) ==
    /\ running[r]
    /\ pool[r] < MaxPool
    /\ \E late \in 0 .. Jitter :
           seconds' = [seconds EXCEPT ![r] = (@ + 1 + late) % Minute]
    /\ pool' = [pool EXCEPT ![r] = @ + 1]
    /\ UNCHANGED <<tracked, at, idOf, running>>

(* timer.Stop(); _sequenceTrackingMap.Remove(id): the entry of the pair,   *)
(* whichever request put it there.                                         *)
GiveUp(r) ==
    /\ running' = [running EXCEPT ![r] = FALSE]
    /\ tracked' = [tracked EXCEPT ![idOf[r]] = Nobody]

(* A bug a change could bring in: the timer fires once only, due or not.   *)
ElapsedOnce(r) ==
    /\ pool[r] > 0
    /\ pool' = [pool EXCEPT ![r] = @ - 1]
    /\ running' = [running EXCEPT ![r] = FALSE]
    /\ \E late \in 0 .. Jitter :
           tracked' = IF Due(r, late) THEN [tracked EXCEPT ![idOf[r]] = Nobody] ELSE tracked
    /\ UNCHANGED <<at, idOf, seconds>>

Elapsed(r) ==
    /\ pool[r] > 0
    /\ pool' = [pool EXCEPT ![r] = @ - 1]
    /\ \E late \in 0 .. Jitter :
           IF Due(r, late) THEN GiveUp(r) ELSE UNCHANGED <<tracked, running>>
    /\ UNCHANGED <<at, idOf, seconds>>

(* A bug a change could bring in: the timer of what is answered goes on.   *)
ProcessEchoUnstopped(id) ==
    /\ tracked[id] # Nobody
    /\ tracked' = [tracked EXCEPT ![id] = Nobody]
    /\ UNCHANGED <<at, idOf, running, seconds, pool>>

(* Any echo that is parsed: a reply, a reply that comes twice or too late, *)
(* or a request of another host that happens to use the pair (CheckForNext *)
(* of IcmpEchoHandler takes both types, and neither address is looked at). *)
ProcessEcho(id) ==
    /\ tracked[id] # Nobody
    /\ running' = [running EXCEPT ![tracked[id]] = FALSE]
    /\ tracked' = [tracked EXCEPT ![id] = Nobody]
    /\ UNCHANGED <<at, idOf, seconds, pool>>

(* The objects of a request nothing refers to any more are collected; the  *)
(* model uses their name for a later request.                              *)
FreeRequest(r) ==
    /\ at[r] \in {"sent", "failed"}
    /\ tracked[idOf[r]] # r /\ ~running[r] /\ pool[r] = 0
    /\ at' = [at EXCEPT ![r] = "idle"]
    /\ seconds' = [seconds EXCEPT ![r] = 0]
    /\ UNCHANGED <<tracked, idOf, running, pool>>

Handle(r) == Track(r) \/ StartAndSend(r) \/ Elapse(r) \/ Elapsed(r)

EchoNext ==
    \/ \E r \in Requests, id \in Ids : Make(r, id)
    \/ \E r \in Requests : Handle(r) \/ TrackThrows(r) \/ FreeRequest(r)
    \/ \E id \in Ids : ProcessEcho(id)

EchoSpec == EchoInit /\ [][EchoNext]_echoVars

(* A thread that is in AcceptHandoff goes on, the pool runs what is queued *)
(* and a timer that is on goes on ticking.                                 *)
EchoFairness == \A r \in Requests : WF_echoVars(StartAndSend(r)) /\ WF_echoVars(Elapse(r))
                                /\ WF_echoVars(Elapsed(r))

EchoFairSpec == EchoSpec /\ EchoFairness
-----------------------------------------------------------------------------
EchoTypeOK ==
    /\ tracked \in [Ids -> Requests \cup {Nobody}]
    /\ at \in [Requests -> Stages]
    /\ idOf \in [Requests -> Ids]
    /\ running \in [Requests -> BOOLEAN]
    /\ seconds \in [Requests -> 0 .. Minute - 1]
    /\ pool \in [Requests -> 0 .. MaxPool]

(* A request that went out and is still waited for has its timer on.  The  *)
(* timer is what takes the entry out when no answer comes: an entry whose  *)
(* timer is off would stay for ever and block the pair.  It is Stop and    *)
(* Remove in one critical section, and Start only after Add, that keep the *)
(* two together (IcmpModule.cs:54-58, 62-67, 75-83).                       *)
TrackedIsTimed ==
    \A id \in Ids : LET r == tracked[id] IN
        r # Nobody => (at[r] = "sent" => running[r])

(* Nobody is dropped early but by a namesake.  An entry that disappears    *)
(* while its own timer goes on is the victim of a callback of an earlier   *)
(* request with the same pair, which removes by pair what is not its own   *)
(* (IcmpModule.cs:57); no step of a request with another pair does it.     *)
DroppedByNamesake ==
    [][\A id \in Ids :
          LET r == tracked[id] IN
          (r # Nobody /\ tracked'[id] = Nobody /\ running'[r])
             => \E s \in Requests \ {r} : \E late \in 0 .. Jitter :
                    idOf[s] = id /\ pool'[s] < pool[s] /\ Due(s, late)]_echoVars

(* Every wait ends: an entry is taken out, by an answer or by its timer    *)
(* within the limit, or its pair is given to another request.              *)
EchoWaitEnds ==
    \A id \in Ids : \A r \in Requests : (tracked[id] = r) ~> (tracked[id] # r)

=============================================================================
