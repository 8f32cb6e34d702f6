------------------------------- MODULE RipFlood -------------------------------
(***************************************************************************)
(* The floods of one RIP router against the threads that change its        *)
(* database: RipModule.cs, SendFlood and its callers.                      *)
(*                                                                         *)
(* The update timer floods every active device from a pool thread, and a   *)
(* request is answered on the packet thread, which adds networks when it   *)
(* handles a response; the callbacks of routes remove networks at any      *)
(* time.  Nothing is locked.  Each flood of a device goes through the      *)
(* database twice: SendFlood makes its selection, and RipHandler.Build     *)
(* replaces it.                                                            *)
(*                                                                         *)
(* Module Rip says when a network is added and removed.  Left out: what a  *)
(* flood says (RipNetwork), a send that fails, an update that takes longer *)
(* than the interval, and the flood of Initialize, which no capture loop   *)
(* can disturb as none has been started.                                   *)
(*                                                                         *)
(* External: Map is a dictionary.  Going through one that is changed in    *)
(* the meantime throws (what two writers do to its inside is left out).    *)
(* The update timer swallows what its callback throws and goes on.         *)
(***************************************************************************)
EXTENDS Naturals

CONSTANTS
    Learned,        \* the networks other routers advertise
    ActiveDevices   \* how many entries of ActiveInterfaceList are no loopback

ASSUME FloodAssumption == ActiveDevices \in Nat \ {0}

Flooders == {"timer", "packet"}

VARIABLES
    ripDatabase,    \* the learned networks in RipDatabase
    flooding,       \* how far a thread is with a device
    toServe,        \* devices the update has yet to flood, this one included
    torn,           \* the threads under whose feet the database has changed
    down,           \* the process has ended
    crossed         \* history: a network was removed while a request was answered

floodVars == <<ripDatabase, flooding, toServe, torn, down, crossed>>

FloodInit ==
    /\ ripDatabase = {} /\ torn = {}
    /\ flooding = [t \in Flooders |-> "idle"]
    /\ toServe = 0
    /\ down = FALSE /\ crossed = FALSE

(* What a thread does for one device, and when it is going through the     *)
(* database.                                                               *)
Steps == {<<"begin", "select">>, <<"select", "selected">>, <<"selected", "build">>,
          <<"build", "send">>}
Enumerating == {t \in Flooders : flooding[t] \in {"select", "build"}}
FloodMoves(t, from, to) ==
    flooding[t] = from /\ flooding' = [flooding EXCEPT ![t] = to]

UpdateElapses ==
    /\ FloodMoves("timer", "idle", "begin")
    /\ toServe' = ActiveDevices
    /\ UNCHANGED <<ripDatabase, torn, down, crossed>>

RequestArrives ==
    /\ FloodMoves("packet", "idle", "begin")
    /\ UNCHANGED <<ripDatabase, toServe, torn, down, crossed>>

(* A response with a network that is not known, on the packet thread.      *)
Discover(x) ==
    /\ flooding["packet"] = "idle" /\ x \notin ripDatabase
    /\ ripDatabase' = ripDatabase \cup {x}
    /\ torn' = torn \cup Enumerating
    /\ UNCHANGED <<flooding, toServe, down, crossed>>

(* The flush callback of a route.                                          *)
GcCollects(x) ==
    /\ x \in ripDatabase
    /\ ripDatabase' = ripDatabase \ {x}
    /\ torn' = torn \cup Enumerating
    /\ crossed' = (crossed \/ flooding["packet"] # "idle")
    /\ UNCHANGED <<flooding, toServe, down>>

(* The selection, then Build, each from its first look to its last.        *)
Walks(t) ==
    /\ t \notin torn
    /\ \E step \in Steps : FloodMoves(t, step[1], step[2])
    /\ UNCHANGED <<ripDatabase, toServe, torn, down, crossed>>

(* A bug a change could bring in: a timer that is started again at the end *)
(* of its callback.                                                        *)
ThrowsBeforeRestart(t) ==
    /\ t \in torn \cap Enumerating
    /\ flooding' = [flooding EXCEPT ![t] = IF t = "timer" THEN "stopped" ELSE "idle"]
    /\ torn' = torn \ {t}
    /\ down' = (t = "packet")
    /\ UNCHANGED <<ripDatabase, toServe, crossed>>

(* The devices that come later are not served in this update; on the       *)
(* packet thread nothing stops the exception.                              *)
Throws(t) ==
    /\ t \in torn \cap Enumerating
    /\ flooding' = [flooding EXCEPT ![t] = "idle"]
    /\ torn' = torn \ {t}
    /\ down' = (t = "packet")
    /\ UNCHANGED <<ripDatabase, toServe, crossed>>

Serve ==
    /\ FloodMoves("timer", "send", IF toServe > 1 THEN "begin" ELSE "idle")
    /\ toServe' = toServe - 1
    /\ UNCHANGED <<ripDatabase, torn, down, crossed>>

Answer ==
    /\ FloodMoves("packet", "send", "idle")
    /\ UNCHANGED <<ripDatabase, toServe, torn, down, crossed>>

Update == ~down /\ (UpdateElapses \/ Walks("timer") \/ Throws("timer") \/ Serve)
Request == ~down /\ (Walks("packet") \/ Throws("packet") \/ Answer)

FloodNext ==
    \/ Update \/ Request
    \/ ~down /\ (RequestArrives \/ \E x \in Learned : Discover(x) \/ GcCollects(x))

(* The timer goes on, and so does a thread.                                *)
FloodFairness == WF_floodVars(Update) /\ WF_floodVars(Request)

FloodSpec == FloodInit /\ [][FloodNext]_floodVars /\ FloodFairness
-----------------------------------------------------------------------------
FloodTypeOK ==
    /\ ripDatabase \subseteq Learned /\ torn \subseteq Enumerating
    /\ flooding \in [Flooders -> {"idle", "begin", "select", "selected", "build", "send"}]
    /\ toServe \in 0 .. ActiveDevices
    /\ down \in BOOLEAN /\ crossed \in BOOLEAN

(* Once the database has come to rest, an update that has begun, or a      *)
(* later one, gets to the last device, however many have been cut short    *)
(* before with some devices served and the others not; unless a route      *)
(* expired while a request was answered, which may end the process and is  *)
(* the only thing here that does (RipModule.cs:97-102, 159, 169-189,       *)
(* RipHandler.cs:60).                                                      *)
UpdatesGoOn == <>[][FALSE]_ripDatabase => (toServe > 0 ~> crossed \/ toServe = 0)
=============================================================================
