----------------------------- MODULE Controller -----------------------------
(***************************************************************************)
(* RoutingController.Enable and Disable, the modules they start and stop   *)
(* and the capture loops of the devices.                                   *)
(*                                                                         *)
(* Enable runs on one thread until the loops are told to stop; Disable     *)
(* runs on another one, Ctrl-C's, at any time; each device has a capture   *)
(* thread; a timer looks once a second whether IsEnabled is off.  A flag   *)
(* is all that connects them: Enable sets it when the modules have started,*)
(* Disable resets it when the modules have stopped, and nothing keeps the  *)
(* two from overlapping.                                                   *)
(*                                                                         *)
(* The handle of a device is what Monitor::Initialize left, which nobody   *)
(* looks at, until its loop ends and closes it.  Modules send on it from   *)
(* timers that nothing stops.                                              *)
(*                                                                         *)
(* External: pcap_breakloop sets a flag that the loop of the handle looks  *)
(* at before it takes a packet and resets when it returns, also when the   *)
(* flag was set before the loop began.  What a call does to a handle that  *)
(* is not open is undefined: nothing comes of it, or the process ends.     *)
(***************************************************************************)
EXTENDS Integers

CONSTANTS
    Modules,
    Active,         \* the modules that are configured on an interface
    CaptureDevices, \* the devices that are no loopback
    MaxDisables     \* bound: how often Ctrl-C is pressed

ASSUME ControllerAssumption == Active \subseteq Modules /\ MaxDisables \in Nat

VARIABLES
    progress,   \* how far Enable is: modules, threads, waiting, returned
    starting,   \* modules Enable has yet to start
    isEnabled,  \* RoutingController.IsEnabled
    moduleOn,   \* Module.IsEnabled
    disabling,  \* Disable is under way
    stopping,   \* modules it has yet to stop
    disables,
    began,      \* history: where Enable was when the last Disable began
    stopped,    \* history: some Disable has ended after Enable set the flag
    loop,       \* idle, started, loop, waiting, handling, over
    breaks,     \* devices whose loop is told to break
    handle,     \* adhandle of each device: none, open, closed
    dead,       \* the process has ended
    failed,     \* history: devices that did not open, or whose adapter failed
    watching    \* _timer.Enabled

enableVars == <<progress, starting>>
disableVars == <<disabling, stopping, disables, began, stopped>>
handleVars == <<handle, failed>>
captureVars == <<loop, breaks, handleVars, dead>>
ctrlVars == <<enableVars, isEnabled, moduleOn, disableVars, captureVars, watching>>

CtrlInit ==
    /\ progress = "modules" /\ starting = Modules
    /\ isEnabled = FALSE
    /\ moduleOn = [m \in Modules |-> FALSE]
    /\ disabling = FALSE /\ stopping = {} /\ disables = 0
    /\ began = "none" /\ stopped = FALSE
    /\ loop = [d \in CaptureDevices |-> "idle"]
    /\ breaks = {} /\ dead = FALSE
    /\ handle \in [CaptureDevices -> {"none", "open", "closed"}]
    /\ failed = {d \in CaptureDevices : handle[d] # "open"}
    /\ watching = FALSE

(* Module.Start: InitializeAll.                                            *)
StartModule(m) ==
    /\ m \in starting
    /\ starting' = starting \ {m}
    /\ moduleOn' = [moduleOn EXCEPT ![m] = @ \/ m \in Active]
    /\ UNCHANGED <<progress, isEnabled, disableVars, captureVars, watching>>

SetEnabled ==
    /\ progress = "modules" /\ starting = {}
    /\ progress' = "threads"
    /\ isEnabled' = TRUE
    /\ UNCHANGED <<starting, moduleOn, disableVars, captureVars, watching>>

StartThread(d) ==
    /\ progress = "threads" /\ loop[d] = "idle"
    /\ loop' = [loop EXCEPT ![d] = "started"]
    /\ UNCHANGED <<enableVars, isEnabled, moduleOn, disableVars, breaks, handleVars, dead, watching>>

(* A bug a change could bring in: the flag is not looked at before the     *)
(* timer is on, and is set last.                                           *)
WatchBeforeEnabled ==
    /\ progress \in {"modules", "threads"} /\ ~watching
    /\ progress' = IF progress = "threads" THEN "waiting" ELSE progress
    /\ watching' = TRUE
    /\ UNCHANGED <<starting, isEnabled, moduleOn, disableVars, captureVars>>

(* The timer, and Enable waits for it.                                     *)
StartWatch ==
    /\ progress = "threads" /\ \A d \in CaptureDevices : loop[d] # "idle"
    /\ progress' = "waiting"
    /\ watching' = TRUE
    /\ UNCHANGED <<starting, isEnabled, moduleOn, disableVars, captureVars>>

(* The callback of the timer finds the flag off: every monitor is stopped  *)
(* and Enable returns.                                                     *)
Watch ==
    /\ ~dead /\ watching /\ ~isEnabled
    /\ \/ /\ breaks' = {d \in CaptureDevices : handle[d] = "open"}
          /\ watching' = FALSE
          /\ progress' = "returned"
          /\ UNCHANGED dead
       \/ /\ \E d \in CaptureDevices : handle[d] # "open"
          /\ dead' = TRUE
          /\ UNCHANGED <<breaks, watching, progress>>
    /\ UNCHANGED <<starting, isEnabled, moduleOn, disableVars, loop, handleVars>>

BeginDisable ==
    /\ ~disabling /\ disables < MaxDisables
    /\ disabling' = TRUE
    /\ disables' = disables + 1
    /\ stopping' = Modules
    /\ began' = IF progress = "modules" THEN "early" ELSE "late"
    /\ UNCHANGED <<enableVars, isEnabled, moduleOn, stopped, captureVars, watching>>

StopModule(m) ==
    /\ m \in stopping
    /\ stopping' = stopping \ {m}
    /\ moduleOn' = [moduleOn EXCEPT ![m] = FALSE]
    /\ UNCHANGED <<enableVars, isEnabled, disabling, disables, began, stopped,
                   captureVars, watching>>

EndDisable ==
    /\ disabling /\ stopping = {}
    /\ disabling' = FALSE
    /\ isEnabled' = FALSE
    /\ stopped' = (stopped \/ progress # "modules")
    /\ UNCHANGED <<enableVars, moduleOn, stopping, disables, began, captureVars, watching>>

Moves(d, from, to) == loop[d] = from /\ loop' = [loop EXCEPT ![d] = to]
Closes(d) == handle' = [handle EXCEPT ![d] = "closed"]

(* A bug a change could bring in: a loop that begins forgets the break.    *)
RunItAfresh(d) ==
    /\ handle[d] = "open" /\ Moves(d, "started", "loop")
    /\ breaks' = breaks \ {d}
    /\ UNCHANGED <<enableVars, isEnabled, moduleOn, disableVars, handleVars, dead, watching>>

(* Only a handle that was never opened is null.  A loop on a closed one    *)
(* ends at once, or the process does.                                      *)
RunIt(d) ==
    /\ \/ handle[d] = "open" /\ Moves(d, "started", "loop") /\ UNCHANGED dead
       \/ /\ handle[d] # "open" /\ Moves(d, "started", "over")
          /\ dead' \in {FALSE, handle[d] = "closed"}
    /\ UNCHANGED <<enableVars, isEnabled, moduleOn, disableVars, breaks, handleVars, watching>>

PacketArrives(d) ==
    /\ d \notin breaks
    /\ Moves(d, "loop", "waiting")
    /\ UNCHANGED <<enableVars, isEnabled, moduleOn, disableVars, breaks, handleVars, dead, watching>>

(* packet_handler has CallbackArray, the lock of all devices: Begin.       *)
Begin(d) ==
    /\ ~dead /\ \A e \in CaptureDevices : loop[e] # "handling"
    /\ Moves(d, "waiting", "handling")
    /\ UNCHANGED <<enableVars, isEnabled, moduleOn, disableVars, breaks, handleVars, dead, watching>>

(* A bug a change could bring in: a loop of one packet.                    *)
HandledOnce(d) ==
    /\ Moves(d, "handling", "over") /\ Closes(d)
    /\ breaks' = breaks \ {d}
    /\ UNCHANGED <<enableVars, isEnabled, moduleOn, disableVars, failed, dead, watching>>

Handled(d) ==
    /\ Moves(d, "handling", "loop")
    /\ UNCHANGED <<enableVars, isEnabled, moduleOn, disableVars, breaks, handleVars, dead, watching>>

(* pcap_loop returns, RunIt closes the handle and the thread ends.         *)
LoopEnds(d) ==
    /\ d \in breaks
    /\ Moves(d, "loop", "over") /\ Closes(d)
    /\ breaks' = breaks \ {d}
    /\ UNCHANGED <<enableVars, isEnabled, moduleOn, disableVars, failed, dead, watching>>

(* The adapter fails: pcap_loop returns an error, nobody is told.          *)
LoopFails(d) ==
    /\ d \notin breaks
    /\ Moves(d, "loop", "over") /\ Closes(d)
    /\ failed' = failed \cup {d}
    /\ UNCHANGED <<enableVars, isEnabled, moduleOn, disableVars, breaks, dead, watching>>

(* A timer of a module that has been started sends, whether the module or  *)
(* the controller is still on or not, and the handle is not open.          *)
Send(d) ==
    /\ Active \cap starting # Active
    /\ handle[d] # "open"
    /\ dead' = TRUE
    /\ UNCHANGED <<enableVars, isEnabled, moduleOn, disableVars, loop, breaks, handleVars, watching>>

Enable ==
    /\ ~dead
    /\ \/ (\E m \in Modules : StartModule(m)) \/ SetEnabled
       \/ (\E d \in CaptureDevices : StartThread(d)) \/ StartWatch
Disable == ~dead /\ ((\E m \in Modules : StopModule(m)) \/ EndDisable)
Loop(d) == ~dead /\ (RunIt(d) \/ Handled(d) \/ LoopEnds(d))

CtrlNext ==
    \/ Enable \/ Watch \/ Disable
    \/ ~dead /\ BeginDisable
    \/ \E d \in CaptureDevices :
          Loop(d) \/ Begin(d) \/ (~dead /\ (PacketArrives(d) \/ LoopFails(d) \/ Send(d)))

CtrlSpec == CtrlInit /\ [][CtrlNext]_ctrlVars

(* Threads that were started go on, the timer ticks, and a thread that     *)
(* waits for the lock, which others take again and again, gets it at last. *)
CtrlFairness ==
    /\ WF_ctrlVars(Enable) /\ WF_ctrlVars(Disable) /\ WF_ctrlVars(Watch)
    /\ \A d \in CaptureDevices : WF_ctrlVars(Loop(d)) /\ SF_ctrlVars(Begin(d))

CtrlFairSpec == CtrlSpec /\ CtrlFairness
-----------------------------------------------------------------------------
CtrlTypeOK ==
    /\ progress \in {"modules", "threads", "waiting", "returned"}
    /\ starting \subseteq Modules /\ stopping \subseteq Modules
    /\ isEnabled \in BOOLEAN /\ watching \in BOOLEAN
    /\ disabling \in BOOLEAN /\ stopped \in BOOLEAN
    /\ moduleOn \in [Modules -> BOOLEAN]
    /\ disables \in 0 .. MaxDisables
    /\ began \in {"none", "early", "late"}
    /\ loop \in [CaptureDevices -> {"idle", "started", "loop", "waiting", "handling", "over"}]
    /\ breaks \subseteq {d \in CaptureDevices : loop[d] \notin {"idle", "over"}}
    /\ handle \in [CaptureDevices -> {"none", "open", "closed"}]
    /\ failed \subseteq CaptureDevices /\ dead \in BOOLEAN

(* A Disable that meets Enable.  Only one whose last step comes after      *)
(* Enable has set the flag stops anything: one that is over earlier is     *)
(* lost, as line 441 sets the flag again without looking.  And one that    *)
(* began when all modules had been started leaves none of them on by the   *)
(* time Enable returns, as it stops them before it resets the flag; one    *)
(* that began earlier may stop a module before Enable starts it            *)
(* (RoutingController.cs:436-441, 596-606).                                *)
EarlyDisableIsLost ==
    /\ progress = "returned" \/ breaks # {} => stopped
    /\ progress = "returned" /\ began = "late" /\ disables = 1
          => \A m \in Modules : ~moduleOn[m]

(* A Disable that ends after line 441 stops every capture loop, whatever   *)
(* the loop was doing, even if it had not begun, and lets Enable return,   *)
(* unless a handle that is not open ends the process first                 *)
(* (RoutingController.cs:443-463, 596-606).                                *)
DisableTakesEffect ==
    stopped ~> dead \/ (progress = "returned" /\ \A d \in CaptureDevices : loop[d] = "over")

(* As long as every adapter has opened and goes on, the handles stay open  *)
(* until Enable returns, and no start, stop or timer ends the process      *)
(* before that (RoutingController.cs:422-463, Monitor.cpp:228-236).        *)
HandlesOutliveTheirUse ==
    failed = {} /\ progress # "returned"
      => ~dead /\ \A d \in CaptureDevices : handle[d] = "open"
=============================================================================
