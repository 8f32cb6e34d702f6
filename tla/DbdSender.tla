----------------------------- MODULE DbdSender -----------------------------
(***************************************************************************)
(* SendDBDReady of a Neighbor, line by line.                               *)
(*                                                                         *)
(* Neighbor.Init starts a 100 ms timer whose callbacks call SendDBDReady   *)
(* without the lock that every handler holds, on threads of the pool, so   *)
(* that a callback overlaps the handler and, when it is slow, the next     *)
(* callback.  OspfNeighbor takes the method for one step; this module says *)
(* what is lost between its lines.  A DBD is its sequence number.          *)
(*                                                                         *)
(* One step is one use of _dbdPendingAck or of the queue.  What two        *)
(* writers do to the inside of the queue's hash table is left out.         *)
(***************************************************************************)
EXTENDS Naturals, Sequences, FiniteSetsExt

CONSTANTS
    Callbacks,      \* callbacks of the timer that may run at the same time
    MaxDbds         \* bound: DBDs a neighbour prepares

ASSUME SenderAssumption == "lock" \notin Callbacks /\ MaxDbds \in Nat

(* "lock" is the thread that holds Neighbor.Lock.                          *)
Threads == Callbacks \cup {"lock"}
None == 0

VARIABLES
    queue,      \* keys of _dbdSendList
    pendingAck, \* key of _dbdPendingAck, or None
    due,        \* RxmtInterval has passed since _dbdSendTimerLastSend
    line,       \* the line of SendDBDReady a thread is about to run
    dbd,        \* the local of that name, None when the queue was empty
    job,        \* what the handler has yet to do
    prepared,   \* DDSequenceNumber, counted from the first
    failed,     \* a handler has thrown: the process ends
    live,       \* history: prepared, and neither acknowledged nor flushed
    lost,       \* history: dropped by a step of SendDBDReady
    raced       \* history: a thread has moved while another was in the method

senderVars == <<queue, pendingAck, due, line, dbd, job, prepared, failed, live, lost, raced>>

(* How the handlers use the queue: ProcessAdjacency, the slave and the     *)
(* master branch of OnDBDReceive, SeqNumberMismatch, and InitListData.     *)
Jobs == { <<"ack", "add", "send", "stamp">>, <<"ack", "add", "send">>, <<"ack">>,
          <<"flush", "add", "send">>, <<"flush">> }

SenderInit ==
    /\ queue = {} /\ pendingAck = None /\ due = TRUE
    /\ line = [t \in Threads |-> "out"] /\ dbd = [t \in Threads |-> None]
    /\ job = <<>> /\ prepared = 0 /\ failed = FALSE
    /\ live = {} /\ lost = {} /\ raced = FALSE

Held == {dbd[t] : t \in {u \in Threads : line[u] \in {"remove", "keep"}}}
Goto(t, l) == line' = [line EXCEPT ![t] = l]
Moves(t) == raced' = (raced \/ \E u \in Threads \ {t} : line[u] # "out")

-----------------------------------------------------------------------------
(* The handler, under the lock.                                            *)
BeginJob ==
    /\ job = <<>> /\ line["lock"] = "out"
    /\ \E j \in Jobs : (prepared < MaxDbds \/ j[1] = j[Len(j)]) /\ job' = j
    /\ UNCHANGED <<queue, pendingAck, due, line, dbd, prepared, failed, live, lost, raced>>

HandlerStep(step) ==
    /\ job # <<>> /\ line["lock"] = "out" /\ Head(job) = step
    /\ job' = Tail(job)
    /\ Moves("lock")

Acknowledge ==
    /\ HandlerStep("ack")
    /\ pendingAck' = None
    /\ live' = live \ {pendingAck}
    /\ UNCHANGED <<queue, due, line, dbd, prepared, failed, lost>>

Flush ==
    /\ HandlerStep("flush")
    /\ queue' = {}
    /\ live' = live \ queue
    /\ UNCHANGED <<pendingAck, due, line, dbd, prepared, failed, lost>>

(* A bug a change could bring in: a DBD is filed under the number that the *)
(* next one is to have.                                                    *)
AddAhead ==
    /\ HandlerStep("add")
    /\ prepared' = prepared + 1
    /\ queue' = queue \cup {prepared' + 1}
    /\ live' = live \cup {prepared' + 1}
    /\ UNCHANGED <<pendingAck, due, line, dbd, failed, lost>>

Add ==
    /\ HandlerStep("add")
    /\ prepared' = prepared + 1
    /\ queue' = queue \cup {prepared'}
    /\ live' = live \cup {prepared'}
    /\ UNCHANGED <<pendingAck, due, line, dbd, failed, lost>>

SendNow ==
    /\ HandlerStep("send")
    /\ Goto("lock", "test")
    /\ UNCHANGED <<queue, pendingAck, due, dbd, prepared, failed, live, lost>>

StampFirst ==
    /\ HandlerStep("stamp")
    /\ due' = FALSE
    /\ UNCHANGED <<queue, pendingAck, line, dbd, prepared, failed, live, lost>>

-----------------------------------------------------------------------------
(* The timer, and the clock: RxmtInterval is over.                         *)
Tick(t) ==
    /\ t # "lock" /\ line[t] = "out"
    /\ Goto(t, "test")
    /\ UNCHANGED <<queue, pendingAck, due, dbd, job, prepared, failed, live, lost, raced>>

Overdue ==
    /\ ~due /\ due' = TRUE
    /\ UNCHANGED <<queue, pendingAck, line, dbd, job, prepared, failed, live, lost, raced>>

(* SendDBDReady.                                                           *)
Test(t) ==
    /\ line[t] = "test"
    /\ Goto(t, IF pendingAck # None /\ due THEN "requeue" ELSE "look")
    /\ Moves(t)
    /\ UNCHANGED <<queue, pendingAck, due, dbd, job, prepared, failed, live, lost>>

(* Another thread has cleared _dbdPendingAck in the meantime: its Key is   *)
(* read through null.  The timer swallows what a callback throws.          *)
Requeue(t) ==
    /\ line[t] = "requeue"
    /\ IF pendingAck = None
         THEN /\ Goto(t, "out")
              /\ failed' = (t = "lock")
              /\ UNCHANGED queue
         ELSE /\ Goto(t, "clear")
              /\ queue' = queue \cup {pendingAck}
              /\ UNCHANGED failed
    /\ Moves(t)
    /\ UNCHANGED <<pendingAck, due, dbd, job, prepared, live, lost>>

(* By now pending may be a DBD that another thread has taken and sent.     *)
Clear(t) ==
    /\ line[t] = "clear"
    /\ Goto(t, "look")
    /\ pendingAck' = None
    /\ lost' = lost \cup ({pendingAck} \ (queue \cup Held \cup {None}))
    /\ Moves(t)
    /\ UNCHANGED <<queue, due, dbd, job, prepared, failed, live>>

Look(t) ==
    /\ line[t] = "look"
    /\ Goto(t, IF pendingAck = None /\ queue # {} THEN "take" ELSE "out")
    /\ Moves(t)
    /\ UNCHANGED <<queue, pendingAck, due, dbd, job, prepared, failed, live, lost>>

Take(t) ==
    /\ line[t] = "take"
    /\ Goto(t, "remove")
    /\ dbd' = [dbd EXCEPT ![t] = IF queue = {} THEN None ELSE Min(queue)]
    /\ Moves(t)
    /\ UNCHANGED <<queue, pendingAck, due, job, prepared, failed, live, lost>>

(* A bug a change could bring in: what is newer is removed with it.        *)
RemoveNewer(t) ==
    /\ line[t] = "remove"
    /\ Goto(t, IF dbd[t] = None THEN "out" ELSE "keep")
    /\ queue' = {d \in queue : d < dbd[t]}
    /\ Moves(t)
    /\ UNCHANGED <<pendingAck, due, dbd, job, prepared, failed, live, lost>>

Remove(t) ==
    /\ line[t] = "remove"
    /\ Goto(t, IF dbd[t] = None THEN "out" ELSE "keep")
    /\ queue' = queue \ {dbd[t]}
    /\ Moves(t)
    /\ UNCHANGED <<pendingAck, due, dbd, job, prepared, failed, live, lost>>

(* Another thread may have made a DBD pending since the test.              *)
Keep(t) ==
    /\ line[t] = "keep"
    /\ Goto(t, "stamp")
    /\ pendingAck' = dbd[t]
    /\ lost' = lost \cup ({pendingAck} \ (queue \cup Held \cup {None}))
    /\ Moves(t)
    /\ UNCHANGED <<queue, due, dbd, job, prepared, failed, live>>

Stamp(t) ==
    /\ line[t] = "stamp"
    /\ Goto(t, "out")
    /\ due' = FALSE
    /\ dbd' = [dbd EXCEPT ![t] = None]
    /\ Moves(t)
    /\ UNCHANGED <<queue, pendingAck, job, prepared, failed, live, lost>>

SendStep(t) ==
    Test(t) \/ Requeue(t) \/ Clear(t) \/ Look(t) \/ Take(t) \/ Remove(t) \/ Keep(t) \/ Stamp(t)

Handler == BeginJob \/ Acknowledge \/ Flush \/ Add \/ SendNow \/ StampFirst

SenderNext ==
    /\ ~failed
    /\ Handler \/ Overdue \/ \E t \in Threads : Tick(t) \/ SendStep(t)

SenderSpec == SenderInit /\ [][SenderNext]_senderVars

-----------------------------------------------------------------------------
(* Neighbor.cs:374-386: however the threads interleave, a DBD that was     *)
(* prepared and neither acknowledged nor flushed is queued, pending, or in *)
(* the hands of a thread, unless a thread set _dbdPendingAck while another *)
(* one's DBD was there.  Taking a DBD before removing it, queueing one     *)
(* twice, or flushing under the feet of a sender loses nothing.            *)
OnlyPendingIsLost == live \ lost \subseteq queue \cup Held \cup {pendingAck}

(* Neighbor.cs:165-168, 350: as long as no thread enters while another is  *)
(* in the method or the handler acts while a callback runs, nothing is     *)
(* lost and no handler throws, in any sequence of handlers and overdue     *)
(* callbacks.  This is what OspfNeighbor's one-step SendDBDReady assumes.  *)
OnlyRacesLose == lost # {} \/ failed => raced

(* What the unlocked callback can cost: nothing before two threads meet in *)
(* the method, and then only a DBD that is written over while it is        *)
(* pending, none by being taken and removed in two lines                   *)
(* (Neighbor.cs:165-168, 374-386).                                         *)
LossNeedsARace == OnlyPendingIsLost /\ OnlyRacesLose
=============================================================================
