-------------------------- MODULE DbdSenderProofs --------------------------
(***************************************************************************)
(* What the lines of SendDBDReady lose and do not lose, and that they are  *)
(* one step of OspfNeighbor, for any number of callbacks at once and any   *)
(* number of DBDs.                                                         *)
(***************************************************************************)
EXTENDS DbdAtOnce, WellFoundedInduction, TLAPS

-----------------------------------------------------------------------------
(* The inductive invariants. *)

Lines == {"out", "test", "requeue", "clear", "look", "take", "remove", "keep", "stamp"}

\* The key None, which an empty queue and no pending DBD read as, is no DBD.
SenderTypes ==
    /\ line \in [Threads -> Lines]
    /\ DOMAIN dbd = Threads
    /\ prepared \in Nat
    /\ live \subseteq Nat \ {None}
    /\ queue \subseteq 1 .. prepared /\ pendingAck \in 0 .. prepared
    /\ \A t \in Threads : dbd[t] \in 0 .. prepared
    /\ due \in BOOLEAN

\* What a thread in the middle of the method may rely on when it is alone.
Found(t) ==
    /\ line[t] \in {"requeue", "clear"} => pendingAck # None /\ due
    /\ line[t] = "clear" => pendingAck \in queue
    /\ line[t] \in {"take", "remove", "keep"} => pendingAck = None
    /\ line[t] = "take" => queue # {}
    /\ line[t] = "remove" => dbd[t] \in queue
    /\ line[t] = "keep" => dbd[t] # None /\ dbd[t] \notin queue

\* Until two threads meet, no DBD is lost and no handler throws.  A callback
\* that has come in and not yet looked at anything has met nobody.
CalmInv ==
    ~raced =>
        /\ lost = {} /\ ~failed
        /\ \A t \in Threads : Found(t)
        /\ (\A t \in Threads : line[t] # "clear") => pendingAck \notin queue

-----------------------------------------------------------------------------
(* A thread that moves and meets nobody finds all others outside.          *)

LEMMA MeetsNobody ==
    ASSUME NEW t \in Threads, Moves(t), ~raced'
    PROVE  ~raced /\ \A u \in Threads \ {t} : line[u] = "out"
BY DEF Moves

\* Then only what it relies on itself is at stake.
LEMMA FoundAlone ==
    ASSUME SenderTypes, NEW t \in Threads, Moves(t), ~raced', Found(t)',
           \A u \in Threads \ {t} : line'[u] = line[u]
    PROVE  \A u \in Threads : Found(u)'
<1>1. ASSUME NEW u \in Threads \ {t} PROVE Found(u)'
  <2>1. line'[u] = "out"
    BY MeetsNobody
  <2>2. QED
    BY <2>1 DEF Found
<1>2. QED
  BY <1>1

\* A step that leaves the queue and what is pending alone keeps what all rely on.
LEMMA FoundFrame ==
    ASSUME \A u \in Threads : Found(u), UNCHANGED <<queue, pendingAck, dbd>>, due => due',
           \A u \in Threads : line'[u] \in {line[u], "out", "test"}
    PROVE  \A u \in Threads : Found(u)'
<1>1. ASSUME NEW u \in Threads PROVE Found(u)'
  <2>1. CASE line'[u] = line[u]
    BY <2>1 DEF Found
  <2>2. CASE line'[u] \in {"out", "test"}
    BY <2>2 DEF Found
  <2>3. QED
    BY <2>1, <2>2
<1>2. QED
  BY <1>1

-----------------------------------------------------------------------------
(* The lowest number of a queue. *)

LEMMA LeastNat ==
    ASSUME NEW S \in SUBSET Nat, S # {}
    PROVE  \E x \in S : \A y \in S : x <= y
<1> DEFINE R == {pair \in Nat \X Nat : pair[1] < pair[2]}
<1>1. IsWellFoundedOn(R, Nat)
  BY NatLessThanWellFounded DEF OpToRel
<1>2. PICK x \in S : \A y \in S : <<y, x>> \notin R
  <2> HIDE DEF R
  <2>1. QED
    BY <1>1, WFMin
<1>3. \A y \in S : ~(y < x)
  BY <1>2
<1>4. QED
  BY <1>2, <1>3

LEMMA LowestKey ==
    ASSUME SenderTypes, queue # {}
    PROVE  Min(queue) \in queue /\ \A d \in queue : Min(queue) <= d
<1>1. queue \in SUBSET Nat
  BY DEF SenderTypes
<1>2. \E x \in queue : \A y \in queue : x <= y
  BY <1>1, LeastNat
<1>3. QED
  BY <1>2 DEF Min

-----------------------------------------------------------------------------
(* Types. *)

LEMMA SenderInitTypes == SenderInit => SenderTypes
BY DEF SenderInit, SenderTypes, Lines, None

LEMMA SenderStepTypes == SenderTypes /\ [SenderNext]_senderVars => SenderTypes'
<1> SUFFICES ASSUME SenderTypes, [SenderNext]_senderVars PROVE SenderTypes'
  OBVIOUS
<1>1. CASE Handler
  <2> USE DEF SenderTypes, Lines, None
  <2>1. CASE Add
    <3>1. /\ prepared' = prepared + 1 /\ prepared \in Nat
          /\ queue' = queue \cup {prepared'} /\ live' = live \cup {prepared'}
          /\ UNCHANGED <<pendingAck, due, line, dbd>>
      BY <2>1 DEF Add
    <3>2. 1 .. prepared \subseteq 1 .. prepared' /\ 0 .. prepared \subseteq 0 .. prepared'
      BY <3>1
    <3>3. prepared' \in 1 .. prepared' /\ prepared' \in Nat \ {None}
      BY <3>1
    <3>4. QED
      BY <3>1, <3>2, <3>3
  <2>2. CASE SendNow
    BY <2>2 DEF SendNow, Goto
  <2>3. CASE BeginJob \/ StampFirst
    BY <2>3 DEF BeginJob, StampFirst
  <2>4. CASE Acknowledge \/ Flush
    <3>1. /\ pendingAck' \in {pendingAck, 0} /\ queue' \subseteq queue /\ live' \subseteq live
          /\ UNCHANGED <<due, line, dbd, prepared>>
      BY <2>4 DEF Acknowledge, Flush
    <3>2. 0 \in 0 .. prepared
      OBVIOUS
    <3>3. QED
      BY <3>1, <3>2
  <2>5. QED
    BY <1>1, <2>1, <2>2, <2>3, <2>4 DEF Handler
<1>2. ASSUME NEW t \in Threads, Tick(t) PROVE SenderTypes'
  BY <1>2 DEF Tick, Goto, SenderTypes, Lines
<1>3. ASSUME NEW t \in Threads, SendStep(t) PROVE SenderTypes'
  <2>1. UNCHANGED <<prepared, live>>
    BY <1>3 DEF SendStep, Test, Requeue, Clear, Look, Take, Remove, Keep, Stamp
  <2>2. \E l \in Lines : line' = [line EXCEPT ![t] = l]
    BY <1>3 DEF SendStep, Test, Requeue, Clear, Look, Take, Remove, Keep, Stamp, Goto, Lines
  <2>3. line' \in [Threads -> Lines]
    BY <2>2 DEF SenderTypes
  <2>4. due' \in BOOLEAN
    BY <1>3 DEF SendStep, Test, Requeue, Clear, Look, Take, Remove, Keep, Stamp, SenderTypes
  <2>5. queue' \subseteq 1 .. prepared
    <3>1. \/ queue' = queue
          \/ queue' = queue \ {dbd[t]}
          \/ queue' = queue \cup {pendingAck} /\ pendingAck # None
      BY <1>3 DEF SendStep, Test, Requeue, Clear, Look, Take, Remove, Keep, Stamp
    <3>2. /\ queue \subseteq 1 .. prepared /\ pendingAck \in 0 .. prepared
          /\ prepared \in Nat
      BY DEF SenderTypes
    <3>3. pendingAck # None => pendingAck \in 1 .. prepared
      BY <3>2 DEF None
    <3>4. QED
      BY <3>1, <3>2, <3>3
  <2>6. pendingAck' \in 0 .. prepared
    BY <1>3 DEF SendStep, Test, Requeue, Clear, Look, Take, Remove, Keep, Stamp, SenderTypes,
       None
  <2>7. DOMAIN dbd' = Threads /\ \A u \in Threads : dbd'[u] \in 0 .. prepared
    <3>1. ASSUME queue # {} PROVE Min(queue) \in 0 .. prepared
      <4>1. Min(queue) \in 1 .. prepared /\ prepared \in Nat
        BY <3>1, LowestKey DEF SenderTypes
      <4>2. QED
        BY <4>1
    <3>2. CASE Take(t)
      BY <3>1, <3>2 DEF Take, SenderTypes, None
    <3>3. CASE Stamp(t)
      BY <3>3 DEF Stamp, SenderTypes, None
    <3>4. CASE UNCHANGED dbd
      BY <3>4 DEF SenderTypes
    <3>5. QED
      BY <1>3, <3>2, <3>3, <3>4 DEF SendStep, Test, Requeue, Clear, Look, Remove, Keep
  <2>8. QED
    BY <2>1, <2>3, <2>4, <2>5, <2>6, <2>7 DEF SenderTypes
<1>4. CASE Overdue \/ UNCHANGED senderVars
  BY <1>4 DEF Overdue, senderVars, SenderTypes
<1>5. QED
  BY <1>1, <1>2, <1>3, <1>4 DEF SenderNext

-----------------------------------------------------------------------------
(* OnlyPendingIsLost, one lemma per place a DBD can be taken from. *)

\* What a thread holds is held as long as it stays on its two lines.
LEMMA HeldFrame ==
    ASSUME SenderTypes, UNCHANGED dbd,
           \A u \in Threads : line[u] \in {"remove", "keep"} => line'[u] \in {"remove", "keep"}
    PROVE  Held \subseteq Held'
BY DEF Held

LEMMA HandlerLoses ==
    ASSUME SenderTypes, OnlyPendingIsLost, Handler
    PROVE  OnlyPendingIsLost'
<1>1. Held \subseteq Held'
  <2>1. \A u \in Threads : line[u] \in {"remove", "keep"} => line'[u] \in {"remove", "keep"}
    BY DEF Handler, HandlerStep, BeginJob, Acknowledge, Flush, Add, SendNow, StampFirst,
           Goto, SenderTypes
  <2>2. UNCHANGED dbd
    BY DEF Handler, BeginJob, Acknowledge, Flush, Add, SendNow, StampFirst
  <2>3. QED
    BY <2>1, <2>2, HeldFrame
<1>2. UNCHANGED lost
  BY DEF Handler, BeginJob, Acknowledge, Flush, Add, SendNow, StampFirst
<1>3. CASE BeginJob \/ SendNow \/ StampFirst
  BY <1>1, <1>2, <1>3 DEF BeginJob, SendNow, StampFirst, OnlyPendingIsLost
<1>4. CASE Acknowledge
  BY <1>1, <1>2, <1>4 DEF Acknowledge, OnlyPendingIsLost
<1>5. CASE Flush
  BY <1>1, <1>2, <1>5 DEF Flush, OnlyPendingIsLost
<1>6. CASE Add
  BY <1>1, <1>2, <1>6 DEF Add, OnlyPendingIsLost
<1>7. QED
  BY <1>3, <1>4, <1>5, <1>6 DEF Handler

LEMMA SenderLoses ==
    ASSUME SenderTypes, OnlyPendingIsLost, NEW t \in Threads, SendStep(t)
    PROVE  OnlyPendingIsLost'
<1> USE DEF Goto
<1>1. UNCHANGED live
  BY DEF SendStep, Test, Requeue, Clear, Look, Take, Remove, Keep, Stamp
<1>2. CASE Test(t) \/ Requeue(t) \/ Look(t)
  <2>1. Held \subseteq Held'
    BY <1>2, HeldFrame DEF Test, Requeue, Look, SenderTypes
  <2>2. QED
    BY <1>1, <1>2, <2>1 DEF Test, Requeue, Look, OnlyPendingIsLost
<1>3. CASE Take(t)
  <2>1. Held \subseteq Held'
    BY <1>3 DEF Take, SenderTypes, Held
  <2>2. QED
    BY <1>1, <1>3, <2>1 DEF Take, OnlyPendingIsLost
<1>4. CASE Stamp(t)
  <2>1. Held \subseteq Held'
    BY <1>4 DEF Stamp, SenderTypes, Held
  <2>2. QED
    BY <1>1, <1>4, <2>1 DEF Stamp, OnlyPendingIsLost
<1>5. CASE Clear(t)
  <2>1. Held \subseteq Held'
    BY <1>5, HeldFrame DEF Clear, SenderTypes
  <2>2. QED
    BY <1>1, <1>5, <2>1 DEF Clear, OnlyPendingIsLost, SenderTypes
<1>6. CASE Remove(t)
  <2>1. Held \subseteq Held' \cup {None}
    BY <1>6 DEF Remove, SenderTypes, Held
  <2>2. dbd[t] \in Held' \cup {None}
    BY <1>6 DEF Remove, SenderTypes, Held
  <2>3. QED
    BY <1>1, <1>6, <2>1, <2>2 DEF Remove, OnlyPendingIsLost, SenderTypes
<1>7. CASE Keep(t)
  <2>1. Held \subseteq Held' \cup {dbd[t]}
    BY <1>7 DEF Keep, SenderTypes, Held
  <2>2. QED
    BY <1>1, <1>7, <2>1 DEF Keep, OnlyPendingIsLost, SenderTypes
<1>8. QED
  BY <1>2, <1>3, <1>4, <1>5, <1>6, <1>7 DEF SendStep

LEMMA StepLoses ==
    SenderTypes /\ OnlyPendingIsLost /\ [SenderNext]_senderVars => OnlyPendingIsLost'
<1> SUFFICES ASSUME SenderTypes, OnlyPendingIsLost, [SenderNext]_senderVars
             PROVE  OnlyPendingIsLost'
  OBVIOUS
<1>1. ASSUME NEW t \in Threads, Tick(t) PROVE OnlyPendingIsLost'
  <2>1. Held \subseteq Held'
    BY <1>1, HeldFrame DEF Tick, Goto, SenderTypes
  <2>2. QED
    BY <1>1, <2>1 DEF Tick, OnlyPendingIsLost
<1>2. CASE Overdue \/ UNCHANGED senderVars
  BY <1>2 DEF Overdue, senderVars, OnlyPendingIsLost, Held
<1>3. QED
  BY <1>1, <1>2, HandlerLoses, SenderLoses DEF SenderNext

-----------------------------------------------------------------------------
(* OnlyRacesLose. *)

\* The number of a DBD that is added is not in use.
LEMMA NewKey ==
    ASSUME SenderTypes
    PROVE  /\ prepared + 1 \notin queue \cup {pendingAck} \cup {None}
           /\ None \notin queue
<1>1. prepared \in Nat /\ queue \subseteq 1 .. prepared /\ pendingAck \in 0 .. prepared
  BY DEF SenderTypes
<1>2. prepared + 1 \notin 0 .. prepared /\ 1 .. prepared \subseteq 0 .. prepared
  BY <1>1
<1>3. QED
  BY <1>1, <1>2 DEF None

LEMMA HandlerCalm ==
    ASSUME SenderTypes, CalmInv, Handler
    PROVE  CalmInv'
<1> SUFFICES ASSUME ~raced'
             PROVE  /\ lost' = {} /\ ~failed' /\ \A t \in Threads : Found(t)'
                    /\ (\A t \in Threads : line'[t] # "clear") => pendingAck' \notin queue'
  BY DEF CalmInv
<1>1. CASE BeginJob
  BY <1>1, FoundFrame DEF BeginJob, CalmInv
<1>2. CASE Acknowledge \/ Flush \/ Add \/ SendNow \/ StampFirst
  <2>1. Moves("lock") /\ "lock" \in Threads /\ line["lock"] = "out"
    BY <1>2 DEF Acknowledge, Flush, Add, SendNow, StampFirst, HandlerStep, Threads
  <2>2. ~raced /\ \A t \in Threads : line[t] = "out"
    BY <2>1, MeetsNobody
  <2>3. UNCHANGED <<lost, failed>>
    BY <1>2 DEF Acknowledge, Flush, Add, SendNow, StampFirst
  <2>4. /\ line'["lock"] \in {"out", "test"}
        /\ \A u \in Threads \ {"lock"} : line'[u] = line[u]
    BY <1>2, <2>1 DEF Acknowledge, Flush, Add, SendNow, StampFirst, Goto, SenderTypes
  <2>5. Found("lock")'
    BY <2>4 DEF Found
  <2>6. pendingAck \notin queue
    BY <2>2 DEF CalmInv
  <2>7. pendingAck' \notin queue'
    BY <1>2, <2>6, NewKey DEF Acknowledge, Flush, Add, SendNow, StampFirst, HandlerStep
  <2>8. QED
    BY <2>1, <2>2, <2>3, <2>4, <2>5, <2>7, FoundAlone DEF CalmInv
<1>3. QED
  BY <1>1, <1>2 DEF Handler

LEMMA SenderCalm ==
    ASSUME SenderTypes, CalmInv, NEW t \in Threads, SendStep(t)
    PROVE  CalmInv'
<1> SUFFICES ASSUME ~raced'
             PROVE  /\ lost' = {} /\ ~failed' /\ \A u \in Threads : Found(u)'
                    /\ (\A u \in Threads : line'[u] # "clear") => pendingAck' \notin queue'
  BY DEF CalmInv
<1>1. Moves(t)
  BY DEF SendStep, Test, Requeue, Clear, Look, Take, Remove, Keep, Stamp
<1>2. /\ lost = {} /\ ~failed /\ Found(t)
      /\ line[t] # "clear" => pendingAck \notin queue
  <2>1. \A u \in Threads \ {t} : line[u] # "clear"
    BY <1>1, MeetsNobody
  <2>2. QED
    BY <1>1, <2>1, MeetsNobody DEF CalmInv
<1>3. \A u \in Threads \ {t} : line'[u] = line[u]
  BY DEF SendStep, Test, Requeue, Clear, Look, Take, Remove, Keep, Stamp, SenderTypes, Goto
<1>4. SUFFICES /\ lost' = {} /\ ~failed' /\ Found(t)'
               /\ line'[t] # "clear" => pendingAck' \notin queue'
  BY <1>1, <1>3, FoundAlone
<1>5. t \in DOMAIN line /\ t \in DOMAIN dbd /\ None \notin queue
  BY DEF SenderTypes, None
<1> USE DEF Goto
<1>6. CASE Test(t)
  BY <1>2, <1>5, <1>6 DEF Test, Found
<1>7. CASE Requeue(t)
  BY <1>2, <1>5, <1>7 DEF Requeue, Found
<1>8. CASE Clear(t)
  BY <1>2, <1>5, <1>8 DEF Clear, Found
<1>9. CASE Look(t)
  BY <1>2, <1>5, <1>9 DEF Look, Found
<1>10. CASE Take(t)
  BY <1>2, <1>5, <1>10, LowestKey DEF Take, Found
<1>11. CASE Remove(t)
  BY <1>2, <1>5, <1>11 DEF Remove, Found
<1>12. CASE Keep(t)
  BY <1>2, <1>5, <1>12 DEF Keep, Found
<1>13. CASE Stamp(t)
  BY <1>2, <1>5, <1>13 DEF Stamp, Found
<1>14. QED
  BY <1>6, <1>7, <1>8, <1>9, <1>10, <1>11, <1>12, <1>13 DEF SendStep

LEMMA StepCalm == SenderTypes /\ CalmInv /\ [SenderNext]_senderVars => CalmInv'
<1> SUFFICES ASSUME SenderTypes, CalmInv, [SenderNext]_senderVars PROVE CalmInv'
  OBVIOUS
<1>1. ASSUME NEW t \in Threads, Tick(t) PROVE CalmInv'
  <2>1. \A u \in Threads : line'[u] # line[u] => line[u] = "out" /\ line'[u] = "test"
    BY <1>1 DEF Tick, Goto, SenderTypes
  <2>2. QED
    BY <1>1, <2>1, FoundFrame DEF Tick, CalmInv
<1>2. CASE Overdue \/ UNCHANGED senderVars
  BY <1>2, FoundFrame DEF Overdue, senderVars, CalmInv
<1>3. QED
  BY <1>1, <1>2, HandlerCalm, SenderCalm DEF SenderNext

-----------------------------------------------------------------------------
(* SendsAtOnce: the queue of the lines and the queue of OspfNeighbor. *)

LEMMA DbdsAre ==
    ASSUME NEW K, NEW k
    PROVE  /\ [seq |-> k] \in Dbds(K) <=> k \in K
           /\ Dbds(K) = {} <=> K = {}
           /\ \A d \in Dbds(K) : d.seq \in K /\ d = [seq |-> d.seq]
<1>1. \A d \in Dbds(K) : \E j \in K : d = [seq |-> j]
  BY DEF Dbds
<1>2. \A d \in Dbds(K) : d.seq \in K /\ d = [seq |-> d.seq]
  BY <1>1
<1>3. \A j \in K : [seq |-> j] \in Dbds(K)
  BY DEF Dbds
<1>4. [seq |-> k].seq = k
  OBVIOUS
<1>5. QED
  BY <1>1, <1>2, <1>3, <1>4

LEMMA DbdsWithout ==
    ASSUME NEW K, NEW k
    PROVE  /\ Dbds(K \ {k}) = Dbds(K) \ {[seq |-> k]}
           /\ Dbds(K \cup {k}) = Dbds(K) \cup {[seq |-> k]}
           /\ Dbds({k}) = {[seq |-> k]}
<1>1. \A j : [seq |-> j] = [seq |-> k] <=> j = k
  <2>1. ASSUME NEW j, [seq |-> j] = [seq |-> k] PROVE j = k
    <3>1. [seq |-> j].seq = [seq |-> k].seq
      BY <2>1
    <3>2. QED
      BY <3>1
  <2>2. QED
    BY <2>1
<1>2. QED
  BY <1>1 DEF Dbds

LEMMA PutNew ==
    ASSUME NEW K, NEW k, k \notin K
    PROVE  Put(Dbds(K), [seq |-> k]) = {Dbds(K \cup {k})}
<1>1. \A e \in Dbds(K) : e.seq # [seq |-> k].seq
  BY DbdsAre
<1>2. QED
  BY <1>1, DbdsWithout DEF Put

\* With nothing unacknowledged the lowest is sent.
LEMMA LowestIsSent ==
    ASSUME NEW K \in SUBSET Nat, NEW k \in K, \A j \in K : k <= j, NEW late
    PROVE  \E r \in Ready(Dbds(K), {}, late) :
              r.list = Dbds(K \ {k}) /\ r.pend = Dbds({k})
<1> DEFINE d == [seq |-> k]
           r == [list |-> Dbds(K) \ {d}, pend |-> {d}, out |-> {d}]
<1>1. d \in Lowest(Dbds(K))
  BY DbdsAre DEF Lowest
<1>2. Dbds(K) # {}
  BY DbdsAre
<1>3. r \in Ready(Dbds(K), {}, late)
  BY <1>1, <1>2 DEF Ready
<1>4. r.list = Dbds(K \ {k}) /\ r.pend = Dbds({k})
  BY DbdsWithout
<1>5. QED
  BY <1>3, <1>4

\* An overdue DBD goes back to the queue first.
LEMMA OverdueIsSent ==
    ASSUME NEW K \in SUBSET Nat, NEW k \in K, \A j \in K : k <= j, NEW p \in K
    PROVE  \E r \in Ready(Dbds(K \ {p}), Dbds({p}), TRUE) :
              r.list = Dbds(K \ {k}) /\ r.pend = Dbds({k})
<1> DEFINE d == [seq |-> k]
           r == [list |-> Dbds(K) \ {d}, pend |-> {d}, out |-> {d}]
<1>1. d \in Lowest(Dbds(K))
  BY DbdsAre DEF Lowest
<1>2. Dbds(K) # {}
  BY DbdsAre
<1>3. UNION {Put(Dbds(K \ {p}), e) : e \in Dbds({p})} = {Dbds(K)}
  <2>1. (K \ {p}) \cup {p} = K
    OBVIOUS
  <2>2. Put(Dbds(K \ {p}), [seq |-> p]) = {Dbds(K)}
    BY <2>1, PutNew
  <2>3. Dbds({p}) = {[seq |-> p]}
    BY DbdsWithout
  <2>4. QED
    BY <2>2, <2>3
<1>4. Dbds({p}) # {}
  BY DbdsAre
<1>5. r \in Ready(Dbds(K \ {p}), Dbds({p}), TRUE)
  <2> DEFINE late   == Dbds(K \ {p})
             pend   == Dbds({p})
             q      == Dbds(K)
             sent   == {[list |-> q \ {e}, pend |-> {e}, out |-> {e}] : e \in Lowest(q)}
  <2>1. UNION {Put(late, e) : e \in pend} = {q}
    BY <1>3
  <2>2. pend # {} /\ q # {}
    BY <1>2, <1>4
  <2>3. r \in sent
    BY <1>1
  <2> HIDE DEF late, pend, q, r
  <2>4. sent \subseteq Ready(late, pend, TRUE)
    BY <2>1, <2>2 DEF Ready
  <2>5. QED
    BY <2>3, <2>4 DEF late, pend
<1>6. r.list = Dbds(K \ {k}) /\ r.pend = Dbds({k})
  BY DbdsWithout
<1>7. QED
  BY <1>5, <1>6

\* InHand, of given values of the variables.
HandOf(p, q, l, d) ==
    IF p = None /\ q # {} /\ \E t \in Threads : l[t] \in {"look", "take"}
    THEN {Min(q)}
    ELSE {d[t] : t \in {u \in Threads : l[u] \in {"remove", "keep"}}} \cup ({p} \ {None})

LEMMA InHandIs ==
    /\ InHand = HandOf(pendingAck, queue, line, dbd)
    /\ InHand' = HandOf(pendingAck', queue', line', dbd')
BY DEF InHand, HandOf, Held

\* Where at most one thread is past the test.
LEMMA HandAlone ==
    ASSUME NEW p, NEW q, NEW l, NEW d, NEW t \in Threads,
           \A u \in Threads \ {t} : l[u] \in {"out", "test"}
    PROVE  /\ l[t] \in {"look", "take"} /\ p = None /\ q # {} => HandOf(p, q, l, d) = {Min(q)}
           /\ l[t] \in {"look", "take"} /\ ~(p = None /\ q # {})
                 => HandOf(p, q, l, d) = {p} \ {None}
           /\ l[t] \in {"remove", "keep"} => HandOf(p, q, l, d) = {d[t]} \cup ({p} \ {None})
           /\ l[t] \in {"out", "test", "requeue", "clear", "stamp"}
                 => HandOf(p, q, l, d) = {p} \ {None}
BY DEF HandOf

\* No matter who enters and who leaves from the test.
LEMMA HandFrame ==
    ASSUME NEW p, NEW q, NEW l, NEW m, NEW d,
           \A u \in Threads : l[u] # m[u] => {l[u], m[u]} \subseteq {"out", "test"}
    PROVE  HandOf(p, q, l, d) = HandOf(p, q, m, d)
<1>1. \A u \in Threads : /\ l[u] \in {"look", "take"} <=> m[u] \in {"look", "take"}
                         /\ l[u] \in {"remove", "keep"} <=> m[u] \in {"remove", "keep"}
  OBVIOUS
<1>2. QED
  BY <1>1 DEF HandOf

Outside == \/ AcknowledgesAtOnce \/ FlushesAtOnce \/ AddsAtOnce \/ ReadyAtOnce
           \/ UNCHANGED <<Waiting, Unacked>>

LEMMA Unseen ==
    ASSUME UNCHANGED InHand, queue' \ InHand = queue \ InHand
    PROVE  Outside
BY DEF Outside, Waiting, Unacked, Dbds

LEMMA HandlerAtOnce ==
    ASSUME SenderTypes, CalmInv, ~raced', Handler
    PROVE  Outside
<1>1. CASE BeginJob
  <2>1. UNCHANGED <<pendingAck, queue, line, dbd>>
    BY <1>1 DEF BeginJob
  <2>2. QED
    BY <2>1, InHandIs, Unseen
<1>2. CASE Acknowledge \/ Flush \/ Add \/ SendNow \/ StampFirst
  <2>1. Moves("lock") /\ "lock" \in Threads /\ line["lock"] = "out"
    BY <1>2 DEF Acknowledge, Flush, Add, SendNow, StampFirst, HandlerStep, Threads
  <2>2. ~raced /\ \A t \in Threads : line[t] = "out"
    BY <2>1, MeetsNobody
  <2>3. \A t \in Threads : line'[t] \in {"out", "test"}
    BY <1>2, <2>2 DEF Acknowledge, Flush, Add, SendNow, StampFirst, Goto, SenderTypes
  <2>4. InHand = {pendingAck} \ {None}
    BY <2>2 DEF InHand, Held
  <2>5. InHand' = {pendingAck'} \ {None}
    BY <2>1, <2>3, InHandIs, HandAlone
  <2>6. pendingAck \notin queue /\ None \notin queue
    BY <2>2, NewKey DEF CalmInv
  <2>7. queue \ InHand = queue
    BY <2>4, <2>6
  <2>8. CASE Acknowledge
    <3>1. pendingAck' = None /\ queue' = queue
      BY <2>8 DEF Acknowledge
    <3>2. InHand' = {} /\ queue' \ InHand' = queue
      BY <2>5, <3>1
    <3>3. QED
      BY <2>7, <2>8, <3>2, DbdsAre DEF Outside, AcknowledgesAtOnce, Waiting, Unacked
  <2>9. CASE Flush
    <3>1. pendingAck' = pendingAck /\ queue' = {}
      BY <2>9 DEF Flush
    <3>2. InHand' = InHand /\ queue' \ InHand' = {}
      BY <2>4, <2>5, <3>1
    <3>3. QED
      BY <2>9, <3>2, DbdsAre DEF Outside, FlushesAtOnce, Waiting, Unacked
  <2>10. CASE Add
    <3>1. /\ pendingAck' = pendingAck /\ prepared' = prepared + 1
          /\ queue' = queue \cup {prepared'}
      BY <2>10 DEF Add
    <3>2. prepared' \notin queue /\ prepared' # pendingAck
      BY <3>1, NewKey
    <3>3. InHand' = InHand /\ queue' \ InHand' = queue \cup {prepared'}
      BY <2>4, <2>5, <2>7, <3>1, <3>2
    <3>4. Put(Dbds(queue), [seq |-> prepared']) = {Dbds(queue \cup {prepared'})}
      BY <3>2, PutNew
    <3>5. QED
      BY <2>7, <2>10, <3>3, <3>4 DEF Outside, AddsAtOnce, Waiting, Unacked
  <2>11. CASE SendNow \/ StampFirst
    <3>1. UNCHANGED <<pendingAck, queue>>
      BY <2>11 DEF SendNow, StampFirst
    <3>2. QED
      BY <2>4, <2>5, <3>1, Unseen
  <2>12. QED
    BY <1>2, <2>8, <2>9, <2>10, <2>11
<1>3. QED
  BY <1>1, <1>2 DEF Handler

LEMMA SenderAtOnce ==
    ASSUME SenderTypes, CalmInv, ~raced', NEW t \in Threads, SendStep(t)
    PROVE  Outside
<1>1. Moves(t)
  BY DEF SendStep, Test, Requeue, Clear, Look, Take, Remove, Keep, Stamp
<1>2. ~raced /\ \A u \in Threads \ {t} : line[u] = "out"
  BY <1>1, MeetsNobody
<1>3. \A u \in Threads \ {t} : line'[u] = "out"
  BY <1>2 DEF SendStep, Test, Requeue, Clear, Look, Take, Remove, Keep, Stamp, SenderTypes, Goto
<1>4. Found(t) /\ (line[t] # "clear" => pendingAck \notin queue)
  BY <1>2 DEF CalmInv
<1>5. t \in DOMAIN line /\ t \in DOMAIN dbd /\ None \notin queue /\ queue \in SUBSET Nat
  BY DEF SenderTypes, None
<1>6. queue # {} => Min(queue) \in queue /\ \A j \in queue : Min(queue) <= j
  BY LowestKey
<1> DEFINE before == HandOf(pendingAck, queue, line, dbd)
           after  == HandOf(pendingAck', queue', line', dbd')
<1>7. InHand = before /\ InHand' = after
  BY InHandIs
<1>8. /\ line[t] \in {"look", "take"} /\ pendingAck = None /\ queue # {} => before = {Min(queue)}
      /\ line[t] \in {"look", "take"} /\ ~(pendingAck = None /\ queue # {})
            => before = {pendingAck} \ {None}
      /\ line[t] \in {"remove", "keep"} => before = {dbd[t]} \cup ({pendingAck} \ {None})
      /\ line[t] \in {"out", "test", "requeue", "clear", "stamp"}
            => before = {pendingAck} \ {None}
  <2>1. \A u \in Threads \ {t} : line[u] \in {"out", "test"}
    BY <1>2
  <2>2. QED
    BY <2>1, HandAlone
<1>9. /\ line'[t] \in {"look", "take"} /\ pendingAck' = None /\ queue' # {}
            => after = {Min(queue')}
      /\ line'[t] \in {"look", "take"} /\ ~(pendingAck' = None /\ queue' # {})
            => after = {pendingAck'} \ {None}
      /\ line'[t] \in {"remove", "keep"} => after = {dbd'[t]} \cup ({pendingAck'} \ {None})
      /\ line'[t] \in {"out", "test", "requeue", "clear", "stamp"}
            => after = {pendingAck'} \ {None}
  <2>1. \A u \in Threads \ {t} : line'[u] \in {"out", "test"}
    BY <1>3
  <2>2. QED
    BY <2>1, HandAlone
<1> HIDE DEF before, after
<1> USE DEF Goto, Found
<1>10. CASE Test(t)
  <2>1. UNCHANGED <<queue, pendingAck, due>> /\ before = {pendingAck} \ {None}
    BY <1>8, <1>10 DEF Test
  <2>2. CASE pendingAck = None /\ queue # {}
    <3>1. after = {Min(queue)}
      BY <1>5, <1>9, <1>10, <2>1, <2>2 DEF Test
    <3>2. \E r \in Ready(Dbds(queue), {}, due) :
             r.list = Dbds(queue \ {Min(queue)}) /\ r.pend = Dbds({Min(queue)})
      BY <1>5, <1>6, <2>2, LowestIsSent
    <3>3. before = {} /\ queue \ before = queue
      BY <2>1, <2>2
    <3>4. Unacked = {} /\ Waiting = Dbds(queue)
      BY <1>7, <3>3, DbdsAre DEF Unacked, Waiting
    <3>5. Unacked' = Dbds({Min(queue)}) /\ Waiting' = Dbds(queue \ {Min(queue)})
      BY <1>7, <2>1, <3>1 DEF Unacked, Waiting, Dbds
    <3>6. QED
      BY <3>2, <3>4, <3>5 DEF Outside, ReadyAtOnce
  <2>3. CASE ~(pendingAck = None /\ queue # {})
    <3>1. after = before
      BY <1>5, <1>9, <1>10, <2>1, <2>3 DEF Test
    <3>2. QED
      BY <1>7, <2>1, <3>1, Unseen
  <2>4. QED
    BY <2>2, <2>3
<1>11. CASE Requeue(t)
  <2>1. /\ pendingAck # None /\ UNCHANGED pendingAck /\ queue' = queue \cup {pendingAck}
        /\ line'[t] = "clear"
    BY <1>4, <1>5, <1>11 DEF Requeue
  <2>2. before = {pendingAck} /\ after = {pendingAck}
    BY <1>8, <1>9, <1>11, <2>1 DEF Requeue
  <2>3. queue' \ {pendingAck} = queue \ {pendingAck}
    BY <2>1
  <2>4. QED
    BY <1>7, <2>2, <2>3, Unseen
<1>12. CASE Clear(t)
  <2>1. /\ pendingAck \in queue /\ due = TRUE /\ pendingAck' = None /\ UNCHANGED queue
        /\ line[t] = "clear" /\ line'[t] = "look"
    BY <1>4, <1>5, <1>12 DEF Clear, SenderTypes
  <2>2. before = {pendingAck} /\ after = {Min(queue)}
    BY <1>5, <1>8, <1>9, <2>1
  <2>3. \E r \in Ready(Dbds(queue \ {pendingAck}), Dbds({pendingAck}), TRUE) :
           r.list = Dbds(queue \ {Min(queue)}) /\ r.pend = Dbds({Min(queue)})
    BY <1>5, <1>6, <2>1, OverdueIsSent
  <2>4. Unacked = Dbds({pendingAck}) /\ Waiting = Dbds(queue \ {pendingAck})
    BY <1>7, <2>2 DEF Unacked, Waiting
  <2>5. Unacked' = Dbds({Min(queue)}) /\ Waiting' = Dbds(queue \ {Min(queue)})
    BY <1>7, <2>1, <2>2 DEF Unacked, Waiting, Dbds
  <2>6. QED
    BY <2>1, <2>3, <2>4, <2>5 DEF Outside, ReadyAtOnce
<1>13. CASE Look(t)
  <2>1. UNCHANGED <<pendingAck, queue>> /\ line[t] = "look"
    BY <1>13 DEF Look
  <2>2. line'[t] = IF pendingAck = None /\ queue # {} THEN "take" ELSE "out"
    BY <1>5, <1>13 DEF Look
  <2>3. after = before
    BY <1>8, <1>9, <2>1, <2>2
  <2>4. QED
    BY <1>7, <2>1, <2>3, Unseen
<1>14. CASE Take(t)
  <2>1. /\ UNCHANGED <<pendingAck, queue>> /\ line[t] = "take" /\ line'[t] = "remove"
        /\ pendingAck = None /\ queue # {} /\ dbd'[t] = Min(queue)
    BY <1>4, <1>5, <1>14 DEF Take
  <2>2. after = before
    BY <1>8, <1>9, <2>1
  <2>3. QED
    BY <1>7, <2>1, <2>2, Unseen
<1>15. CASE Remove(t)
  <2>1. /\ UNCHANGED <<pendingAck, dbd>> /\ line[t] = "remove" /\ line'[t] = "keep"
        /\ pendingAck = None /\ queue' = queue \ {dbd[t]}
    BY <1>4, <1>5, <1>15 DEF Remove
  <2>2. before = {dbd[t]} /\ after = {dbd[t]}
    BY <1>8, <1>9, <2>1
  <2>3. queue' \ {dbd[t]} = queue \ {dbd[t]}
    BY <2>1
  <2>4. QED
    BY <1>7, <2>2, <2>3, Unseen
<1>16. CASE Keep(t)
  <2>1. /\ UNCHANGED <<queue, dbd>> /\ line[t] = "keep" /\ line'[t] = "stamp"
        /\ pendingAck = None /\ pendingAck' = dbd[t] /\ dbd[t] # None
    BY <1>4, <1>5, <1>16 DEF Keep
  <2>2. before = {dbd[t]} /\ after = {dbd[t]}
    BY <1>8, <1>9, <2>1
  <2>3. QED
    BY <1>7, <2>1, <2>2, Unseen
<1>17. CASE Stamp(t)
  <2>1. /\ UNCHANGED <<pendingAck, queue>> /\ line[t] = "stamp" /\ line'[t] = "out"
    BY <1>5, <1>17 DEF Stamp
  <2>2. after = before
    BY <1>8, <1>9, <2>1
  <2>3. QED
    BY <1>7, <2>1, <2>2, Unseen
<1>18. QED
  BY <1>10, <1>11, <1>12, <1>13, <1>14, <1>15, <1>16, <1>17 DEF SendStep

LEMMA StepAtOnce ==
    ASSUME SenderTypes, CalmInv, ~raced', [SenderNext]_senderVars
    PROVE  Outside
<1>1. ASSUME NEW t \in Threads, Tick(t) PROVE Outside
  <2>1. UNCHANGED <<pendingAck, queue, dbd>>
    BY <1>1 DEF Tick
  <2>2. \A u \in Threads : line[u] # line'[u] => {line[u], line'[u]} \subseteq {"out", "test"}
    BY <1>1 DEF Tick, Goto, SenderTypes
  <2>3. UNCHANGED InHand
    BY <2>1, <2>2, HandFrame, InHandIs
  <2>4. QED
    BY <2>1, <2>3, Unseen
<1>2. CASE Overdue \/ UNCHANGED senderVars
  <2>1. UNCHANGED <<pendingAck, queue, line, dbd>>
    BY <1>2 DEF Overdue, senderVars
  <2>2. QED
    BY <2>1, InHandIs, Unseen
<1>3. QED
  BY <1>1, <1>2, HandlerAtOnce, SenderAtOnce DEF SenderNext

-----------------------------------------------------------------------------
(* The theorems. *)

\* Whatever the callbacks and the handlers do to each other, SendDBDReady drops
\* a DBD only where it writes _dbdPendingAck over another one's
\* (Neighbor.cs:374-386).
LEMMA LosesOnlyPending == SenderSpec => []OnlyPendingIsLost
<1>1. SenderInit => OnlyPendingIsLost
  BY DEF SenderInit, OnlyPendingIsLost
<1>2. QED
  BY <1>1, SenderInitTypes, SenderStepTypes, StepLoses, PTL DEF SenderSpec

\* Taken for one step, as OspfNeighbor takes it, the method loses nothing and
\* throws nothing (Neighbor.cs:165-168, 350).
LEMMA LosesOnlyInRaces == SenderSpec => []OnlyRacesLose
<1>1. SenderInit => CalmInv
  BY DEF SenderInit, CalmInv, Found, Threads
<1>2. CalmInv => OnlyRacesLose
  BY DEF CalmInv, OnlyRacesLose
<1>3. QED
  BY <1>1, <1>2, SenderInitTypes, SenderStepTypes, StepCalm, PTL DEF SenderSpec

\* Without a race nothing is lost, and with one only what was pending
\* (Neighbor.cs:165-168, 374-386).
THEOREM LossesNeedRaces == SenderSpec => []LossNeedsARace
BY LosesOnlyPending, LosesOnlyInRaces, PTL DEF LossNeedsARace

\* Until two threads meet, the handlers and the callbacks do to the queue what
\* OspfNeighbor's handlers and its SendDBDReady do, each in one step
\* (Neighbor.cs:350-386).
THEOREM OneStep == SenderSpec => SendsAtOnce
<1>1. SenderInit => CalmInv
  BY DEF SenderInit, CalmInv, Found, Threads
<1>2. SenderTypes /\ CalmInv /\ [SenderNext]_senderVars
        => [raced' \/ AcknowledgesAtOnce \/ FlushesAtOnce \/ AddsAtOnce
              \/ ReadyAtOnce]_<<Waiting, Unacked>>
  BY StepAtOnce DEF Outside
<1>3. QED
  BY <1>1, <1>2, SenderInitTypes, SenderStepTypes, StepCalm, PTL DEF SenderSpec, SendsAtOnce
=============================================================================
