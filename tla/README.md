# netrouter in TLA+

A verification project for netrouter, a software router in C# over WinPcap
(`NetInterop.*`): it captures Ethernet frames, takes them apart in a chain of
handlers, and runs modules (OSPF, RIP, ICMP and the SYSTEM module with IP, ARP
and UDP) that answer, learn routes and send packets of their own.

The modules here are translations of the C# source at the lines that
`PROJECT.json` names under `map`. Where the code differs from what its names or
comments suggest, the model follows the code.

## 1. The system

### Threads

| Thread | What it runs | Locks it takes |
| --- | --- | --- |
| capture threads, one per device | `Monitor.RunIt`, `packet_handler` (Monitor.cpp:228-250), then `RoutingController.Begin` (323-393): every handler, the modules' subscriptions | `CallbackArray` and the static `Lock`, both over the whole packet |
| pool threads (`System.Timers.Timer`) | the callbacks of OSPF hello, wait, inactivity and send timers, of RIP routes and floods, of echo requests, IP identifications and ARP requests | whatever the callback takes, often nothing |
| the thread of `Enable` | starts the modules, then waits | `threadLock` in the timer it starts |
| the thread of Ctrl-C or of the window | `Disable` | `threadLock` |

An Elapsed callback may run late, after `Stop`, and at the same time as the
next one of its timer; an exception in it is swallowed. An exception in a packet
handler ends the process. Packets are therefore handled one at a time, and the
interesting concurrency is that of one packet thread with timers.

### Components

| Component | State | Operations | Interacts with | What is hard | What makes it correct | Module |
| --- | --- | --- | --- | --- | --- | --- |
| State machine (`StateMachine.cs`) | rows (state, event) -> action, next state | `Add` overloads, `RaiseEvent`, `GetNext` | used by OSPF interface and neighbour | overloads that drop an argument; `RaiseEvent` does not move the machine | every event has the row it is meant to have | `StateMachine` |
| OSPF neighbour (`Neighbor.cs`) | state, DD sequence number, role, lists, DBD queue, pending DBD, timers | hello and DBD handlers, `AdjOK`, timers | interface (DR, area), SYSTEM module (send) | free order of hellos, DBDs and timers; unlocked send timer; loss, restart | lists match the state, a negotiator keeps sending, negotiation goes on | `OspfNeighbor`, `OspfAdjacency`, `DbdSender`, `DbdAtOnce` |
| OSPF interface (`Interface.cs`, `OspfModule.cs`) | interface state, DR, BDR, NeighborMap, hello and wait timers | up/down, hello in and out, DR calculation, events | neighbours, device state | calculation against hello timer, wait timer and packets; torn reads | elected routers are heard, state and election agree, the wait ends | `DesignatedRouter`, `OspfElection`, `OspfInterface` |
| OSPF module and areas (`OspfModule.cs`, `Area.cs`) | active interfaces, areas, router id, first LSAs | `SetupInterfaceData`, `Initialize`, `InitLSBD` | devices, interfaces, neighbour's summary list | nested networks, wildcards compared as numbers, an interface chosen twice | an interface is in the area of its most specific network | `Startup` (later LSAs are not modelled: the neighbour sees their number) |
| RIP (`RipModule.cs`, `RipRoute.cs`, `RipHandler.cs`) | RipDatabase, route counters, update timer | response, request, flood, counters, removal | SYSTEM's RouteList, other routers | lock-free counters and tables; ghost routes; hold-down | tables agree, a sighted route stays, an unsighted one goes, updates go on | `Rip`, `RipFlood`, `RipNetwork` |
| Routing table (`SystemModule.cs:62-110`) | RouteList | RouteDiscovered, RouteRemoved | RIP, static routes | removal by network, not by route | same routes as the databases | in `Rip` |
| ARP (`SystemModule.cs:219-285`, `ArpData.cs`) | table, pending requests | lookup, reply, time-out | IP sending, capture thread | lock over the table, none over the requests | only solicited entries, no question once resolved | `Arp` |
| IP identification (`SystemModule.cs:23-52`, `IPPacketIdentifier.cs`) | number and list per destination, TTL countdowns | create, start, count, kill | IP sending | byte countdown without lock, numbers that wrap | a number sent is freed, and not before | `IpIdentifier` |
| IP fragmentation (`SystemModule.cs:149-199`) | loop variables | `CreatePacketData` | IP sending | header length, units of eight, 16 bits | fragments fit and say where they belong | `IpFragment` |
| ICMP echo (`IcmpModule.cs`) | sequence tracking map, timers | send, echo parsed, time-out | SYSTEM module | numbers used twice, late callbacks | every wait ends, no other request is dropped | `IcmpEcho` |
| Controller life cycle (`RoutingController.cs`, `Module.cs`, `Monitor.cpp`) | IsEnabled, modules' flags, capture loops | Enable, Disable, watch timer, capture | all modules | Disable against Enable; loops that have not begun; handles nobody has looked at | a stop stops everything; no handle is closed under its users | `Controller` |
| Handler pipeline (`RoutingController.cs` 252-393, 608-664, `Handler.cs`) | handler index, parser stack, properties, offset | `GetNextHandler`, `Begin`, `DeclareInteration`, `GetHeaderPackage` | all handlers, modules' subscriptions | chains that depend on configuration, catalog and packet; repeated handlers become siblings; one exception or endless loop stops everything | each header is read where it lies, the right module is told once, every frame is let go | `Pipeline` |
| Packet formats (Ethernet, ARP, IP, UDP, TCP, ICMP, OSPF, RIP, LDP, image handlers) | – | `Parse`, `GetBytes` | pipeline | lengths that count or leave out what follows; fields misread | what is sent is taken apart again | `Frames`, `Pipeline` |
| Addresses (`IPAddress.cs`, `MacAddress.cs`) | – | masks, networks, classes, order | everything | classes with two sets of masks | an interface is served by the networks it is in | `Addresses` |
| Devices (`RoutingController.cs` 400-593, 780-818, `Device.cs`, `IPConfiguration.cs`) | device map with numbers and IP configurations | `SetupDeviceInformation`, `GetInterfaceListForAddress` | adapters, configuration, RIP, OSPF, bridge | two lists of adapters numbered differently; exceptions half-way | the adapter that is opened is the device's | `Startup` (nothing changes a device later) |
| Bridge (`Monitor.cpp`) | pcap handles, callbacks | lists of adapters, open, capture, send | controller | native code, numbers of a list | an adapter is opened once; a loop can be stopped | `Startup`, `Controller` |
| Managed capture (`NetInterop.Connection/Context.cs`) | pcap handles, dictionaries | capture | nothing: its use is commented out | dictionaries published before they are filled | – | not modelled: dead code |
| Node.js binding (`netinterop.cc`, `netinterop_run.js`) | the script's device list | lists of devices and addresses | bridge | values cross as text | the script sees the machine the controller sees | `NodeBinding` |
| Configuration, console, window, image and sample modules | – | – | – | – | – | not modelled: configuration reading and user interface |

`PROJECT.json` lists every component with its files, its status and what is left
out of it, and under `hazards` the places that are hard to test, with the
properties that are for them.

## 2. The modules

Data is reduced to what the properties tell apart: a DBD is a record of its
flags, number and count, a network or an address is a model value. Every module
that a theorem is about is free of RECURSIVE operators.

* **`StateMachine`** – the rows each `Add` overload makes, and what
  `RaiseEvent` and `GetNext` read. `NextOf` is `GetNext`; nothing else moves a
  machine, as in the code.
* **`OspfNeighbor`** – one action per handler of `Neighbor.cs`, with the whole
  event table (`Table`). The environment is free: any hello, DBD, timer and
  owner event at any time. `SendDBDReady` is one step here. `LostGoesBack` is what
  the rows of the table register for a neighbour that is lost, `NoWayBack` what
  the code does.
* **`OspfAdjacency`** extends it to two routers with lossy channels (`chan`) and
  restarts. The DR is left free, so that whatever the election has decided is
  covered. `firsts` holds, of every number a negotiation began with
  (`Environment.TickCount`, `Ticks` here), whether it was even or odd.
* **`DbdSender`** – `SendDBDReady` line by line, with overlapping callbacks and
  the handlers' uses of the queue (`Jobs`). A DBD is its sequence number,
  counted up. One step is one use of `_dbdPendingAck` or of the queue; the two
  reads of line 374 are one. A DBD that a step drops goes to `lost`; `raced`
  records that two threads have been in the method together.
* **`DbdAtOnce`** – these lines beside the one step `OspfNeighbor` takes for
  them: `Unacked` and `Waiting` are what its `pending` and `sendList` are, seen
  from outside of the method, and `SendsAtOnce` that the lines do to them what
  `Ready` and `Put` do. A thread that has found nothing pending has as good as
  sent the lowest DBD.
* **`OspfElection`** – `CalculateDRAndBDR` as a function of the candidates.
* **`DesignatedRouter`** – what an election promises, told by its outcome: a
  router hears of candidates, and an election in force is one that the
  candidates it had then heard of call for. There are no threads, timers or
  locks in it, and no second pass.
* **`OspfInterface`** – the routers of a segment, with the packet thread, the
  hello and wait timers and the calculation interleaved wherever another thread
  can look. It implements `DesignatedRouter` (`ElectsAsPromised`): the candidates
  are the eligible neighbours heard both ways, and an election is in force when
  no calculation is under way. Which events have a row in which state is the
  table `HasRow`, made by the overloads of `StateMachine`: an event that has none
  throws, and a hello that raises it ends there (`HelloThrows`). The neighbour is
  reduced to absent, heard, two-way or negotiating; that it never goes back is
  `NoWayBack` of `OspfNeighbor`. The calculation
  between reset and `StoreBDR` is one step, as it only uses what it has read; a
  hello reaches a set of routers at once.
* **`Rip`** – one router's database and routing table: `HandleResponse` in its
  steps; the three counters of a route, each as the read and the write of
  `counter++` and the second read that it is compared by; the removal as two
  steps. Two callbacks of one timer may be under way at once, where a `Second`
  begins before the last one is counted; `late` records how often one has, per
  network. A late second begins between two headers: one that begins within a
  header does nothing that one just before it, whose callbacks wait for a thread,
  does not. The second look-up of line 137 is a step of its own, and one that
  finds nothing ends the process. Local routes are left out (their counters do
  not run).
* **`RipFlood`** – the floods of one router, from the update timer and in answer
  to requests, against the threads that change its database: each of the two
  walks through the map from its first look to its last, and what is thrown
  when the map changes in between.
* **`RipNetwork`** – what routers tell each other: floods, requests, losses,
  starts and stops, in ticks of one second.
* **`Frames`** – the structures of the headers as the sizes of their fields; a
  frame as the sequence of its headers, each with its size and the fields that decide how it is taken apart; the operators are the handlers'
  `GetBytes`, wrapped in the order of `GeneratePacketData`, and the frames that
  the modules send.
* **`Pipeline`** – `Begin` on such a frame: one action per handler's `Parse` with
  the search for the next handler in it, one per turn of the TCP option loop,
  one per callback. `stack` is `parserStack`: which handler, at which offset,
  whose child, with its header stored or not, and the index and maximum of what
  repeats. What is under a handler is decided by `CheckForNext` of its
  followers, by walks to the properties of outer handlers where the walk can
  fail, and by the frame where it cannot. `Captured` takes the next frame from
  any device: `Begin` holds one lock to its end. What can be captured is the
  constant `Traffic`, of which `TrafficAssumption` says that frames are
  `WellFormed`: behind a header whose fields announce another one comes that one
  (`Announces`), lengths are those of what they count (`HasItsLength`), the
  options of a SYN are told far enough for the loop that reads them
  (`TellsItsOptions`), and there is one OSPF packet at most. Frames that say one
  thing and hold another are not considered.
* **`Arp`**, **`IpIdentifier`**, **`IpFragment`**, **`IcmpEcho`**,
  **`Controller`** – one component each, with all of its threads. In `Arp` the
  age of an entry does not occur, because nothing starts its timer. A request's
  timer is never stopped: `ticking` holds the requests whose timer has not
  removed them yet, listed or not, `failed` those whose send threw before the
  timer was started. In `IpIdentifier` the callback of a countdown is the
  statements of IPPacketIdentifier.cs:36-41 one by one: the byte read into `held`
  and written, compared with zero, the timer stopped, the number removed; `owed`
  counts the decrements its first TTL has still to come.
  `Controller` has, beside the flags and the loops, the handle of each device:
  never opened, open, or closed, by a filter that failed or by a loop that
  ended; what a call does to one that is not open is left to chance.
* **`Addresses`** – IPv4 addresses as the sets of their one bits, so that the
  operators of `IPAddress.cs` are set operations and any two addresses can be
  compared by quantifiers instead of arithmetic.
* **`Startup`** – `Enable` up to the start of the capture threads, one action
  per turn of each of its loops: adapters, interfaces and loopbacks become
  devices, devices get monitors, RIP and OSPF choose their interfaces, OSPF its
  areas, router id and first LSAs. It is sequential; what is free is the machine
  it runs on, the order in which a map is walked and what pcap answers.
* **`NodeBinding`** – the same machine as the controller for Node.js sees it:
  the lists of `netinterop.cc`, whose values are text, and what
  `setupDeviceInformation` of `netinterop_run.js` makes of them.

Nalarium's `Map`, used all over, is not in the repository. A missing key reads
as the default value; `Add` of a key that is present is modelled both ways, as
replacing and as throwing.

Operators under a comment that begins "Slip" or "A bug a change could bring in"
are plausible wrong versions of the operator after them. They are not part of
any specification; exchanging one for its neighbour makes the property that
`PROJECT.json` pairs it with fail, which shows that the property can.

How they compose: `StateMachine` <- `OspfNeighbor` <- `OspfAdjacency`;
`OspfElection` <- `OspfInterface`, which implements `DesignatedRouter`; `Rip`
and `RipFlood` look closely at what `RipNetwork` takes for one step, and so does
`DbdSender` for `OspfNeighbor`, where `DbdAtOnce` says that it is one; `Frames` <- `Pipeline`; `Addresses` <-
`Startup` <- `NodeBinding`. `MCOspfNeighbor` checks the neighbour and the lines
of its `SendDBDReady`; `MCServices` the services and the floods; `MCMachine` the
start, the life cycle and the pipeline. The parts of each share no variable:
`view` or `part` chooses, once, which of them takes steps, as their product
would show nothing that each does not show alone.

## 3. The runs

| Run | Instance and bounds | What it shows |
| --- | --- | --- |
| `neighbor` | one object, sequence numbers mod 4, database of one header, all owner events; and its `SendDBDReady` with two callbacks, the handler and three DBDs | the lists, role and state agree; a negotiator always has a DBD to send again. In every interleaving, a DBD that is neither acknowledged nor flushed is queued, held or pending, unless a pending one was overwritten; nothing is lost and nothing throws unless two threads were in the method together, and until then its lines do what the one step of the neighbour's model does |
| `neighbor_lost` | as `neighbor` | a violation (section 6): a neighbour that is lost keeps its state |
| `adjacency` | two routers, channels of two, two restarts, first numbers of both parities, numbers to 3 | an adjacency becomes Full on the master's side only, and only by an answer left over from before a restart |
| `adjacency_live` | channels of one, numbers to 3, dead interval 60 (never due) | Exchange falls back to ExStart, and the routers negotiate again and again |
| `interface` | two eligible routers on a broadcast segment, one torn hello at a time | the interfaces implement `DesignatedRouter`; state and election agree, but for a late wait callback; no Backup without a torn claim |
| `interface_wait` | one eligible router and one that is not and may lose its link | the wait ends when all others have been heard |
| `interface_loopback_ids` | a point-to-point network, ids from loopbacks | a violation (section 6): no adjacency starts |
| `rip` | one network, two route objects, two callbacks, flush 2, invalid 1, hold-down 1; either two advertisements that differ in metric and mask, or one of them and one late second | the tables agree at rest unless packet and timer have met; entries expire unless two callbacks of a timer ran at once; sighted routes stay; a worse metric is held down (the process may end: no deadlock is checked) |
| `rip_network` | three routers, one network, update 1, flush 3, one loss in a row | what a running neighbour advertises is known; echoes keep a dead network alive; networks are learned and, without echo, forgotten |
| `services` | Arp: two addresses, devices and requests; echo: two requests, two pairs; identifier: two datagrams, one number, countdowns from 0 and 2 of 3, one overlap; fragment: MTU 1500 and payloads round each boundary up to 65536; floods: two networks, two devices | only solicited entries, no question once resolved, and requests end; echo waits end and drop no other's; numbers are freed, and not before; every fragment fits and tells its place; updates go on however often one is cut short |
| `machine` | controller: two modules, two devices, two Disables, every state of the handles; pipeline: some fifty frames, two configurations, both orders of the catalog; start and binding: some three hundred machines | which Disable is lost and what the others stop; handles outlive their use while the adapters go on; which adapter is opened, which area an interface of OSPF is in, and that the script for Node.js has the same primary addresses and numbers; only the frames of section 6 throw, every header is read where it lies but for two cases, what is sent is understood, one subscriber is told and with all headers, every frame is let go unless a TCP option has no size |
| `machine_rip` | as `machine` | a violation (section 6): a network of class C serves nobody |

### Why the bounds are enough

* `SeqMod` 4 makes numbers wrap. In the adjacency a number only ever grows by
  one, so that what matters of a first number is its parity: `Ticks` are 0 and
  1, and `MaxSeq` 3 leaves room for what follows either. Two restarts and both
  parities are the least with which a leftover answer can be the one a master
  waits for; with one of either the property is that nothing completes, which
  the theorem says for every number of restarts. `ChanCap` bounds DBDs under way; the segment may lose any.
* `MaxHalf` 1: one router in the middle of `SendHello` is what tears a claim;
  the hello it sends stays possible until the next one.
* In `Rip` a route that leaves the database while its object counts on is a
  stray; one stray and one successor are what can hurt each other. Intervals
  of one and two seconds let counters meet their limit in every order;
  `Invalid < Flush` is needed to reach metric 16, the other order is the
  default and hides it. Two callbacks and one late second are what it takes to
  step over Flush. `MCRip` divides the instance by `view`, because what a late
  second does to a counter does not depend on what an advertisement says.
* In `RipNetwork` 3 is the smallest flush interval that survives one lost
  flood (`UpdateBeforeFlush`); the theorem covers every other choice. The
  intervals of the program, 30 and 60 seconds, satisfy it for `MaxLost` 0 only:
  one lost flood is enough to lose a route there.
* `MaxPool` 2 and `MaxOverlaps` 1: two callbacks at once are what it takes to
  remove twice or to step over zero. `Minute` 8 with `Limit` 1 and `Jitter` 1
  stands for 60 and 4: a minute is longer than what a pool two callbacks behind
  can be late; with a minute that is not, the wait need not end.
* `KeyMod` 1 makes two datagrams contend for one number, as two of the same
  destination do every 65536; datagrams with different numbers have nothing in
  common, and the theorems take any width. `TtlMod` 3 lets a countdown step over
  zero and come round. `MaxLeaks` and `MaxFailures` 1: one datagram or request that is
  left behind for ever and one that is not.
* `MaxDisables` 2: a second Ctrl-C during or after the first.
* `MaxRouterID` is the width of a router id; 3 gives two routers different ids
  with room above and below, and the proofs take any number.
* In `RipFlood` two networks let a walk be disturbed twice; two devices are one
  that is served and one that is not.
* `AllTraffic` holds what the modules send, with 0 to 3 neighbours, LSA headers
  or routes; each kind of packet there is a handler for, repeated parts 0, 1
  and 2 times; IP headers with options; 802.3 lengths on both sides of the
  values that are misread; and SYNs whose options end with the header, with EOL
  or with neither. A handler's behaviour depends on the frame only through the
  fields `Frames` has. No frame is shorter than its headers say, and a TLV that
  is read where none is has a value of 0 or 4 bytes. `Configurations` are
  nothing and everything: the handlers of an assembly follow those of `SYSTEM`
  or its own only, so that whether another one is there makes no difference.
* `Machines` have two adapters, a third one that only pcap lists, and two
  loopbacks; the parts of `MCMachine` that are not about the start rest on a
  machine without any (`Bare`). `Captures` varies the lists (order, descriptions, the third
  adapter before, between or absent), the configured interfaces (none, unknown,
  disabled, in braces, MTU too small) and the filter; `Routings` the address of
  one interface (classes A, B and C, with and without bits behind the first
  octet, or none, 0.0.0.0), the RIP networks and the OSPF networks (none, nested as in the sample
  configuration, in both orders, one of them twice) and the passive setting. The
  two do not depend on each other: routing does not look at numbers or handles.
* In `DbdSender` three DBDs are the one pending, the one that replaces it and
  one more to be overwritten.

Deadlock is not an error where the system may stop: in `rip` a packet that meets
the removal of its route ends the process; in `services` a datagram has been cut
up; in `machine` the process has ended or the controller has returned. In
`neighbor` a handler that throws is given a step that stays, so that everything
else is checked for deadlock.

Type invariants are proved and not run, but for that of the five parts of
`services`, which is both.

### Fairness

Timers that run keep firing (`System.Timers.Timer`, AutoReset) and the pool runs
what it is given: weak fairness of the callbacks. A segment that loses packets
does not lose every one of them: strong fairness of delivery, and of sending in
`AFairSpec`. A thread that waits for a lock that others take again and again gets
it at last: strong fairness of `Begin` in `CtrlFairSpec`. Where a thread simply
runs on (`Enable`, `Disable`, `HandleResponse`, `Begin` once it has the frame),
weak fairness of its next step; so for the update timer and the packet thread of
`RipFlood`. An invariant or an action property needs no fairness, and
`ElectsAsPromised` is checked without.
Seconds go by although packets keep coming: strong fairness of `Tick`.
Nothing is assumed about users, links, other routers' starts or the arrival of
answers. `NetFairSpec` adds nothing but that time goes on and due floods are
sent, not all of them lost (`MaxLost`).

## 4. What is proved

TLAPS checks these for every value of the constants allowed by the modules'
named assumptions.

* **`OspfAdjacencyProofs`**, on one object – `NSpec => []NInv`. `NInv` is the type invariant and
  `ObjectInv`, per object: role, attempt flag, length of the summary list and
  the pending DBD as functions of the state. The parts are needed together: the
  list is empty before Exchange because every way back to ExStart clears it,
  and the pending DBD is there because those ways set it. From it follow
  `NTypeOK`, `ExchangeAgrees`, `NegotiatorKeepsSending` and, action by action,
  `NoWayBack`: not what anybody would want, but why `neighbor_lost` ends as it
  does, and what reduces the neighbour in `OspfInterface`. One lemma per handler, and `Frame` for the other objects.
* **`OspfAdjacencyProofs`**, on two – `OnlyLeftoversComplete` for any pairs, channels,
  numbers of restarts and any even modulus (`EvenModulus`; the code's is 2^32).
  `AInv` gives, per object, the parity its number has in each state and role,
  and per DBD under way what it says of its sender; `FreshInv` says that until a
  router restarts an object has begun one negotiation at most, so that all
  numbers still have its parity. A master in Exchange waits for an answer with
  the number it has just counted up to, and no such answer is ever sent: it can
  only be one whose parity comes from another beginning.
* **`DbdSenderProofs`** – for any number of callbacks and DBDs. `SenderTypes`,
  then `LossNeedsARace` (its two parts: only a pending DBD is lost, and nothing
  is lost or thrown without a race) from `CalmInv`: until two threads have met,
  at most one is in the method, what it holds is what it has found there, and
  the DBD it has taken is the lowest of the queue. `OneStep` is the refinement:
  each line is a step of `OspfNeighbor`'s `Ready` or none. That a queue that is
  not empty has a lowest number is `LeastNat`, from the well-foundedness of the
  naturals, so that queues need not be bounded.
* **`OspfInterfaceProofs`** – the election first: `First` is a candidate and has
  the highest id, because ids are bounded; in the second pass the router never
  claims to be DR or BDR itself (`SecondPassClaimsNothing`), so that the pass
  comes out as the first (`ElectionOutcome`) and the rule of `DesignatedRouter`,
  which has one pass, is what the code computes. Then the inductive invariant of
  the interfaces: types, who may be in force or about to be stored, and what each
  stage of a calculation has already reset. From it `ElectedIsHeard`,
  `RolesAgree`, `BackupNeedsTornClaim`, and step by step that
  the interfaces implement `DesignatedRouter`: a calculation maps to `GivesUp`
  and `Elects`, a neighbour heard both ways to `Hears`, everything else to a
  stutter.
* **`RipProofs`** – for any networks, routes, callbacks, masks, metrics and
  intervals, and any number of late seconds. Four invariants, one on top of the
  other. `RipInv` types every variable and ties the handler's step to what it has
  looked up. `EntryInv`, of the networks whose seconds are counted in time: one
  callback of a route at most is under way, and the timer of an entry has not
  counted to Flush, or its callback is between the write and the removal; packets
  may meet it wherever they like. `RibEntryExpires` is part of it. `AgreeInv`, of
  the networks whose packet and timer have not met, however late the callbacks:
  the two tables agree but for what a removal or the handler has still to write
  (`RibAgreesAtRest`). `CalmInv`, where both conditions hold: only the object in
  the database counts, and none of its counters has counted further than the
  network has been silent, whence `KeptWhileSighted` and the interval in
  `WorseMetricIsHeldDown`.
* **`RipNetworkProofs`** – for any routers and intervals with
  `(MaxLost + 1) * Update < Flush`: `AdvertisedIsKnown`, and from it
  `EchoNeverDies`. `AdvertisedIsKnown` says that a counter has not reached
  `Flush`, not why, and is not inductive; `RoomLeft` bounds the counter by the
  floods missed since the neighbour was last heard and the time since.
* **`ServicesProofs`** – the four services, each with its own invariant. ARP: a
  listed request was made, the address under lookup stays unresolved while the
  lock is held: `Solicited` and `ResolvedIsNotAsked`. Echo: an entry is that of
  a request with the same pair, and a request that went out is timed:
  `TrackedIsTimed`; `DroppedByNamesake` by cases of the step; no assumption on
  how late callbacks are. Identifications: `ListedIsTicking` and
  `FreedWhenSpent` for any widths, overlaps, callbacks and objects, statement by
  statement. An object is listed in its own place only, a listed one that was sent
  has its timer on or a callback past the stop, and neither its byte nor a value
  that a callback has read and not yet written is ever below the decrements owed
  (`Owes`): a callback that overwrites the byte of another one can only put it
  up, and one that finds zero owes nothing. Fragments: the offset
  is the number of bytes taken, modulo 2^16, and both are multiples of eight:
  `OffsetsTellThePlace` for every MTU; `FragmentsFit` under `RoomForHeader`,
  which the code's numbers satisfy (1500 and a 16-byte header leave 1480 after
  rounding); together `EveryFragmentIsPlaced`. `ServicesTypeOK` needs what the
  bookkeeping has counted: a number is leaked once per overlap at most, and no
  more callbacks are under way than may be.
* **`MachineProofs`** – the start, the binding and the life cycle.
  `StartInvariant` says what each loop of `Enable` has made of what it has
  walked through: devices numbered in the order of the list, a handle for each
  number, interfaces served by the networks walked so far. From it, for every
  machine: `MostSpecificWins` (a network inside another one has the lower wildcard
  number, so that the order of the list does not matter), `OpensItsAdapter`,
  `ScriptAgrees`, and two unwelcome facts that no run checks:
  `OnlyFirstOctetServes`, which says for every network what `machine_rip` shows
  of one (the class of an address is decided in its first octet, and a class mask
  applied to it gives the first octet alone), and `ScriptMissesSecondaries`.
  Assumed of the machine, in `StartupAssumption` and
  `NamedOnce`: there are finitely many adapters and names, no name occurs twice,
  as the operating system has it. `BooksInv` is what is left for `StartTypeOK`:
  an interface waits for its area or has one, and there is a device whose address
  the router id can be (the order of addresses is transitive and they are
  finitely many, so that one is the lowest). `CtrlInv` is the life cycle: Enable and
  Disable are two sequences that only meet in flags, and the invariant says what
  each point of one implies of the other: once the modules have been started, a
  flag that is off was reset by a Disable (`OffMeansStopped`); nothing but the
  first Disable that begins then can have changed a flag or a module
  (`NoneBefore`, `FirstLate`); a device that is told to break has an open handle
  and a loop that is not over (`LoopIsOpen`). From it `CtrlTypeOK`,
  `EarlyDisableIsLost` and `HandlesOutliveTheirUse`.
* **`PipelineProofs`** – for any set of well-formed frames, any configured
  handlers and either order of the catalog. A frame may be of any length, but
  handlers cannot nest for ever: they have levels (`Levels`), a follower is one
  level further out than what it follows, and the ninth has none. So the n-th
  handler on the stack is one of the n-th level, its chain of parents is its
  place on the stack less one or two (`Climbs`), and it reads the (n-1)-th header
  of the frame, at the sum of the sizes before it (`InPlace`), but for a length
  that passes for a type and a block that comes where LSAs are (`Astray`). That
  the next handler is the one whose header comes next is `NextFits`, and one
  lemma per kind of handler (`HelloTurns`, `LsaTurns` and so on) shows that its
  `Parse` keeps this; where the walk to an outer property could fail, `Climbs`
  says where it ends. `Counts` and `Fresh` say of an index that
  is set that the frame holds what it counts, so that the list of LSAs is only
  added to when it is there. `PipeInv` puts these together with what each phase
  needs: the offset is where the header to be parsed begins, the options read so
  far sum up to the offset in the header, and at most one module has been told.
  From it `PipeTypeOK`, `OnlyTheseThrow`, `ReadsWhereItLies` and
  `HeadersReachTheSubscriber`. Sums of sizes are folds; what is needed of them
  (one more size, sums that grow) follows by taking a least counterexample
  (`LeastNat`, from the well-foundedness of the naturals) instead of induction.

  The other direction, that nothing is left unread, is `BuiltIsParsed`, for the
  frames that routers of this kind send and any configuration that has handlers
  for them. `BuiltIs` works out what `GetBytes` makes of them: that the length of
  an OSPF packet is short of the datagram exactly by the LLS block (`PacketIs`)
  and, in a DBD, counts its LSA headers (`LsasAreCounted`). `NextSuits` is the
  converse of `NextFits`: the handler of the header that comes next says yes, so
  `GetNextHandler` does not end the loop (`NoEnd`, `GoesFurther`), but behind the
  fixed part of a DBD, where it does exactly if the packet has no LSA headers
  (`LsasAreLookedFor`). `ReadInv` adds to `PipeInv` that the loop has got to the
  end when the callbacks run (`WholeRead`) and that each handler passed by so far
  had nothing to tell or told it (`AllTell`).

Only model-checked:

* liveness (`ExchangeFallsBack`, `WaitEnds`, `RoutesSettle`, `RequestsEnd`,
  `EchoWaitEnds`, `SentIsFreed`, `UpdatesGoOn`, `DisableTakesEffect`, `EveryFrameIsLetGo`),
  which with ENABLED is beyond the prover.

`NoWayBack`, `ElectedIsHeard`, `OnlyFirstOctetServes`, `ScriptMissesSecondaries`
and, but for those of the services, the type invariants are proved and not in a
run.

## 5. What is not modelled

IPv6 and MAC addresses, bit counts (they have no caller). What becomes of a
device after the start: nothing in the source calls `EnableInterface`,
`DisableInterface` or the changes of addresses (`RoutingController.cs:820-828`),
nothing raises `L2UpL3Up`, and `IsHostAddress` is not implemented; the events
`OspfModule` would raise on such changes are actions of `OspfInterface`. The
managed capture (`Context.cs`), whose only use is a comment in `Program.cs`. The
getters of the Node.js binding that pass a configuration on as text, and the
rest of the script, which is comments. OSPF's
flooding and route
calculation, which the code does not have; the handlers of HTTP, BGP and EIGRP
(the last two are not exported); checksums, the reflection that fills headers
and the interpreters of the window; configuration, console and window. In the
pipeline: IPv4 fragments, whose payload is taken for a first one; frames cut
short. Inside the modelled components: LSA contents;
NBMA and virtual links, whose sending is a comment in the source; the static
routes and `AdministrativeDistance`, which nothing assigns; concurrent damage
inside a `Map`.

The repository holds some 18,800 lines of headers of pcap, V8, libuv and Node
(`src/_REFERENCE`) beside the program; they are declarations of other projects.
The program's own native code, `Monitor.cpp` and `netinterop.cc`, is modelled but
for text and configuration; nearly all of the rest is C#, and the map points
there.

## 6. What the checks found

Three runs end in a violation; each quotes what the source says of itself.

* `interface_loopback_ids` – on a point-to-point network neighbours are listed
  by address (`Interface.cs:492`) and looked for by router id
  (`Neighbor.cs:433`); with loopback ids no adjacency starts.
* `neighbor_lost` – the rows for KillNbr, LLDown, InactivityTimer and
  OneWayReceived register the states Down and Init (`Neighbor.cs:151-161`), but
  `RaiseEvent` only runs the row's action (`StateMachine.cs:128-143`): a
  neighbour that is lost keeps its state, and an adjacency with it.
* `machine_rip` – the network 192.168.5.0 of the sample configuration, which is
  there for the loopback 192.168.5.11, serves no interface: `GetClassMask` gives
  it the mask of class A (`IPAddress.cs:227-239`), and
  `GetInterfaceListForAddress` looks in what is left with the mask of class C.

Some properties that hold say something unwelcome: no adjacency completes
but by accident (`OnlyLeftoversComplete`: the master sends no second DBD, so that
only an answer from before a restart, with the number it happens to wait for,
makes it Full, and its peer never is), a dead network lives
on between two routers (`EchoNeverDies`), an early stop is lost
(`EarlyDisableIsLost`), an update may serve some devices and not the others, and
a route that expires while a request is answered may end the process
(`UpdatesGoOn`), the two tables of a RIP router may disagree where a packet has
met a callback, and an entry may stay for good where two callbacks of its timer
ran at once (`RibAgreesAtRest` and `RibEntryExpires` leave those networks out),
a number may be freed by an earlier datagram that had it (`FreedWhenSpent`),
DR and BDR are one router unless a hello was torn (`BackupNeedsTornClaim`), an
adapter without a description shifts the ones behind it
(`OpensItsAdapter`). So do three theorems: a neighbour never goes back
(`NoWayBack`), a RIP network serves interfaces by the first octet and none whose
own class mask reaches further, one of class D and above those whose first octet
is zero, an adapter without an address among them (`OnlyFirstOctetServes`), and the
script for Node.js finds no secondary address (`ScriptMissesSecondaries`).

The pipeline's properties name their exceptions: an
update without LSAs or whose first LSA is a router LSA, a SYN with an option of
an unknown kind and anything to the port of the image module throw
(`OnlyTheseThrow`); a SYN with SACK, TCPAO or an experimental option is read for
ever (`EveryFrameIsLetGo`); of a DBD at most one LSA header is read, and its LLS
data block at most at the wrong place (`ReadsWhereItLies`,
`BuiltIsParsed`); some 802.3 lengths pass for Ethernet II types.

Seen while modelling, without a run of their own: the election compares the
router id with addresses (`Interface.cs:261`), so that a router with a loopback id
elects itself and stays DROther; `InterfaceDown` has no row in any state
(`Interface.cs:161`), so that an interface outlives its link; the assembly of ICMP calls
itself `Icmp`, which line 150 of `RoutingController.cs` compares by case with
`ICMP`, so that its handlers are there only if ICMP is configured; the IPv6 type
0x86DD is read as 0x134221 and IPv6 never chosen (`EthernetHeader.cs:17`);
`LsaHeaderCount` is set after the header was stored as a copy
(`OspfDbdHandler.cs:35-40`); a neighbour left in TwoWay stays there, as `AdjOK`
has no caller (`Neighbor.cs:199`); `BackupSeen` is raised without
looking whether communication is bidirectional (`Interface.cs:424-435`);
`WaitTimer` runs for ever with a dead interval of 60 or more, as
`TimeSpan.Seconds` ends at 59 (204); a handler may dereference a pending DBD that
the timer has just cleared (`Neighbor.cs:376`); an identification leaks when ARP
does not know the destination (`SystemModule.cs:135-140`); `remainingData` is
the caller's list and is cleared under it (195); `Llc` calls the first of its bytes `cf`, so that BPDUs are looked for one
byte too late and never found (`llc.cs:8-10`, `StpHandler.cs:16`). At the start:
one passive interface takes all interfaces from OSPF (`OspfModule.cs:79-86`); an
interface that two networks choose is added twice, which ends `Enable` if the map
throws (98); monitors are opened for disabled devices too; a filter that fails
leaves a closed handle that is then looped over (`Monitor.cpp:210-224`,
`RoutingController.cs:422`); every router with an area other than 0 says ABR, as
area 0 is always there; an interface whose id is written in braces is listed and
never enabled (`RoutingController.cs:475-503`).

## 7. Plan

Order of work: first what decides whether the router does its job (OSPF
neighbour, adjacency, interface; RIP), then the services below them, then the
plumbing. Done: all of section 2. What would add most next:

1. A routing table fed by one protocol as an abstract specification, which `Rip`
   and, per router, `RipNetwork` implement: `Rip`'s `Routes` as what `RipNetwork`
   calls `Knows`. What stands in the way is that the tables disagree in the code
   when packet and timer meet (`RibAgreesAtRest` names the cases).
2. Proofs: for `Pipeline`, that any well-formed frame is read to its last header
   if every handler it needs is there, of which `BuiltIsParsed` is the instance
   that matters between routers of this kind.
3. The update timer of RIP overlapping itself, and the flood of `Initialize`
   against timers of routes that were kept from an earlier start.
