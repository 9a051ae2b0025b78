# Verification of dmc-sim

dmc-sim simulates, on ns-3, the protocol with which Distributed Monotonic
Clocks are to agree on a value: nodes gossip with their neighbours, elect
representatives of groups of nodes, of groups of groups and so on (a Luby-style
maximal independent set per level), and each representative takes the median of
the values of its group and of the neighbouring groups.  This directory holds
TLA+ models of that code, from the drawing of the network to the end of the
simulation, TLC runs that check them on small networks, and TLAPS proofs of their
main safety properties for networks of any size.

Paths are relative to the repository (`src/`).

## 1. Inventory

| component | state | operations | interacts with |
|---|---|---|---|
| `LubyLevel`, `LubyPeer` (`luby-mis.{h,cc}`) | level number; representative with next hop, distance, value; map of peer groups with degree, value, next hop, distance | construct, `MaxPeerDistance`, `MarshalTo`/`MarshalFrom`, `ResetPeers` | held by `LubyMIS`, copied into packets |
| `LubyMIS` (`luby-mis.{h,cc}`) | `m_myaddr`, `m_value`, `m_levels` | `SetMyIpv4Address`, `MarshalTo`, `MarshalFrom` (the handler of a packet, with eight helpers) | called by `UdpGossip`; reads the sender's levels from the packet |
| `UdpGossip` (`udp-gossip.{h,cc}`) | sockets, peer addresses, `m_sendEvent`, `m_num_peers` | `StartApplication`, `StopApplication`, `ScheduleTransmit`, `Send`, `HandleRead` | timer events and socket callbacks of ns-3; calls `LubyMIS` |
| `UdpGossipHelper` (`udp-gossip-helper.{h,cc}`) | port, flag, factory | `Install` | creates one `UdpGossip` and one `LubyMIS` per node |
| `DmcData`, `DmcDataFactory` (`dmc-data.h`) | none | interface | implemented by `LubyMIS`, `LubyMISFactory` |
| `SimulatedClock` (`simulated-clock.{h,cc}`) | rate, offset, counter | construct, `Now` | reads `Simulator::Now`; nothing in the repository creates one |
| `dmc.cc` | adjacency matrix of the network | random spanning tree, random extra edges, link networks, start and stop times | creates everything else |
| `Vagrantfile`, `README.md`, licence | - | environment | - |

There are no tests in the repository; what the code promises is in its comments
and its two assertions (`luby-mis.cc:322`, `udp-gossip.cc:119`).

### How a node works

`Send` marshals all of the node's levels and sends them to one random neighbour,
then schedules itself again after 0 to 99 ms.  `HandleRead` passes each packet to
`MarshalFrom`, which

1. for every level both sides run: learns neighbours and peer groups
   (`ProcessTopologyChanges`), starts a level above the top one when that has a
   representative and peers (`TryToStartNewLevel`), and compares representatives
   (`HandleRepElection`);
2. forgets what it learned through the sender at levels the sender does not run
   (`TrimVacatedLeadersAndPeers`);
3. copies values (`UpdatePeerValues`), recomputes medians
   (`RecalculateLevelValues`) and may elect itself by a roll of the dice
   (`TryToBecomeRep`).

### What is hard here

ns-3 runs one event at a time, so that handlers are atomic.  What interleaves is
whose event comes next and how long each packet is under way: a packet is a
snapshot of its sender, stale when it is read, and several may be queued on the
two directions of a link.  Each handler rewrites a *stack* of levels in which
every level is justified by the one below, from a packet whose levels were
justified by something else.  Nothing is persisted, so that there are no restarts to model, and links lose
nothing.  A packet can be lost in one way only: its receiver's socket is not open
(yet, or any more) when it arrives.  Nodes start and stop at the same times, but
one after the other, with timers and packets of the same time before, between and
after them.

The hazards that follow from this are listed in `PROJECT.json`, each at its line;
the main ones of the protocol: a null `LubyPeer*` read from the sender's map (809); elections
that outlive the group they were decided on (every `SetMaxLevel`); a group that
becomes its own peer (439); routes that count to infinity (387, 637); values
advertised before they are computed (280); degree changes out of order (307);
elections that never come to an end (776).  Those of the program around it: a
timer that survives the stop (`udp-gossip.cc:273`), an uninitialized count read
by the destructor (77), a node without peers (302), a loop that draws edges for
ever (`dmc.cc:82`).

### What makes each component correct

* **LubyLevel / LubyMIS**: the levels form a ladder; representatives are
  candidates; an empty level is really empty; no group is its own peer; routes
  start at a neighbour and stay within 3·2^(n-1); a change restarts what was
  decided on it; no null pointer is read; values are medians of known values;
  what is written into a packet is what is read from it; and, under a fair
  schedule, elections come to an end with one group that holds all nodes.
* **UdpGossip**: one pending send while running, none after the stop; no send
  through a socket that is not there; no packet lost but to a stopped node;
  everything closed at the end; and the data sees a network in which nodes start
  together and packets arrive once and in order.
* **SimulatedClock**: never runs backwards, unless its rate is negative.
* **dmc.cc**: the network is connected, without loops, with the number of edges
  asked for; the loop that adds edges ends; no two devices have one address.

## 2. Modules

| module | models | state and actions |
|---|---|---|
| `LubyLevel` | `LubyLevel`, `LubyPeer`, `m_levels`, `SetMaxLevel` | operators on a level (a record) and on the vector of levels (a sequence; level n of the code is element n + 1) |
| `Median` | the sort and pick of `RecalculateLevelValues`, and the order in which loops meet numbers | operators on a finite family of values, on a set of numbers |
| `LubyMIS` | `MarshalFrom` and all it calls, `MarshalTo`, `SetMyIpv4Address` | one operator per helper, from levels to levels, in the order of the code (`Received`) |
| `LubyInvariants` | what levels must satisfy | used for nodes and packets alike |
| `LubyGossip` | a network of nodes | `levels[a]` is `m_levels` of node a, `link[<<a,b>>]` the packets from a that b has not read; actions `Send` (`UdpGossip::Send`) and `HandleRead` (`UdpGossip::HandleRead`) |
| `NeighbourGossip` | what level 0 promises: an abstract specification | `known[a][b]`, the degree a has heard of b; actions `Tell`, `Hear`.  `LubyGossip` implements it |
| `LubyConvergence` | `LubyGossip` under fairness | no state of its own; fairness and what the network settles to |
| `LubyWire` | the bytes of a packet | `MarshalTo`, `MarshalFrom` and `GetMarshalledSize` as operators on sequences of words |
| `UdpGossip` | the application on every node and the simulator that runs it | the event queue, the sockets, `m_num_peers`, `m_sendEvent`, the data; `StartApplication`, `Send`, `HandleRead`, `NotRead` (ns-3 drops the packet), `StopApplication`, `Destroy` (destructors), `Exit` |
| `UdpLuby` | `UdpGossip` with `LubyMIS` as its data | the operators `Create`, `SetMyIpv4Address`, `MarshalTo`, `MarshalFrom` of class `LubyMIS`, and the refinement of `LubyGossip`, of which it instantiates the theorems too (`Network`) |
| `DmcGraph` | the two loops of `dmc.cc` that draw the graph | `i`, `cxns`, `total_edges`; `ConnectNode`, `AddEdge` |
| `DmcNetwork` | links and addresses of the drawn graph, and what `StartApplication` finds | operators on `cxns`: `LinkSeq`, `Network`, `Interfaces`, `GetPeerAddr`, ... |
| `SimulatedClock` | `SimulatedClock` | `Tick` (ns-3), `Now` |
| `MC...` | small networks, values and later starts | - |
| `Numbers_proofs` | - | induction over natural numbers, the existence of functions that a recursion defines, medians and ascending orders |
| the other `..._proofs` | - | theorems about the module they are named after (`LubyMIS_proofs` also of `LubyLevel`, `DmcNetwork_proofs` also of `DmcGraph`) |

How they fit together, from the program to its parts:

```
DmcGraph -> DmcNetwork     dmc.cc draws a graph: connected, each node has a peer,
      |                    its own address and a socket to each neighbour
      v
UdpGossip <- UdpLuby       the program on such a graph
                |          implements (ImplementsNetwork)
                v
            LubyGossip     nodes that start together and send when they like
                |          implements (LevelZeroIsGossip)
                v
          NeighbourGossip  degrees that only grow and become known
```

`LubyConvergence` and `LubyWire` say more about the states of `LubyGossip`.  The
mapping of `UdpLuby` takes a node that has not started yet for one that has, with
its address; and the packets on a link for those lost at a closed socket followed
by those in the event queue.  A node that reads a packet before it starts, sends
after it stopped or reads after it lost one would break it.  The mapping of
`LubyGossip` keeps of level 0 the degrees, and of a packet the degree of its
sender.

How the data is abstracted:

* An address is an integer, as `Ipv4Address::Get()` returns it, because the
  code compares addresses with `<`; 0 stands for none.
* A value is a `double` in the code and an integer in the model.  The values of
  the runs are multiples of 8, so that the halving in three nested medians is
  exact.
* `new LubyPeer()` is value-initialised, so that a new peer's value is 0.
* Packets are records.  Marshalling keeps every field but `rep_next_hop`, which is
  not on the wire (`OnWire`); `LubyWire` shows that this is what the reader gets.
  Nobody reads a sender's `rep_next_hop`.
* ns-3's event queue is a sequence ordered by time, events of one time in the
  order in which they were scheduled: `Schedule` inserts an event behind those that
  are not later, `Cancel` takes one out.  Its scale is shrunk (`Second`, `Waits`,
  `Delays`) so that sends, arrivals, starts and stops coincide, precede and follow
  each other in all ways.
* A `LubyMIS` that `UdpGossip` holds is a record of `m_myaddr`, `m_value` and
  `m_levels`; `LubyGossip` keeps the levels only, and takes a node for its address.
* A double, on the wire, is two words with a mark of which half they are.
* The bitwise or of `dmc.cc:112` is the addition of those of its two bits that the
  shifted number of a link does not have (`OrBase`).
* `rand()` is a choice: `lucky` in `TryToBecomeRep`, the edge in `Send`.
  A roll lower than 1/(2k) is possible for every number k of peers.
* The data of a node that runs without assertions and without a link is told the
  address 0, as `GetSomeAddrOf` returns it.
* The loop of `HandleRead` is one step per packet: a point-to-point link of ns-3
  raises one receive event per packet, in the order they were sent.
* The removal loops over maps are set operations: no iteration depends on
  another one's.
* The test `it->second->next_hop == m_myaddr` (line 373) is written where the
  code has it, although it cannot succeed in its branch, where the next hop is
  the sender.
* `TrimVacatedLeadersAndPeers` stops at the first level that loses something,
  because `SetMaxLevel` then removes the others.

`Faulty variant` operators (`RemovePeersQuietly`, `AdoptRepDirectly`, ...) stand
before the operator they spoil.  Nothing uses them in the models: with one of
them in the place of the right operator, TLC finds the property named with it in
`PROJECT.json` violated, which shows that the property depends on that code.

## 3. Runs

| run | network | bounds | distinct states | checks |
|---|---|---|---|---|
| `pair` | 1 - 2 | 3 packets under way, distance 4, 3 levels | 26 557 | `Ladder`, `NoNullPeerRead`, `DegreesInOrder`, `ValueInRange`, `RestartAbove`, `LevelZeroIsGossip` |
| `line` | 1 - 2 - 3 | 1 packet, distance 3, 3 levels | 54 311 | `TypeOK`, `NoRepNoPeers`, `RepIsCandidate`, `NextHopIsNeighbour`; of `LubyWire`: `BufferFits`, `ReadsBack` |
| `chain` | 1 - 2 - 3 - 4, level 1 just started | 1 packet, distance 2, 3 levels | 80 714 | `Ladder`, `OwnGroupIsNoPeer`, `PeerWithinReach`, `NoNullPeerRead`, `RestartAbove` |
| `degrees` | 1 - 2 - 3 | 2 packets in each direction of a link | 54 832 | `TypeOK`, `InOrder`, `Settles` |
| `settle` | 1 - 2 - 3 | 1 packet | 14 830 | `Elects`, `Agrees` |
| `life` | 1 - 2 - 3 | 0 or 1 seconds, 2 packets without a wait | 20 682 | `TypeOK`, `OneTimer`, `SocketsForSend`, `LostOnlyToStopped`, `CleanAtEnd`, `Returns` |
| `udp_luby` | 1 - 2 | 1 second, 2 packets without a wait | 61 159 | `ImplementsNetwork` |
| `network` | all graphs of 1 to 5 nodes, branch factor 0 to 15 | integers modulo 32 | 636 | `TypeOK`, `Links`, `Connected`, `EachHasPeer`, `BranchFactorMet`, `OneIdentityEach`, `SocketsReachNeighbours`, `GetsDrawn` |
| `clock` | - | time 8, counter 7 | 1 914 | `ClockTypeOK`, `Monotone` |
| `advertised` | 1 - 2 | 2 packets, distance 3 | violation | `AdvertisedIsMedian` |
| `routes` | 1 - 2 - 3 | 1 packet | violation | `RoutesLead` |
| `alone` | 1 | - | violation | `PeerToPick` |

What the properties say (the comments in the modules say it in full):

* `Ladder`: a level runs only above one that has a representative and peers.
* `NoRepNoPeers`: a level without a representative has no peers and no next hop.
* `RepIsCandidate`: a representative is the one of the level below or one of its
  peers, in every state and not only where the code repairs it.
* `OwnGroupIsNoPeer`, `PeerWithinReach`, `NextHopIsNeighbour`: peers are other
  groups, on routes that are short enough and start at a neighbour.
* `NoNullPeerRead`: whatever packet is at the head of a link, handling it looks
  up only keys that are in the sender's map.
* `DegreesInOrder`: what a node knows of its neighbour's degree, what the packets
  under way say of it and what it is never decrease in this order.
* `ValueInRange`: no value leaves the range of the nodes' values and 0.
* `RestartAbove` (action property): only a packet that is read changes levels; one
  that changes a level's representative, peers or degrees leaves at most one level
  above it, and that one just started: without peers, and without a
  representative, with the node itself as one on the value 0 of a new level, or
  with the one that the packet tells, through its sender (`JustStarted`).
* `LevelZeroIsGossip` (refinement), `InOrder`, `Settles`: level 0 is gossip about
  degrees, whatever the levels above do; degrees arrive in the order in which they
  grew; in the end all are known for good, so that the restarts they cause stop.
* `Elects`, `Agrees` (liveness): the level-1 representatives become a maximal
  independent set for good; in the end all nodes are in one group.
* `BufferFits`, `ReadsBack`: writer, reader and size of a packet agree.
* `OneTimer`, `SocketsForSend`: a running node has exactly one send ahead, the one
  that `StopApplication` will cancel, and a send finds its sockets.
* `LostOnlyToStopped`: no packet arrives before its receiver's socket is open.
* `CleanAtEnd`, `Returns`: every node was started and stopped before it is
  deleted, and `main` returns.
* `ImplementsNetwork` (refinement): the program's nodes and packets behave as
  `LubyGossip`.
* `Connected`, `Links`, `EachHasPeer`, `BranchFactorMet`, `GetsDrawn`: what the
  network is like, and that it is drawn.  `OneIdentityEach`,
  `SocketsReachNeighbours`: nodes are told apart, and sockets reach neighbours.
* `Monotone` (action property): a clock's readings never decrease, unless its rate
  is negative.

### Bounds

The code has none of these.  Those of `LubyGossip` are conjuncts of `WithinBounds`
and stop only `Send`, so that every packet already under way is still read; they
apply where `Bounded` is TRUE, as it is in the runs.  What `UdpLuby` implements is
`LubyGossip` without bounds, and the proofs are for both.

* `MaxInFlight`: packets under way.  Three on one link is enough for a packet
  that two others have made obsolete.  With one packet at a time (`line`,
  `chain`) packets are still stale in the sense that matters there: what a node
  knows of another is as old as the last packet from it.  Queues are checked on
  two nodes, distances on three and four.
* `MaxRepDist`: distance to a representative.  Without it the state space is
  infinite: because the bound of line 637 is commented out, the route to a
  representative that no longer is one can count up between two nodes, once for
  every crossing of a withdrawal with an older packet.
* `MaxLevels`: levels of a node.  A node that has a level-1 representative
  and level-1 peers normally runs a level 2, so that 3 is the least with which
  the peers of groups are gossiped.
* One packet at a time in `settle` and `routes`.  With two, distances grow without
  end (see `MaxRepDist`), and a bound that stops the sends would make liveness
  vacuous.  With one, the state space is finite by itself: `MaxRepDist` and
  `MaxLevels` have values that are never reached.  Packets do not cross in these
  runs, so that they say nothing about elections under crossing packets.
* `MaxQueue` (`degrees`): packets on one direction of a link; two is enough for
  one that is obsolete when it is heard.
* `MaxUnderWay` (`life`, `udp_luby`): after so many packets of one time the next
  wait is not 0.  It stands for `rand() % 100`, which is not 0 forever; without it
  time need not pass.
* `UInt` (`network`): 32 in place of 2^32, so that the branch factor 15 wraps for
  three nodes and more, and the others do not.
* `MaxTime`, `MaxCounter`: how long the simulation runs and how often a clock
  may be asked while it counts.  Larger than the largest offset times the
  inverse of the slowest rate, so that the hand-over happens, before and after
  the counter has passed the target.

Because the bounds stop the network, the configurations of `LubyGossip` set
`CHECK_DEADLOCK FALSE`, and so do those of the graph and of the clock, which end.
`life`, `udp_luby`, `settle` and `degrees` check for deadlock: in `life`
any state in which the program would stop other than by returning from `main` or
by a crash is one, and `Returns` excludes the crash.

`chain` starts later than the program (`LaterInit`), in a state that the program
reaches when every node has sent to each neighbour twice and nobody was lucky.
Everything found from there is a behaviour of the program; what happens before
is covered by `pair` and `line`.

### Fairness

* `NeighbourGossip`: weak fairness of telling and hearing for each direction of a
  link.  A timer goes off forever, `rand()` picks every peer again and again, and
  the links of ns-3 deliver.
* `LubyConvergence`: the same, stated of the links (`Push`, `Pop`), where strong
  fairness of `Push` is needed because the one packet under way may keep a sender
  waiting; and a low roll for every node that rolls again and again, which
  happens with probability 1.  What a handler does follows from its packet and
  the roll, so that nothing is assumed of it.
* `UdpGossip`: weak fairness of `Next`: the simulator runs the next event.
* `DmcGraph`: weak fairness of `Next`: `rand()` does not avoid the missing edges
  forever.  Iterations that draw nothing are stutters.

### What the violations show

* `advertised`.  "I'm the level-n rep, so I should calculate the median value"
  (`luby-mis.cc:822`) comes before `TryToBecomeRep` in `MarshalFrom`, so that a
  new representative advertises 0, or the value of the group it left, until the
  next packet arrives.
* `routes`.  The bound on the route to a representative, introduced by the comment
  "this is a valid route" (`luby-mis.cc:636`), is commented out.  The elections
  settle (`settle` shows it of the same network), but two nodes may have adopted a
  representative from each other's packets and stay each other's `rep_next_hop`:
  the route is replaced only by a shorter one (`luby-mis.cc:718`).  As values are
  handed on along `rep_next_hop` (801), they never learn what the group agreed on.
* `alone`.  "pick a peer to send to" (`udp-gossip.cc:301`) divides by the number of
  peers, which is 0 in a simulation of one node; a build with assertions ends
  before that at line 119.  `EachHasPeer` shows that any other number is safe.

## 4. Proofs

TLAPS checks, for every set of addresses, every symmetric set of links, all
values and all bounds (only the named assumptions of the modules,
such as `AddrAssumption`, `EdgeAssumption`, `ParameterAssumption`, `RateAssumption`):

| theorem | module | says |
|---|---|---|
| `Invariance` | `LubyGossip_proofs` | `Spec => []IInv` |
| `TypeCorrect`, `LadderHolds`, `NoRepNoPeersHolds`, `RepIsCandidateHolds`, `OwnGroupIsNoPeerHolds`, `PeerWithinReachHolds`, `NextHopIsNeighbourHolds`, `ValueInRangeHolds`, `NoNullPeerReadHolds` | `LubyGossip_proofs` | the properties of those names |
| `RestartAboveHolds` | `LubyGossip_proofs` | the action property `RestartAbove` |
| `LevelZeroHolds`, `DegreesInOrderHolds` | `LubyGossip_proofs` | `LubyGossip` implements `NeighbourGossip`, and what follows from it for degrees |
| `ReceivedOK`, `ReceivedDegrees` | `LubyMIS_proofs` | `MarshalFrom` keeps `WellFormed`, and what it makes of level 0 |
| `ReceivedHops`, `ReceivedValues`, `ReceivedRestarts` | `LubyMIS_proofs` | what `MarshalFrom` makes of next hops and values, and which levels it restarts |
| `TypeCorrect`, `DegreesGrow` | `NeighbourGossip_proofs` | `TypeOK` and `InOrder` |
| `Invariance` | `UdpGossip_proofs` | `Spec => []IInv` |
| `TypeCorrect`, `OneTimerHolds`, `SocketsForSendHolds`, `LostOnlyToStoppedHolds`, `CleanAtEndHolds` | `UdpGossip_proofs` | the properties of those names, whatever the data is |
| `PeerToPickHolds`, `NeverCrashes` | `UdpGossip_proofs` | where every node has a link, `PeerToPick`, and that no step of `Crashes` is ever next |
| `NetworkImplemented` | `UdpGossip_proofs` | `ImplementsNetwork` |
| `ProgramIsSafe` | `UdpGossip_proofs` | all the properties above of `LubyGossip`, of the program that `dmc.cc` runs |
| `GraphTypeCorrect`, `LinksHold`, `ConnectedHolds`, `EachHasPeerHolds`, `BranchFactorMetHolds` | `DmcNetwork_proofs` | the properties of those names, for all parameters and all widths of the integers |
| `OneIdentityEachHolds`, `SocketsReachNeighboursHolds` | `DmcNetwork_proofs` | the properties of those names, where the matrix fits on the stack |
| `AssumptionsMet` | `DmcNetwork_proofs` | the drawn network, with its addresses, is one that `LubyGossip` and `UdpGossip` assume |
| `BufferFitsHolds`, `ReadsBackHolds` | `LubyWire_proofs` | the properties of those names, for all numbers of levels and peers |
| `MedianBetween` | `Numbers_proofs` | a median lies between all bounds of its values |
| `ClockTypeCorrect`, `ClockMonotone` | `SimulatedClock_proofs` | the properties `ClockTypeOK` and `Monotone` |

The argument for the network.  `IInv` says that the levels of every node are
`WellFormed`, and that every packet on a link from a is one a may have sent, with
`WellFormed` levels of a.  Both halves are needed: what a handler makes of a
packet is well-formed only if the packet was, and a packet is a copy of a node.
`WellFormed` joins the types, the ladder and `NoRepNoPeers`, `RepIsCandidate`,
`OwnGroupIsNoPeer` and `PeerWithinReach`, none of which is inductive alone: for
instance a representative stays a candidate when a peer goes only because the
levels above go with it.  Of a node, but not of a packet, which has no next hops,
`IInv` also says `NextHopIsNeighbour`.  Of both it says that values lie between the
lowest and the highest of the nodes' values and 0, from which `ValueInRange`
follows (`Extremes`: finitely many values have a lowest and a highest).

The argument for the handler.  Every helper either replaces one level and drops
the levels above it (`Cut`), or replaces a level by one with the same
representative and peers and keeps the levels above.  The first keeps
`WellFormed` if the new level fits above the one below (`Fits`), the second if it
also has the same representative and peers.  The loop's invariant (`LoopInv`)
adds that the levels already handled read no null peer, which is what
`NoNullPeerRead` needs after the loop; the two recursive functions, of the loop
and of the medians, are unfolded with `FiniteRecursion` and `SetInduct`.

`RestartAbove` needs more of the handler than its result: a level that has been
restarted may be reached by a later stage of the same packet, which must leave it
alone, restart it again or keep it just started.  Until the loop over the levels
has passed it, it is a `NewLevel`, since nothing but the loop touches it.  When the
loop reaches it, it has no peers to lose and can only adopt the sender's
representative.  After the loop, `TrimVacatedLeadersAndPeers` drops nothing of
it, a level without peers has no values to read, one whose representative is
another node keeps its own value, and the node may elect itself only after the
values were recalculated, on the 0 of a new level (`NewLevelStarted`,
`NewLevelElected`, `SelfElected`, `ReceivedRestarts`).

The argument for level 0.  `NeighbourGossip` is proved about on its own: what is
known, told and true of a degree is a non-decreasing sequence, to which `Tell`
appends its last element again and from which `Hear` drops the first; a degree
only grows because nothing is forgotten.  `LubyGossip` inherits it through the
refinement, for which `ReceivedDegrees` says that a handler changes of level 0
only the entry of the sender.  The levels above, with all their restarts, do not
enter the proof of `DegreesInOrder` at all.

The argument for the application.  Its `IInv` ties the event queue to everything
else.  The queue is in the order of time, holds at most one start, one send and one
stop of a node, and has the starts before everything that a started node can cause
(`QueueOK`); a node that has not started has its start and stop ahead; a node is
alive when it has started and its stop is ahead, and then and only then has a send
ahead, an open receiver and its sockets.  The code tests none of this: it is so
because `Send` schedules its successor when it has run, because `StopApplication`
cancels what `m_sendEvent` identifies (the number must be that of the send in the
queue, and is), and because everything starts at one time, before any packet can
arrive.  The steps rest on lemmas about the two ways in which a queue changes,
an event put in (`ScheduleInserts`) and an event taken out (`RemoveAtInserts`,
`TailInserts`), which say that the order is kept and no other event touched.

The argument for `ImplementsNetwork`.  Its hypothesis, `GossipsLuby`, is that the
operators of `UdpGossip` are those of `LubyMIS` (as in `udp_luby.cfg`) and that the
build checks its assertions or every node has a link.  Starts, stops, lost packets
and the end are stutters of `LubyGossip`; a send and a packet that is read are the
steps of those names.  That needs of the queue that the packets of a link are taken
from it in the order in which they were put in: a packet is put behind all others of
its link (`PacketInserted`), the first event is the first of its link
(`PacketTaken`), and no other event changes what is on a link (`OtherInserted`).
And it needs of `IInv` that no packet is read after one was lost on the same link,
and of `DataOK` that a node compares with its own address.  `LubyGossip` is
meant here without bounds.

What the theorems say of `LubyGossip` they say of the program: `UdpLuby`
instantiates `LubyGossip_proofs` under the refinement mapping, and `ProgramIsSafe`
cites its theorems there.  They ask that the parameters of the instance meet the
assumptions of `LubyGossip`, which `NetworkParameters` derives from those of
`UdpGossip` and `DrawAssumption` (the values that the nodes draw are integers).  The
nodes of `UdpGossip` are numbered from 1 on and are their addresses; that the
addresses `dmc.cc` gives are different, not 0 and linked both ways is
`AssumptionsMet`.  They are not in the order of the nodes' numbers, which the runs
of `UdpLuby` therefore cannot vary; no theorem about `LubyGossip` depends on it.

The argument for the graph.  After k nodes no set of them is cut off from the rest
of them: a set that was not cut off before, or became the whole, has an edge to
or from the node that is new (`NoCut`, by cases on which side the new node is).
The second loop only adds edges.  The count of edges is tied to the cardinality
of `cxns`, of which each step adds two pairs that were not there; that bounds it
by the number of pairs of nodes.

The argument for links and addresses.  A link gets a number in the order in which
the two loops meet its pair, which is that of `i * num_nodes + j`: `LinkSeq` is an
ascending sequence of such places, and lists every edge once (`LinkSeqShape`, from
`AscendingShape`, by induction over the sequence, and from `Divided`, by which a
place tells both its indices).  Network k has the number 8k with two bits of
0x0a000000 set where they are not.  Up to 2^22 - 1 links those bits are clear, so
that addresses are different and none is that of loopback (`Networks`, `Assigned`);
from 2^22 on, networks would coincide.  That there are fewer links is a
consequence of `FitsOnStack`: the matrix `cxns` of `dmc.cc:61` lies on the stack,
8 MB unless it is raised, and a link takes two of its bytes.  A simulation that
violates it ends before it has any links.  What a node finds out is then a matter
of the two ends of a link: they have its two hosts, and the other end of the other
end is this one (`LinkEnds`).

The argument for the wire.  `MarshalTo`, in the node and in each level, is a loop that
appends; what it writes is found at offsets which are the sums of the lengths of
the parts before (`WrittenWords`).  The offsets are a function whose existence is
proved by induction, because the operator that `Written` is defined with computes
words and no offsets.  Of a level the parts are six words each, so that a reader that
steps by six finds every peer (`LevelWordsShape`, `LevelReads`), under its key,
as the keys of a map are different (`AscendingShape`).  Of a packet the offsets are
the solution of the recursion of `MarshalFrom`, which computes the offset of a level
from the size of the level it has just read, and the last is the solution of that
of `GetMarshalledSize`.  What a node has are levels of integers with as many peers
as the map has keys, which is `TypeCorrect`.

The argument for the clock.  The last reading is below the counter, or the target
has overtaken both (`Overtaken`).  It
holds of the clocks whose rate is not negative, which `Monotone` says.

Only model-checked is liveness under fairness (`Settles`, `Elects`, `Agrees`,
`Returns`, `GetsDrawn`), which is out of the provers' reach: of `LevelZeroIsGossip`
and `ImplementsNetwork`, which state no fairness, all is proved.  Every other
property of a passing run is the subject of a theorem.  The three that are violated
(`AdvertisedIsMedian`, `RoutesLead`, `PeerToPick`) are not proved, but that
`PeerToPick` holds where every node has a link is (`PeerToPickHolds`).

## 5. Not modelled

* Logging, dumps and the D3 events, and the command line: no state.
* Integer widths, but for the two products of `dmc.cc` (`UInt`).
  Levels and distances are unbounded integers, so that what is said of distances
  (`PeerWithinReach`, the theorems on it) is said of levels up to 31 of the code:
  from level 32 on `MaxPeerDistance` overflows.  That takes no large network: a
  leaf, with one peer, elects itself below 1/2 at every level, so a tree like a
  star of some 35 nodes could reach level 32.
* Floating point.  Halving is exact in the runs by choice of the values.
* Memory: the leaks of `m_peer_nodes` and `m_dmc_data`, the array on the stack
  (`dmc.cc:61`), the limit on a datagram's size (`udp-gossip.cc:303`).
* The probability of an election: only its possibility, and that it happens in
  the end.
* Attributes of `UdpGossipHelper`, and its `Install` for one node, which nothing
  calls.
* Elections under crossing packets in the long run (see Bounds).

## 6. Plan

Done: every component of the program, three layers that implement each other
(`UdpLuby`, `LubyGossip`, `NeighbourGossip`), liveness, and the proofs of section
4, which state every safety property, action property and refinement that a passing
run checks.  What is left:

1. Liveness with crossing packets, on a model whose distances saturate, if the
   saturation can be shown not to change the elections.
2. A run of `UdpLuby` on a network whose addresses are not in the order of the
   nodes' numbers.
3. `Median` against insertion into a sorted sequence over bounded inputs, as a check
   of the definition by which `SortedAt` stands for `std::sort`.
