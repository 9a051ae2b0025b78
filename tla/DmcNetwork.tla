------------------------------ MODULE DmcNetwork ------------------------------
(***************************************************************************)
(* The links and addresses that dmc.cc gives to the graph it has drawn, and *)
(* what UdpGossip::StartApplication finds out about its node from them: an *)
(* address of its own and its peers (udp-gossip.cc:105-174, 201-240).       *)
(***************************************************************************)
EXTENDS DmcGraph, Median, Sequences, Functions

LoopbackAddr == 2130706433   \* 127.0.0.1

\* The edges as the two loops meet them, and the place of a pair in their order.
Edges == {c \in cxns : c[1] < c[2]}
Place(c) == c[1] * num_nodes + c[2]

\* Faulty variant of LinkSeq: the inner loop starts at 0.
LinkSeqBothWays ==
  LET met == Ascending({Place(c) : c \in cxns})
  IN  [k \in DOMAIN met |-> <<met[k] \div num_nodes, met[k] % num_nodes>>]

\* The links in the order of their numbers, num_networks.
LinkSeq ==
  LET met == Ascending({Place(c) : c \in Edges})
  IN  [k \in DOMAIN met |-> <<met[k] \div num_nodes, met[k] % num_nodes>>]

\* x | 0x0a000000: of the two bits, those that x has not are added to it.
OrBase(x) ==
  LET added(bit) == IF (x \div bit) % 2 = 1 THEN 0 ELSE bit
  IN  x + added(33554432) + added(134217728)

\* Faulty variant of Network: no room for the second host.
NetworkUnshifted(k) == OrBase(k)

Network(k) == OrBase(k * 8)

\* The devices at the two ends of a link get the first two hosts of its network.
Assign(k, end) == Network(k) + end

\* The interfaces of a node: that of InternetStackHelper, then one for each of
\* its links.  Link 0 stands for the loopback device.
Interfaces(node) ==
  LET links == Ascending({k \in DOMAIN LinkSeq : node \in Range(LinkSeq[k])})
      End(k) == IF LinkSeq[k][1] = node THEN 1 ELSE 2
  IN  << [link |-> 0, end |-> 0, addr |-> LoopbackAddr] >> \o
      [n \in DOMAIN links |->
         [link |-> links[n], end |-> End(links[n]), addr |-> Assign(links[n], End(links[n]))]]

IsLoopbackInterface(iface) == iface.addr = LoopbackAddr

PeerInterfaces(node) ==
  LET ifaces == Interfaces(node)
      kept == Ascending({n \in DOMAIN ifaces : ~IsLoopbackInterface(ifaces[n])})
  IN  [p \in DOMAIN kept |-> ifaces[kept[p]]]

\* The first address; without one an assertion fails, or the result is 0.
GetSomeAddrOf(node) ==
  IF PeerInterfaces(node) = <<>> THEN 0 ELSE PeerInterfaces(node)[1].addr

GetNumPeers(node) == Len(PeerInterfaces(node))

\* The device of the channel that has another hardware address than mine.
OtherEnd(iface) == 3 - iface.end

GetPeerAddr(iface) == Assign(iface.link, OtherEnd(iface))
GetPeerNode(iface) == LinkSeq[iface.link][OtherEnd(iface)]

\* m_peer_addresses and m_peer_nodes of a node that has started.
PeerAddresses(node) == [p \in 1..GetNumPeers(node) |-> GetPeerAddr(PeerInterfaces(node)[p])]
PeerNodes(node) == [p \in 1..GetNumPeers(node) |-> GetPeerNode(PeerInterfaces(node)[p])]

-----------------------------------------------------------------------------
(* Properties of the network once the graph is drawn. *)

Addresses(node) == {Interfaces(node)[n].addr : n \in 2..Len(Interfaces(node))}

\* No address is given to two devices, so that m_myaddr, which the protocol takes
\* for the identity of a node and compares with < (luby-mis.cc:784), is a
\* different one on every node.
OneIdentityEach ==
  Drawn /\ num_nodes > 1 =>
    /\ \A a \in Nodes : Cardinality(Addresses(a)) = Len(Interfaces(a)) - 1
    /\ \A a, b \in Nodes : a # b => Addresses(a) \cap Addresses(b) = {}
    /\ \A a \in Nodes : GetSomeAddrOf(a) \in Addresses(a)

\* Every node has one socket to each node the graph connects it with, on an
\* address of that node: m_num_peers is the degree and a send reaches a
\* neighbour (udp-gossip.cc:217-221), never the node itself.
SocketsReachNeighbours ==
  Drawn =>
    \A a \in Nodes :
      /\ IsInjective(PeerNodes(a))
      /\ Range(PeerNodes(a)) = {b \in Nodes : <<a, b>> \in cxns}
      /\ \A p \in 1..GetNumPeers(a) : PeerAddresses(a)[p] \in Addresses(PeerNodes(a)[p])
=============================================================================
