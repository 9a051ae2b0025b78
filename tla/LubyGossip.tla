------------------------------ MODULE LubyGossip ------------------------------
(***************************************************************************)
(* A network of nodes that run the LubyMIS protocol over UdpGossip.        *)
(*                                                                         *)
(* The simulator runs one event at a time, so that a timer that sends and  *)
(* a packet that is received are atomic steps; what interleaves is which   *)
(* node's event comes next and how long a packet stays on its link.  A     *)
(* point-to-point link delivers the packets of one direction in the order  *)
(* they were sent.                                                         *)
(***************************************************************************)
EXTENDS LubyInvariants

CONSTANTS
  Edge,         \* the links, as ordered pairs of addresses
  Value,        \* Value[a] is m_value of node a, scaled
  Bounded,      \* whether there are the bounds that follow, which the code has not
  MaxInFlight,  \* bound: packets under way in the whole network
  MaxRepDist,   \* bound: a node this far from a representative sends no more
  MaxLevels     \* bound: a node with more levels sends no more

ASSUME EdgeAssumption ==
  /\ Edge \subseteq Addr \X Addr
  /\ \A e \in Edge : e[1] # e[2] /\ <<e[2], e[1]>> \in Edge
ASSUME ValueAssumption == Value \in [Addr -> Int]
ASSUME BoundAssumption ==
  Bounded \in BOOLEAN /\ MaxInFlight \in Nat /\ MaxRepDist \in Nat /\ MaxLevels \in Nat

VARIABLES
  levels,   \* levels[a] is m_levels of node a
  link      \* link[<<a, b>>] holds the packets a sent and b has not read

vars == <<levels, link>>

\* The state after StartApplication of every node, which all run at the same
\* simulated time, before any of the sends they schedule.
Init ==
  /\ levels = [a \in Addr |-> Started(a, Value[a])]
  /\ link = [e \in Edge |-> <<>>]

WithinBounds(a) ==
  Bounded => /\ SumFunction([e \in Edge |-> Len(link[e])]) < MaxInFlight
             /\ Len(levels[a]) <= MaxLevels
             /\ \A i \in 1..Len(levels[a]) : levels[a][i].rep_dist < MaxRepDist

\* UdpGossip::Send at e[1], having picked e[2] among its peers.
Send(e) ==
  /\ WithinBounds(e[1])
  /\ link' = [link EXCEPT ![e] = Append(@, Packet(levels[e[1]]))]
  /\ UNCHANGED levels

\* Faulty variant of HandleRead: the newest packet is read first.
HandleReadNewest(e, lucky) ==
  /\ link[e] # <<>>
  /\ levels' = [levels EXCEPT ![e[2]] = Received(e[2], @, link[e][Len(link[e])], lucky)]
  /\ link' = [link EXCEPT ![e] = SubSeq(@, 1, Len(@) - 1)]

\* UdpGossip::HandleRead at e[2], with the packet that arrives on the link.
HandleRead(e, lucky) ==
  /\ link[e] # <<>>
  /\ levels' = [levels EXCEPT ![e[2]] = Received(e[2], @, Head(link[e]), lucky)]
  /\ link' = [link EXCEPT ![e] = Tail(@)]

Next == \E e \in Edge : Send(e) \/ \E lucky \in BOOLEAN : HandleRead(e, lucky)

Spec == Init /\ [][Next]_vars

-----------------------------------------------------------------------------
(* Properties.  What they say of one vector of levels is in LubyInvariants. *)

\* Types.  Level n of a node says that it is level n, so that level - 1 and
\* MaxPeerDistance(), which the code computes from it, mean level n - 1 and
\* level n's bound.
TypeOK ==
  /\ DOMAIN levels = Addr
  /\ \A a \in Addr : IsLevels(levels[a])
  /\ DOMAIN link = Edge
  /\ \A e \in Edge : \A i \in 1..Len(link[e]) :
       link[e][i].sender \in Addr /\ IsLevels(link[e][i].levels)

\* A node runs a level only while the level below it has a representative
\* and peers ("don't have any level-n peers; should not be running at a
\* higher level", luby-mis.cc:519): every handler that takes the last of them
\* away drops the levels above.
Ladder == \A a \in Addr : LadderOf(levels[a])

\* A level without a representative has no peers and no next hop: the
\* NS_ASSERT of ProcessTopologyChanges (luby-mis.cc:322) never fires.
NoRepNoPeers == \A a \in Addr : NoRepNoPeersOf(levels[a])

\* "My level-n rep either has to be my level n-1 rep or one of my level n-1
\* peers" (luby-mis.cc:567), after every packet and not only where it is
\* repaired: IsPreferable reads the degree of the one or the other.
RepIsCandidate == \A a \in Addr : RepIsCandidateOf(levels[a])

\* Neither a node nor the representative of its group is ever among the
\* group's peers ("I can't be my own peer!", luby-mis.cc:439), although the
\* peers are copied from neighbours that may have joined the group meanwhile.
OwnGroupIsNoPeer == \A a \in Addr : OwnGroupIsNoPeerOf(a, levels[a])

\* Routes to peers do not count to infinity: the distance of a level-n peer
\* stays between 1 and 3 * 2^(n-1), however stale the packets that teach it
\* ("watch for routing loops", luby-mis.cc:386).
PeerWithinReach == \A a \in Addr : PeerWithinReachOf(levels[a])

\* Every route leaves through a neighbour that the node has heard, never
\* through a node it only heard of.
NextHopIsNeighbour == \A a \in Addr : NextHopIsNeighbourOf(a, levels[a])

\* UpdatePeerValues never looks up, in the sender's map of peers, a peer that
\* the sender does not have (luby-mis.cc:809 dereferences what operator[]
\* returns), whatever the packet at the head of a link says.
NoNullPeerRead ==
  \A e \in {d \in Edge : link[d] # <<>>} :
    LET s == Head(link[e]).sender
        M == Head(link[e]).levels
        L == BeforeValues(e[2], levels[e[2]], s, M)
    IN  \A n \in 0..(Len(L) - 1) : n < Len(M) => ReadsNoNull(L, s, M, n)

\* Degree at level 0, as a packet tells it.
Degrees(e) == [i \in 1..Len(link[e]) |-> NumPeers(link[e][i].levels[1])]

\* What a receiver knows of its neighbour's degree, what the packets on the
\* link say and what the neighbour has now never decrease in this order: a
\* level-0 degree is never taken back, so that the changes that restart all
\* levels of the neighbours (luby-mis.cc:307) come to an end.
DegreesInOrder ==
  \A e \in Edge :
    LET told == Degrees(e)
        now == NumPeers(levels[e[1]][1])
        heard == levels[e[2]][1].peers
    IN  /\ \A i, j \in 1..Len(told) : i <= j => told[i] <= told[j]
        /\ \A i \in 1..Len(told) : told[i] <= now
        /\ e[1] \in DOMAIN heard =>
             /\ \A i \in 1..Len(told) : heard[e[1]].degree <= told[i]
             /\ heard[e[1]].degree <= now

\* The values the protocol agrees on lie between the values of the nodes and
\* the 0 a level starts from: no median, and no value kept from an earlier
\* group, leaves that range.
ValueInRange ==
  LET known == {0} \cup {Value[a] : a \in Addr}
      inRange(v) == \E lo, hi \in known : lo <= v /\ v <= hi
  IN  \A a \in Addr : \A i \in 1..Len(levels[a]) :
        /\ inRange(levels[a][i].rep_value)
        /\ \A p \in PeersOf(levels[a][i]) : inRange(levels[a][i].peers[p].value)

-----------------------------------------------------------------------------
(* Action properties. *)

\* An election is decided on the representative, the peers and the degrees of
\* the level below.  Only a packet that is read changes levels, and one that
\* changes any of these leaves no level above but one that has just been started:
\* no representative and no peer survives that was decided on what was before.
RestartAbove ==
  [][\A a \in Addr : levels'[a] = levels[a] \/
       \E e \in Edge :
         /\ e[2] = a /\ link[e] # <<>> /\ link'[e] = Tail(link[e])
         /\ RestartedAbove(a, levels[a], levels'[a],
                           Head(link[e]).sender, Head(link[e]).levels)]_vars

-----------------------------------------------------------------------------
(* What the lowest level promises.  *)

LevelZero == INSTANCE NeighbourGossip WITH
  MaxQueue <- MaxInFlight,
  known <- [a \in Addr |-> Degree(levels[a][1])],
  link <- [e \in Edge |-> Degrees(e)]

\* Whatever the levels above do, level 0 is gossip about degrees: nothing but a
\* packet from a neighbour changes it, and only what the packet says of the
\* sender's level 0.
LevelZeroIsGossip == LevelZero!Spec

-----------------------------------------------------------------------------
(* What the source says and the code does not do. *)

\* "I'm the level-n rep, so I should calculate the median value for this
\* level-n group" (luby-mis.cc:822): the packets of a node that elected itself
\* advertise the median.
AdvertisedIsMedian ==
  \A e \in Edge : \A i \in 1..Len(link[e]) :
    LET me == e[1]
        L == link[e][i].levels
    IN  \A n \in 1..(Len(L) - 1) : At(L, n).rep = me =>
          At(L, n).rep_value = MedianOf(ValuesBelow(me, At(L, n - 1).rep_value, At(L, n - 1)))
=============================================================================
