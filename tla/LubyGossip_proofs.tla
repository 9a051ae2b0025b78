-------------------------- MODULE LubyGossip_proofs --------------------------
(***************************************************************************)
(* The safety properties of LubyGossip, for every network and every value  *)
(* of the bounds: levels stay well-formed in the nodes and in the packets  *)
(* under way between them.                                                 *)
(***************************************************************************)
EXTENDS LubyGossip, LubyMIS_proofs

\* The values a level starts from, and the range they span.
StartValues == {0} \cup {Value[a] : a \in Addr}
Lowest == CHOOSE v \in StartValues : \A w \in StartValues : v <= w
Highest == CHOOSE v \in StartValues : \A w \in StartValues : w <= v

\* The packets node a may have sent.
PacketsOf(a) ==
  [sender : {a},
   levels : {L \in Seq(AnyLevel) : WellFormed(a, L) /\ ValuesIn(Lowest..Highest, L)}]

\* The inductive invariant.  What a node makes of a packet is well-formed, and
\* its values are in the range, only if the packet was, so that the packets
\* under way belong to it; none of the conditions of WellFormed is kept without
\* the others.  Next hops stay behind: OnWire clears that to the representative,
\* and a node never takes over one to a peer.
IInv ==
  /\ DOMAIN levels = Addr
  /\ \A a \in Addr : /\ WellFormed(a, levels[a])
                    /\ NextHopIsNeighbourOf(a, levels[a])
                    /\ ValuesIn(Lowest..Highest, levels[a])
  /\ DOMAIN link = Edge /\ \A e \in Edge : link[e] \in Seq(PacketsOf(e[1]))

\* Finitely many values have a lowest and a highest.
LEMMA Extremes ==
  /\ Lowest \in StartValues /\ Highest \in StartValues
  /\ Lowest \in Int /\ Highest \in Int
  /\ \A v \in StartValues : v \in Lowest..Highest
<1> DEFINE D == Addr \cup {None}
           f == [d \in D |-> IF d = None THEN 0 ELSE Value[d]]
           g == [d \in D |-> 0 - f[d]]
<1>1. IsFiniteSet(D) /\ None \notin Addr
  BY AddrAssumption, FS_AddElement DEF None
<1>2. f \in [D -> Int]
  BY <1>1, ValueAssumption
<1>3. StartValues \subseteq Int /\ StartValues = {f[d] : d \in D}
  <2>1. \A d \in Addr : f[d] = Value[d]
    BY <1>1
  <2>2. f[None] = 0
    OBVIOUS
  <2> HIDE DEF f
  <2>3. StartValues = {f[d] : d \in D}
    BY <2>1, <2>2 DEF StartValues
  <2> QED
    BY <1>2, <2>3
<1> HIDE DEF f
<1>4. g \in [D -> Int] /\ \A d \in D : g[d] = 0 - f[d]
  BY <1>2
<1> HIDE DEF g
<1>5. \E v \in StartValues : \A w \in StartValues : w <= v
  <2>1. PICK i \in D : \A j \in D : f[j] <= f[i]
    BY <1>1, <1>2, LargestValue
  <2> QED
    BY <1>3, <2>1
<1>6. \E v \in StartValues : \A w \in StartValues : v <= w
  <2>1. PICK i \in D : \A j \in D : g[j] <= g[i]
    BY <1>1, <1>4, LargestValue
  <2>2. \A j \in D : f[i] <= f[j]
    BY <1>2, <1>4, <2>1
  <2> QED
    BY <1>3, <2>2
<1>7. Highest \in StartValues /\ \A w \in StartValues : w <= Highest
  BY <1>5 DEF Highest
<1>8. Lowest \in StartValues /\ \A w \in StartValues : Lowest <= w
  BY <1>6 DEF Lowest
<1> QED
  BY <1>3, <1>7, <1>8

\* The ends of a link are two nodes.
LEMMA EdgeEnds == ASSUME NEW e \in Edge PROVE e[1] \in Addr /\ e[2] \in Addr /\ e[1] # e[2]
  BY EdgeAssumption

\* A packet of node a, to any of its neighbours.
LEMMA PacketNeighbourly ==
  ASSUME NEW a, NEW packet \in PacketsOf(a), NEW me, a \in Addr, me \in Addr, me # a
  PROVE  Neighbourly(me, packet.sender, packet.levels)
  BY DEF PacketsOf, Neighbourly

\* Every node starts well-formed and every link empty.
LEMMA InitIInv == Init => IInv
<1> SUFFICES ASSUME Init PROVE IInv
  OBVIOUS
<1>1. ASSUME NEW a \in Addr
      PROVE  /\ WellFormed(a, levels[a]) /\ NextHopIsNeighbourOf(a, levels[a])
             /\ ValuesIn(Lowest..Highest, levels[a])
  <2>1. levels[a] = Started(a, Value[a]) /\ Value[a] \in Int
    BY ValueAssumption DEF Init
  <2>2. Value[a] \in Lowest..Highest
    BY Extremes DEF StartValues
  <2> QED
    BY <2>1, <2>2, StartedOK
<1>2. ASSUME NEW e \in Edge PROVE link[e] \in Seq(PacketsOf(e[1]))
  BY DEF Init
<1> QED
  BY <1>1, <1>2 DEF Init, IInv

\* A packet that is sent.
LEMMA SendIInv ==
  ASSUME IInv, NEW e \in Edge, Send(e)
  PROVE  IInv'
<1> DEFINE x == Packet(levels[e[1]])
<1>1. levels' = levels /\ link' = [link EXCEPT ![e] = Append(link[e], x)]
  BY DEF Send
<1>2. WellFormed(e[1], levels[e[1]]) /\ ValuesIn(Lowest..Highest, levels[e[1]])
  BY EdgeEnds DEF IInv
<1>3. x \in PacketsOf(e[1])
  <2>1. x.sender = e[1] /\ WellFormed(e[1], x.levels) /\ ValuesIn(Lowest..Highest, x.levels)
    BY <1>2, PacketOK
  <2>2. x.levels \in Seq(AnyLevel)
    BY <2>1, LevelsShape DEF WellFormed
  <2>3. x = [sender |-> x.sender, levels |-> x.levels]
    BY DEF Packet
  <2> HIDE DEF x
  <2> QED
    BY <2>1, <2>2, <2>3 DEF PacketsOf
<1> HIDE DEF x
<1>4. ASSUME NEW d \in Edge PROVE link'[d] \in Seq(PacketsOf(d[1]))
  <2>1. link[d] \in Seq(PacketsOf(d[1]))
    BY DEF IInv
  <2>2. CASE d = e
    <3>1. link'[d] = Append(link[d], x)
      BY <1>1, <2>2 DEF IInv
    <3> QED
      BY <1>3, <2>1, <2>2, <3>1, AppendProperties
  <2>3. CASE d # e
    BY <1>1, <2>1, <2>3 DEF IInv
  <2> QED
    BY <2>2, <2>3
<1> QED
  BY <1>1, <1>4 DEF IInv

\* A packet that is received.
LEMMA HandleReadIInv ==
  ASSUME IInv, NEW e \in Edge, NEW lucky \in BOOLEAN, HandleRead(e, lucky)
  PROVE  IInv'
<1> DEFINE me == e[2]
           packet == Head(link[e])
           K == Received(me, levels[me], packet, lucky)
<1>1. /\ link[e] # <<>> /\ levels' = [levels EXCEPT ![me] = K]
      /\ link' = [link EXCEPT ![e] = Tail(link[e])]
  BY DEF HandleRead
<1>2. /\ link[e] \in Seq(PacketsOf(e[1])) /\ me \in Addr /\ WellFormed(me, levels[me])
      /\ NextHopIsNeighbourOf(me, levels[me]) /\ ValuesIn(Lowest..Highest, levels[me])
  BY EdgeEnds DEF IInv
<1>3. packet \in PacketsOf(e[1]) /\ Tail(link[e]) \in Seq(PacketsOf(e[1]))
  BY <1>1, <1>2, HeadTailProperties
<1>4. Neighbourly(me, packet.sender, packet.levels)
  BY <1>3, EdgeEnds, PacketNeighbourly
<1>5. WellFormed(me, K) /\ NextHopIsNeighbourOf(me, K)
  BY <1>2, <1>4, ReceivedOK, ReceivedHops
<1>6. ValuesIn(Lowest..Highest, K)
  <2>1. Lowest \in Int /\ Highest \in Int /\ 0 \in Lowest..Highest
    BY Extremes DEF StartValues
  <2>2. ValuesIn(Lowest..Highest, packet.levels)
    BY <1>3 DEF PacketsOf
  <2> QED
    BY <1>2, <1>4, <2>1, <2>2, ReceivedValues
<1> HIDE DEF K
<1>7. ASSUME NEW a \in Addr
      PROVE  /\ WellFormed(a, levels'[a]) /\ NextHopIsNeighbourOf(a, levels'[a])
             /\ ValuesIn(Lowest..Highest, levels'[a])
  BY <1>1, <1>5, <1>6 DEF IInv
<1>8. ASSUME NEW d \in Edge PROVE link'[d] \in Seq(PacketsOf(d[1]))
  BY <1>1, <1>3 DEF IInv
<1> QED
  BY <1>1, <1>7, <1>8 DEF IInv

\* Neither a packet that is sent nor one that is received disturbs IInv.
LEMMA NextIInv == IInv /\ [Next]_vars => IInv'
<1> SUFFICES ASSUME IInv, [Next]_vars PROVE IInv'
  OBVIOUS
<1>1. ASSUME NEW e \in Edge, Send(e) PROVE IInv'
  BY <1>1, SendIInv
<1>2. ASSUME NEW e \in Edge, NEW lucky \in BOOLEAN, HandleRead(e, lucky) PROVE IInv'
  BY <1>2, HandleReadIInv
<1>3. CASE UNCHANGED vars
  BY <1>3 DEF vars, IInv
<1> QED
  BY <1>1, <1>2, <1>3 DEF Next

\* In every state the levels of every node, and the levels in every packet under
\* way, are well-formed: what MarshalFrom relies on when it is called next.
THEOREM Invariance == Spec => []IInv
  BY InitIInv, NextIInv, PTL DEF Spec

-----------------------------------------------------------------------------
(* The properties that follow. *)

\* Levels, and the levels in every packet, have their types, and level n says
\* that it is level n.
THEOREM TypeCorrect == Spec => []TypeOK
<1>1. IInv => TypeOK
  <2> SUFFICES ASSUME IInv PROVE TypeOK
    OBVIOUS
  <2>1. ASSUME NEW a \in Addr PROVE IsLevels(levels[a])
    BY DEF IInv, WellFormed
  <2>2. ASSUME NEW e \in Edge, NEW i \in 1..Len(link[e])
        PROVE  link[e][i].sender \in Addr /\ IsLevels(link[e][i].levels)
    <3>1. link[e][i] \in PacketsOf(e[1])
      BY ElementOfSeq DEF IInv
    <3> QED
      BY <3>1, EdgeEnds DEF PacketsOf, WellFormed
  <2> QED
    BY <2>1, <2>2 DEF IInv, TypeOK
<1> QED
  BY <1>1, Invariance, PTL

\* A level only runs above a level that has a representative and peers.
THEOREM LadderHolds == Spec => []Ladder
<1>1. IInv => Ladder
  BY DEF IInv, WellFormed, Ladder
<1> QED
  BY <1>1, Invariance, PTL

\* The NS_ASSERT of ProcessTopologyChanges never fires.
THEOREM NoRepNoPeersHolds == Spec => []NoRepNoPeers
<1>1. IInv => NoRepNoPeers
  BY DEF IInv, WellFormed, NoRepNoPeers
<1> QED
  BY <1>1, Invariance, PTL

\* The representative of a level is that of the level below or of one of its
\* peer groups.
THEOREM RepIsCandidateHolds == Spec => []RepIsCandidate
<1>1. IInv => RepIsCandidate
  BY DEF IInv, WellFormed, RepIsCandidate
<1> QED
  BY <1>1, Invariance, PTL

\* Nobody is his own group's peer.
THEOREM OwnGroupIsNoPeerHolds == Spec => []OwnGroupIsNoPeer
<1>1. IInv => OwnGroupIsNoPeer
  BY DEF IInv, WellFormed, OwnGroupIsNoPeer
<1> QED
  BY <1>1, Invariance, PTL

\* Routes to peers do not count to infinity: whatever packets a node has heard,
\* and however stale, a level-n peer is between 1 and 3 * 2^(n-1) hops away.
THEOREM PeerWithinReachHolds == Spec => []PeerWithinReach
<1>1. IInv => PeerWithinReach
  BY DEF IInv, WellFormed, PeerWithinReach
<1> QED
  BY <1>1, Invariance, PTL

\* Every route, to a representative and to a peer, leaves through a neighbour
\* the node has heard.
THEOREM NextHopIsNeighbourHolds == Spec => []NextHopIsNeighbour
<1>1. IInv => NextHopIsNeighbour
  BY DEF IInv, NextHopIsNeighbour
<1> QED
  BY <1>1, Invariance, PTL

\* Every value a node has agreed on, been told or computed as a median lies
\* between two of those the levels started from.
THEOREM ValueInRangeHolds == Spec => []ValueInRange
<1>1. IInv => ValueInRange
  <2> DEFINE inRange(v) == \E lo, hi \in StartValues : lo <= v /\ v <= hi
  <2>1. \A v \in Lowest..Highest : inRange(v)
    BY Extremes
  <2> HIDE DEF inRange
  <2>2. ASSUME IInv, NEW a \in Addr, NEW i \in 1..Len(levels[a])
        PROVE  /\ inRange(levels[a][i].rep_value)
               /\ \A p \in PeersOf(levels[a][i]) : inRange(levels[a][i].peers[p].value)
    BY <2>1, <2>2 DEF IInv, ValuesIn
  <2> QED
    BY <2>2 DEF ValueInRange, StartValues, inRange
<1> QED
  BY <1>1, Invariance, PTL

\* A packet that changes the representative, the peers or a degree of a level
\* leaves no level above it but one that has just been started, and nothing but
\* a packet changes a level.
THEOREM RestartAboveHolds == Spec => RestartAbove
<1> DEFINE Explained(a) ==
             levels'[a] = levels[a] \/
             \E e \in Edge :
               /\ e[2] = a /\ link[e] # <<>> /\ link'[e] = Tail(link[e])
               /\ RestartedAbove(a, levels[a], levels'[a],
                                 Head(link[e]).sender, Head(link[e]).levels)
<1>1. ASSUME IInv, NEW e \in Edge, NEW lucky \in BOOLEAN, HandleRead(e, lucky), NEW a \in Addr
      PROVE  Explained(a)
  <2> DEFINE me == e[2]
             packet == Head(link[e])
             K == Received(me, levels[me], packet, lucky)
  <2>1. /\ link[e] # <<>> /\ levels' = [levels EXCEPT ![me] = K]
        /\ link' = [link EXCEPT ![e] = Tail(@)]
    BY <1>1 DEF HandleRead
  <2>2. /\ link[e] \in Seq(PacketsOf(e[1])) /\ me \in Addr /\ WellFormed(me, levels[me])
    BY <1>1, EdgeEnds DEF IInv
  <2>3. packet \in PacketsOf(e[1])
    BY <2>1, <2>2, HeadTailProperties
  <2>4. Neighbourly(me, packet.sender, packet.levels)
    BY <2>3, EdgeEnds, PacketNeighbourly
  <2>5. RestartedAbove(me, levels[me], K, packet.sender, packet.levels)
    BY <2>2, <2>4, ReceivedRestarts
  <2> HIDE DEF K
  <2>6. CASE a = me
    <3>1. levels'[a] = K /\ link'[e] = Tail(link[e])
      BY <1>1, <2>1, <2>6 DEF IInv
    <3> QED
      BY <2>1, <2>5, <2>6, <3>1
  <2>7. CASE a # me
    BY <1>1, <2>1, <2>7 DEF IInv
  <2> QED
    BY <2>6, <2>7
<1>2. ASSUME NEW e \in Edge, Send(e), NEW a \in Addr PROVE Explained(a)
  BY <1>2 DEF Send
<1>3. IInv /\ [Next]_vars => [\A a \in Addr : Explained(a)]_vars
  <2> HIDE DEF Explained
  <2> QED
    BY <1>1, <1>2 DEF Next
<1> QED
  BY <1>3, Invariance, PTL DEF Spec, RestartAbove

\* UpdatePeerValues dereferences no null LubyPeer*, whichever packet is at the
\* head of a link.
THEOREM NoNullPeerReadHolds == Spec => []NoNullPeerRead
<1>1. IInv => NoNullPeerRead
  <2> SUFFICES ASSUME IInv, NEW e \in Edge, link[e] # <<>>,
                      NEW n \in 0..(Len(BeforeValues(e[2], levels[e[2]], Head(link[e]).sender,
                                                     Head(link[e]).levels)) - 1),
                      n < Len(Head(link[e]).levels)
               PROVE  ReadsNoNull(BeforeValues(e[2], levels[e[2]], Head(link[e]).sender,
                                               Head(link[e]).levels),
                                  Head(link[e]).sender, Head(link[e]).levels, n)
    BY DEF NoNullPeerRead
  <2> DEFINE me == e[2]
             packet == Head(link[e])
             s == packet.sender
             M == packet.levels
             K == BeforeValues(me, levels[me], s, M)
  <2>1. packet \in PacketsOf(e[1]) /\ me \in Addr /\ WellFormed(me, levels[me])
    BY EdgeEnds, HeadTailProperties DEF IInv
  <2>2. Neighbourly(me, s, M)
    BY <2>1, EdgeEnds, PacketNeighbourly
  <2>3. ReadsOK(me, levels[me], K, s, M)
    BY <2>1, <2>2, BeforeValuesOK
  <2>4. n < Len(K) /\ n \in 0..(Len(M) - 1)
    <3>1. Len(K) \in Nat /\ Len(M) \in Nat
      BY <2>2, <2>3, LevelsShape DEF ReadsOK, Neighbourly, WellFormed
    <3> QED
      BY <3>1
  <2> QED
    BY <2>3, <2>4 DEF ReadsOK
<1> QED
  BY <1>1, Invariance, PTL

-----------------------------------------------------------------------------
(* Level 0 is gossip about degrees. *)

Known == [a \in Addr |-> Degree(levels[a][1])]
Told == [e \in Edge |-> Degrees(e)]

\* FiniteSets, reached through the instance, is FiniteSets.
LEMMA SameCardinality == ASSUME NEW S PROVE LevelZero!Cardinality(S) = Cardinality(S)
  BY DEF LevelZero!Cardinality, Cardinality

\* At first nothing is known and nothing is told.
LEMMA LevelZeroInit == Init => LevelZero!Init
<1> SUFFICES ASSUME Init PROVE LevelZero!Init
  OBVIOUS
<1>1. ASSUME NEW a \in Addr PROVE Degree(levels[a][1]) = [b \in {} |-> 0]
  <2>1. levels[a] = <<[NewLevel(0) EXCEPT !.rep = a, !.rep_value = Value[a]]>>
    BY DEF Init, Started
  <2>2. levels[a][1].peers = NoPeers
    <3>1. levels[a][1] = [NewLevel(0) EXCEPT !.rep = a, !.rep_value = Value[a]]
      BY <2>1
    <3>2. [NewLevel(0) EXCEPT !.rep = a, !.rep_value = Value[a]].peers = NoPeers
      BY DEF NewLevel
    <3> QED
      BY <3>1, <3>2
  <2> QED
    BY <2>2 DEF Degree, PeersOf, NoPeers
<1>2. ASSUME NEW e \in Edge PROVE Degrees(e) = <<>>
  BY DEF Init, Degrees
<1> QED
  BY <1>1, <1>2 DEF LevelZero!Init

\* The number of neighbours that a packet tells is that of level 0.
LEMMA DegreeOfLevelZero ==
  ASSUME IInv, NEW a \in Addr
  PROVE  /\ NumPeers(levels[a][1]) = Cardinality(DOMAIN Degree(levels[a][1]))
         /\ NumPeers(Packet(levels[a]).levels[1]) = NumPeers(levels[a][1])
<1>1. Len(levels[a]) \in Nat \ {0} /\ levels[a][1] \in AnyLevel
  <2>1. IsLevels(levels[a])
    BY DEF IInv, WellFormed
  <2>2. 1 \in 1..Len(levels[a])
    BY <2>1, LevelsShape
  <2> QED
    BY <2>1, <2>2, LevelsShape
<1>2. Packet(levels[a]).levels[1] = OnWire(levels[a][1])
  BY <1>1 DEF Packet
<1>3. PICK D \in SUBSET Addr : levels[a][1] \in Level(D)
  BY <1>1 DEF AnyLevel
<1>4. OnWire(levels[a][1]).peers = levels[a][1].peers
  BY <1>3 DEF OnWire, Level
<1> QED
  BY <1>2, <1>4 DEF NumPeers, Degree, PeersOf

\* A packet that is sent tells the sender's degree.
LEMMA SendTells ==
  ASSUME IInv, NEW e \in Edge, Send(e)
  PROVE  LevelZero!Tell(e)
<1> DEFINE x == Packet(levels[e[1]])
           degree == NumPeers(levels[e[1]][1])
<1>1. levels' = levels /\ link' = [link EXCEPT ![e] = Append(link[e], x)]
  BY DEF Send
<1>2. degree = Cardinality(DOMAIN Known[e[1]]) /\ NumPeers(x.levels[1]) = degree
  BY EdgeEnds, DegreeOfLevelZero DEF Known
<1>3. link[e] \in Seq(PacketsOf(e[1]))
  BY DEF IInv
<1> HIDE DEF x, degree
<1>4. Degrees(e)' = Append(Degrees(e), degree)
  <2>1. /\ Len(link'[e]) = Len(link[e]) + 1 /\ Len(link[e]) \in Nat
        /\ link'[e][Len(link[e]) + 1] = x
        /\ \A i \in 1..Len(link[e]) : link'[e][i] = link[e][i]
    <3>1. link'[e] = Append(link[e], x)
      BY <1>1 DEF IInv
    <3> QED
      BY <1>3, <3>1
  <2>2. Degrees(e)' = [i \in 1..(Len(link[e]) + 1) |->
                         IF i = Len(link[e]) + 1 THEN degree ELSE NumPeers(link[e][i].levels[1])]
    BY <1>2, <2>1 DEF Degrees
  <2>3. /\ Degrees(e) = [i \in 1..Len(link[e]) |-> NumPeers(link[e][i].levels[1])]
        /\ Len(Degrees(e)) = Len(link[e])
    BY <2>1 DEF Degrees
  <2>4. Append(Degrees(e), degree)
          = [i \in 1..(Len(link[e]) + 1) |-> IF i = Len(link[e]) + 1 THEN degree ELSE Degrees(e)[i]]
    BY <2>1, <2>3
  <2> QED
    BY <2>1, <2>2, <2>3, <2>4
<1>5. ASSUME NEW d \in Edge, d # e PROVE Degrees(d)' = Degrees(d)
  BY <1>1, <1>5 DEF Degrees, IInv
<1>6. Told' = [Told EXCEPT ![e] = Append(Told[e], degree)]
  BY <1>4, <1>5 DEF Told
<1>7. Known' = Known
  BY <1>1 DEF Known, Degree
<1>8. LevelZero!Degree(e[1]) = degree
  BY <1>2, SameCardinality DEF LevelZero!Degree, Known
<1> QED
  BY <1>6, <1>7, <1>8 DEF LevelZero!Tell, Known, Told

\* A packet that is received is heard.
LEMMA HandleReadHears ==
  ASSUME IInv, NEW e \in Edge, NEW lucky \in BOOLEAN, HandleRead(e, lucky)
  PROVE  LevelZero!Hear(e)
<1> DEFINE me == e[2]
           packet == Head(link[e])
           K == Received(me, levels[me], packet, lucky)
<1>1. /\ link[e] # <<>> /\ levels' = [levels EXCEPT ![me] = K]
      /\ link' = [link EXCEPT ![e] = Tail(link[e])]
  BY DEF HandleRead
<1>2. /\ link[e] \in Seq(PacketsOf(e[1])) /\ me \in Addr /\ WellFormed(me, levels[me])
  BY EdgeEnds DEF IInv
<1>3. /\ packet \in PacketsOf(e[1]) /\ packet = link[e][1]
      /\ Len(link[e]) \in Nat \ {0} /\ Len(Tail(link[e])) = Len(link[e]) - 1
      /\ \A i \in 1..(Len(link[e]) - 1) : Tail(link[e])[i] = link[e][i + 1]
  BY <1>1, <1>2, HeadTailProperties, EmptySeq, LenProperties
<1>4. Neighbourly(me, packet.sender, packet.levels) /\ packet.sender = e[1]
  BY <1>3, EdgeEnds, PacketNeighbourly DEF PacketsOf
<1>5. Degree(K[1]) = [p \in DOMAIN Degree(levels[me][1]) \cup {e[1]} |->
                        IF p = e[1] THEN NumPeers(packet.levels[1])
                        ELSE Degree(levels[me][1])[p]]
  <2> HIDE DEF packet
  <2>1. Degree(At(K, 0)) = HeardOf(Degree(At(levels[me], 0)), packet.sender, NumPeers(At(packet.levels, 0)))
    BY <1>2, <1>4, ReceivedDegrees
  <2> QED
    BY <1>4, <2>1 DEF At, HeardOf
<1>6. Degrees(e) # <<>> /\ Head(Degrees(e)) = NumPeers(packet.levels[1])
  BY <1>3 DEF Degrees
<1>7. Degrees(e)' = Tail(Degrees(e))
  <2>1. link'[e] = Tail(link[e])
    BY <1>1 DEF IInv
  <2>2. Degrees(e)' = [i \in 1..(Len(link[e]) - 1) |-> NumPeers(link[e][i + 1].levels[1])]
    BY <1>3, <2>1 DEF Degrees
  <2>3. Degrees(e) \in Seq({NumPeers(link[e][i].levels[1]) : i \in 1..Len(link[e])})
        /\ Len(Degrees(e)) = Len(link[e])
    BY <1>3 DEF Degrees
  <2>4. Tail(Degrees(e)) = [i \in 1..(Len(link[e]) - 1) |-> Degrees(e)[i + 1]]
    <3> DEFINE D == Degrees(e)
               S == {NumPeers(link[e][i].levels[1]) : i \in 1..Len(link[e])}
    <3>1. D \in Seq(S) /\ D # <<>>
      BY <1>6, <2>3
    <3> HIDE DEF D, S
    <3>2. /\ Tail(D) \in Seq(S) /\ Len(Tail(D)) = Len(D) - 1
          /\ \A i \in 1..Len(Tail(D)) : Tail(D)[i] = D[i + 1]
      BY <3>1, HeadTailProperties
    <3>3. Tail(D) = [i \in 1..Len(Tail(D)) |-> Tail(D)[i]]
      BY <3>2, SeqDef, LenProperties
    <3> QED
      BY <2>3, <3>2, <3>3 DEF D
  <2>5. \A i \in 1..(Len(link[e]) - 1) : Degrees(e)[i + 1] = NumPeers(link[e][i + 1].levels[1])
    BY <1>3 DEF Degrees
  <2> QED
    BY <2>2, <2>4, <2>5
<1> HIDE DEF K, packet
<1>8. ASSUME NEW d \in Edge, d # e PROVE Degrees(d)' = Degrees(d)
  BY <1>1, <1>8 DEF Degrees, IInv
<1>9. Told' = [Told EXCEPT ![e] = Tail(Told[e])]
  BY <1>7, <1>8 DEF Told
<1>10. Known' = [Known EXCEPT ![me] = LevelZero!Heard(Known[me], e[1], Head(Told[e]))]
  <2>1. \A a \in Addr : levels'[a] = IF a = me THEN K ELSE levels[a]
    BY <1>1 DEF IInv
  <2>2. LevelZero!Heard(Known[me], e[1], Head(Told[e])) = Degree(K[1])
    BY <1>2, <1>5, <1>6 DEF LevelZero!Heard, Known, Told
  <2> QED
    BY <1>2, <2>1, <2>2 DEF Known
<1>11. Told[e] # <<>>
  BY <1>6 DEF Told
<1> QED
  BY <1>9, <1>10, <1>11 DEF LevelZero!Hear, Known, Told

\* Nothing else that happens in the network changes level 0.
THEOREM LevelZeroHolds == Spec => LevelZeroIsGossip
<1>1. IInv /\ [Next]_vars => [LevelZero!Next]_(LevelZero!vars)
  <2> SUFFICES ASSUME IInv, [Next]_vars PROVE [LevelZero!Next]_(LevelZero!vars)
    OBVIOUS
  <2>1. ASSUME NEW e \in Edge, Send(e) PROVE LevelZero!Next
    BY <2>1, SendTells DEF LevelZero!Next
  <2>2. ASSUME NEW e \in Edge, NEW lucky \in BOOLEAN, HandleRead(e, lucky) PROVE LevelZero!Next
    BY <2>2, HandleReadHears DEF LevelZero!Next
  <2>3. CASE UNCHANGED vars
    BY <2>3 DEF vars, LevelZero!vars, Degrees, Degree
  <2> QED
    BY <2>1, <2>2, <2>3 DEF Next
<1> QED
  BY <1>1, LevelZeroInit, Invariance, PTL DEF LevelZeroIsGossip, LevelZero!Spec, Spec

LevelZeroProofs == INSTANCE NeighbourGossip_proofs WITH
  MaxQueue <- MaxInFlight, known <- Known, link <- Told

\* A degree is never taken back, whatever the levels above do.
THEOREM DegreesInOrderHolds == Spec => []DegreesInOrder
<1>1. LevelZeroProofs!NeighbourAssumption /\ LevelZeroProofs!QueueAssumption
  BY EdgeAssumption, AddrAssumption, BoundAssumption
  DEF LevelZeroProofs!NeighbourAssumption, LevelZeroProofs!QueueAssumption, LevelZeroProofs!IsFiniteSet, IsFiniteSet
<1>2. LevelZeroProofs!Spec => [](LevelZeroProofs!TypeOK /\ LevelZeroProofs!InOrder)
  BY <1>1, LevelZeroProofs!DegreesGrow
<1>3. LevelZero!Init => LevelZeroProofs!Init
  BY DEF LevelZeroProofs!Init, LevelZero!Init, Known, Told
<1>4. [LevelZero!Next]_(LevelZero!vars) => [LevelZeroProofs!Next]_(LevelZeroProofs!vars)
  <2>1. ASSUME NEW e \in Edge, LevelZero!Tell(e) PROVE LevelZeroProofs!Tell(e)
    BY <2>1 DEF LevelZero!Tell, LevelZeroProofs!Tell, LevelZero!Degree, LevelZeroProofs!Degree,
       LevelZero!Cardinality, LevelZeroProofs!Cardinality, Known, Told
  <2>2. ASSUME NEW e \in Edge, LevelZero!Hear(e) PROVE LevelZeroProofs!Hear(e)
    BY <2>2 DEF LevelZero!Hear, LevelZeroProofs!Hear, LevelZero!Heard, LevelZeroProofs!Heard, Known, Told
  <2>3. LevelZero!vars = LevelZeroProofs!vars /\ (UNCHANGED LevelZero!vars => UNCHANGED LevelZeroProofs!vars)
    BY DEF LevelZero!vars, LevelZeroProofs!vars, Known, Told
  <2> QED
    BY <2>1, <2>2, <2>3 DEF LevelZero!Next, LevelZeroProofs!Next
<1>5. LevelZeroIsGossip => LevelZeroProofs!Spec
  BY <1>3, <1>4, PTL DEF LevelZeroIsGossip, LevelZero!Spec, LevelZeroProofs!Spec
<1>6. IInv /\ LevelZeroProofs!InOrder => DegreesInOrder
  <2> SUFFICES ASSUME IInv, LevelZeroProofs!InOrder, NEW e \in Edge
               PROVE  /\ \A i, j \in 1..Len(Degrees(e)) : i <= j => Degrees(e)[i] <= Degrees(e)[j]
                      /\ \A i \in 1..Len(Degrees(e)) : Degrees(e)[i] <= NumPeers(levels[e[1]][1])
                      /\ e[1] \in DOMAIN levels[e[2]][1].peers =>
                           /\ \A i \in 1..Len(Degrees(e)) :
                                levels[e[2]][1].peers[e[1]].degree <= Degrees(e)[i]
                           /\ levels[e[2]][1].peers[e[1]].degree <= NumPeers(levels[e[1]][1])
    BY DEF DegreesInOrder
  <2>1. Told[e] = Degrees(e) /\ e[1] \in Addr /\ e[2] \in Addr
    BY EdgeEnds DEF Told
  <2>2. LevelZeroProofs!Degree(e[1]) = NumPeers(levels[e[1]][1])
    <3>1. \A S : LevelZeroProofs!Cardinality(S) = Cardinality(S)
      BY DEF LevelZeroProofs!Cardinality, Cardinality
    <3> QED
      BY <2>1, <3>1, DegreeOfLevelZero DEF LevelZeroProofs!Degree, Known
  <2>3. /\ DOMAIN Known[e[2]] = DOMAIN levels[e[2]][1].peers
        /\ \A p \in DOMAIN levels[e[2]][1].peers : Known[e[2]][p] = levels[e[2]][1].peers[p].degree
    BY <2>1 DEF Known, Degree, PeersOf
  <2> QED
    BY <2>1, <2>2, <2>3 DEF LevelZeroProofs!InOrder
<1> QED
  BY <1>2, <1>5, <1>6, Invariance, LevelZeroHolds, PTL
=============================================================================
