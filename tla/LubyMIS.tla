------------------------------- MODULE LubyMIS -------------------------------
(***************************************************************************)
(* The protocol of class LubyMIS (luby-mis.cc) as functions of a node's    *)
(* levels: what MarshalFrom, the handler of a received packet, makes of    *)
(* them.  In every operator                                                *)
(*    me  is m_myaddr,                                                     *)
(*    L   the node's vector m_levels,                                      *)
(*    s   the sender of the packet,                                        *)
(*    M   the vector msg_levels unmarshalled from it,                      *)
(*    n   a level number, 0-based as in the code.                          *)
(* Each helper of the handler is an operator that returns the new vector,  *)
(* and Received applies them in the order of the handler.                  *)
(***************************************************************************)
EXTENDS LubyLevel, Median

-----------------------------------------------------------------------------
(* ProcessTopologyChanges *)

\* Faulty variant of NeighbourHeard: a change of degree restarts nothing.
NeighbourHeardQuietly(L, s, M) ==
  LET mine == At(L, 0).peers
      entry == [degree |-> NumPeers(At(M, 0)), value |-> 0, next_hop |-> s, dist |-> 1]
  IN  IF s \notin DOMAIN mine
      THEN WithPeers(SetMaxLevel(L, 0), 0,
                     [p \in DOMAIN mine \cup {s} |-> IF p = s THEN entry ELSE mine[p]])
      ELSE WithPeers(L, 0, [mine EXCEPT ![s].degree = entry.degree])

\* Faulty variant of NeighbourHeard: a neighbour's degree is taken only once.
NeighbourHeardOnce(L, s, M) ==
  LET mine == At(L, 0).peers
      entry == [degree |-> NumPeers(At(M, 0)), value |-> 0, next_hop |-> s, dist |-> 1]
  IN  IF s \in DOMAIN mine THEN L
      ELSE WithPeers(SetMaxLevel(L, 0), 0,
                     [p \in DOMAIN mine \cup {s} |-> IF p = s THEN entry ELSE mine[p]])

\* Faulty variant of NeighbourHeard: every packet restarts the levels.
NeighbourHeardAnew(L, s, M) ==
  LET mine == At(L, 0).peers
      entry == [degree |-> NumPeers(At(M, 0)), value |-> 0, next_hop |-> s, dist |-> 1]
  IN  WithPeers(SetMaxLevel(L, 0), 0,
                [p \in DOMAIN mine \cup {s} |-> IF p = s THEN entry ELSE mine[p]])

\* Level 0: the sender is a direct neighbour.
NeighbourHeard(L, s, M) ==
  LET mine == At(L, 0).peers
      degree == NumPeers(At(M, 0))
      entry == [degree |-> degree, value |-> 0, next_hop |-> s, dist |-> 1]
  IN  IF s \notin DOMAIN mine
      THEN WithPeers(SetMaxLevel(L, 0), 0,
                     [p \in DOMAIN mine \cup {s} |-> IF p = s THEN entry ELSE mine[p]])
      ELSE IF mine[s].degree # degree
      THEN WithPeers(SetMaxLevel(L, 0), 0, [mine EXCEPT ![s].degree = degree])
      ELSE L

\* Peers of level n that were learned through the sender.
Via(L, n, s) == {p \in PeersOf(At(L, n)) : At(L, n).peers[p].next_hop = s}

\* Faulty variant of Merged: the levels above stay.
MergedQuietly(L, n, peers, changed) == WithPeers(L, n, peers)

\* SetMaxLevel(n) when something an election of level n + 1 depends on changes.
Merged(L, n, peers, changed) == WithPeers(IF changed THEN SetMaxLevel(L, n) ELSE L, n, peers)

\* The sender, of my own level-n group, cannot be a peer, and a route through
\* it ends when it no longer has the peer, when it was not in my group when I
\* learned the route, and when the route has become too long.  (The split
\* horizon test of the code compares the next hop of my own route with me.)
RouteLost(me, lev, his, s, p) ==
  \/ p = s
  \/ /\ lev.peers[p].next_hop = s
     /\ \/ p \notin DOMAIN his
        \/ lev.peers[p].next_hop = me
        \/ lev.peers[p].dist = 1
        \/ his[p].dist + 1 > MaxPeerDistance(lev)

\* Faulty variant of RouteUpdated: the sender's shorter route is not taken.
RouteLengthened(peer, his, s, p) ==
  [peer EXCEPT !.degree = IF peer.next_hop = s THEN his[p].degree ELSE @,
               !.dist = IF peer.next_hop = s THEN @ + 1 ELSE @]

\* A route that stays: one through the sender takes the sender's degree and
\* grows by one; then the sender's route is taken if it is shorter.
RouteUpdated(peer, his, s, p) ==
  LET via == peer.next_hop = s
      dist == IF via THEN peer.dist + 1 ELSE peer.dist
      shorter == p \in DOMAIN his /\ his[p].dist + 1 < dist
  IN  [peer EXCEPT !.degree = IF via \/ shorter THEN his[p].degree ELSE @,
                   !.next_hop = IF shorter THEN s ELSE @,
                   !.dist = IF shorter THEN his[p].dist + 1 ELSE dist]

\* A peer of the sender that I may take over: not me, not learned from me, and
\* not too far.
Learnable(me, lev, p) ==
  /\ p # me
  /\ lev.peers[p].next_hop # me
  /\ lev.peers[p].dist + 1 <= MaxPeerDistance(lev)

\* The sender is in my level-n group: our peers are merged.
GroupMemberHeard(me, L, s, M, n) ==
  LET mine == At(L, n).peers
      his == At(M, n).peers
      kept == {p \in DOMAIN mine : ~RouteLost(me, At(L, n), his, s, p)}
      new == {p \in DOMAIN his \ kept : Learnable(me, At(M, n), p)}
      updated(p) == RouteUpdated(mine[p], his, s, p)
      learned(p) == [degree |-> his[p].degree, value |-> 0,
                     next_hop |-> s, dist |-> his[p].dist + 1]
  IN  Merged(L, n, [p \in kept \cup new |-> IF p \in kept THEN updated(p) ELSE learned(p)],
             \/ kept # DOMAIN mine
             \/ new # {}
             \/ \E p \in kept : updated(p).degree # mine[p].degree)

\* Faulty variant of NewPeerGroup: I may become my own peer.
NewPeerGroupOrMe(me, r, known) == {r} \ known

\* A group not yet known as a peer, unless I represent it.
NewPeerGroup(me, r, known) == {r} \ (known \cup {me})

\* The sender is in another level-n group, the group of representative r.
PeerGroupHeard(me, L, s, M, n) ==
  LET mine == At(L, n).peers
      r == At(M, n).rep
      degree == NumPeers(At(M, n))
      lost(p) == \/ p = r /\ mine[p].dist > 1
                 \/ mine[p].next_hop = s /\ p # r
                 \/ mine[p].next_hop = s /\ mine[p].degree # degree /\ degree = 0
      kept == {p \in DOMAIN mine : ~lost(p)}
      new == NewPeerGroup(me, r, kept)
      changedDegree(p) == p = r /\ mine[p].next_hop = s /\ mine[p].degree # degree
      updated(p) == [mine[p] EXCEPT !.degree = IF changedDegree(p) THEN degree ELSE @,
                                    !.dist = IF p = r THEN 1 ELSE @]
      learned == [degree |-> degree, value |-> 0, next_hop |-> s, dist |-> 1]
  IN  Merged(L, n, [p \in kept \cup new |-> IF p \in kept THEN updated(p) ELSE learned],
             kept # DOMAIN mine \/ new # {} \/ \E p \in kept : changedDegree(p))

\* The checks that end ProcessTopologyChanges.
DropUnsupportedLevels(me, L, n) ==
  LET L1 == IF PeersOf(At(L, n)) = {} /\ Len(L) - 1 > n THEN SetMaxLevel(L, n) ELSE L
  IN  IF At(L1, n).rep = me /\ PeersOf(At(L1, n - 1)) = {}
      THEN SetMaxLevel(L1, n - 1)
      ELSE L1

ProcessTopologyChanges(me, L, s, M, n) ==
  IF n = 0 THEN NeighbourHeard(L, s, M)
  ELSE IF At(L, n).rep = None THEN L
  ELSE IF At(M, n).rep = None THEN RemovePeers(L, n, Via(L, n, s))
  ELSE DropUnsupportedLevels(me,
         IF At(L, n).rep = At(M, n).rep
         THEN GroupMemberHeard(me, L, s, M, n)
         ELSE PeerGroupHeard(me, L, s, M, n), n)

-----------------------------------------------------------------------------
\* Faulty variant of TryToStartNewLevel: the level is counted after push_back.
TryToStartNewLevelOneUp(L) ==
  IF Top(L).rep # None /\ PeersOf(Top(L)) # {}
  THEN Append(L, NewLevel(Len(L) + 1))
  ELSE L

TryToStartNewLevel(L) ==
  IF Top(L).rep # None /\ PeersOf(Top(L)) # {}
  THEN Append(L, NewLevel(Top(L).level + 1))
  ELSE L

-----------------------------------------------------------------------------
(* HandleRepElection *)

\* My level-n representative has to be my level n-1 representative or one of
\* my level n-1 peers.
IsCandidate(L, n, r) == r = At(L, n - 1).rep \/ r \in PeersOf(At(L, n - 1))

\* My level-n representative can no longer be justified.
RepVacated(L, s, M, n) ==
  \/ At(L, n).rep # None /\ ~IsCandidate(L, n, At(L, n).rep)
  \/ At(L, n).rep_next_hop = s /\ At(L, n).rep # At(M, n).rep

\* Higher degree wins, then lower address.
Beats(d1, a1, d2, a2) == d1 > d2 \/ (d1 = d2 /\ a1 < a2)

\* Would I rather have the sender's level-n representative than mine?
IsPreferable(L, M, n) ==
  LET group == At(L, n - 1)
      degree(p) == group.peers[p].degree
      old == At(L, n).rep
      new == At(M, n).rep
      otherGroup == group.rep # At(M, n - 1).rep /\ new \in PeersOf(group)
  IN  \/ old = None
      \/ /\ old \in PeersOf(group)
         /\ new = group.rep
         /\ Beats(NumPeers(group), new, degree(old), old)
      \/ /\ otherGroup
         /\ old = group.rep
         /\ Beats(degree(new), new, NumPeers(group), old)
      \/ /\ otherGroup
         /\ old # group.rep
         /\ Beats(degree(new), new, degree(old), old)

\* Faulty variants of AdoptRep: the peers of the old group stay; the route
\* starts at the representative and not at the sender.
AdoptRepKeepingPeers(L, s, M, n) ==
  [SetMaxLevel(L, n) EXCEPT ![n + 1] =
     [@ EXCEPT !.rep = At(M, n).rep, !.rep_next_hop = s,
               !.rep_dist = At(M, n).rep_dist + 1]]
AdoptRepDirectly(L, s, M, n) ==
  [SetMaxLevel(L, n) EXCEPT ![n + 1] =
     [@ EXCEPT !.rep = At(M, n).rep, !.rep_next_hop = At(M, n).rep,
               !.rep_dist = At(M, n).rep_dist + 1, !.peers = NoPeers]]

AdoptRep(L, s, M, n) ==
  [SetMaxLevel(L, n) EXCEPT ![n + 1] =
     [@ EXCEPT !.rep = At(M, n).rep, !.rep_next_hop = s,
               !.rep_dist = At(M, n).rep_dist + 1, !.peers = NoPeers]]

\* Faulty variant of ConsiderSendersRep: any representative will do.
ConsiderAnyRep(L, s, M, n) ==
  LET new == At(M, n).rep
  IN  IF new = None
      THEN IF At(L, n).rep_next_hop = s THEN Unelect(L, n) ELSE L
      ELSE IF new # At(L, n).rep /\ IsPreferable(L, M, n) THEN AdoptRep(L, s, M, n) ELSE L

ConsiderSendersRep(L, s, M, n) ==
  LET new == At(M, n).rep
  IN  IF new = None
      THEN IF At(L, n).rep_next_hop = s THEN Unelect(L, n) ELSE L
      ELSE IF IsCandidate(L, n, new) /\ new # At(L, n).rep /\ IsPreferable(L, M, n)
      THEN AdoptRep(L, s, M, n)
      ELSE L

ShortenRepRoute(L, s, M, n) ==
  IF /\ At(L, n).rep # None
     /\ At(L, n).rep = At(M, n).rep
     /\ At(M, n).rep_dist + 1 < At(L, n).rep_dist
  THEN [L EXCEPT ![n + 1] = [@ EXCEPT !.rep_next_hop = s, !.rep_dist = At(M, n).rep_dist + 1]]
  ELSE L

HandleRepElection(L, s, M, n) ==
  IF n = 0 THEN L
  ELSE LET L1 == IF RepVacated(L, s, M, n) THEN Unelect(L, n) ELSE L
           L2 == IF At(L1, n).rep = s /\ At(M, n).rep # s THEN Unelect(L1, n) ELSE L1
       IN  ShortenRepRoute(ConsiderSendersRep(L2, s, M, n), s, M, n)

-----------------------------------------------------------------------------
(* The loop of MarshalFrom over the levels both sides have. *)

LevelReceived(me, L, s, M, n) ==
  IF n >= Len(L) THEN L
  ELSE LET L1 == TryToStartNewLevel(ProcessTopologyChanges(me, L, s, M, n))
       IN  IF n < Len(L1) THEN HandleRepElection(L1, s, M, n) ELSE L1

LevelsReceived(me, L, s, M) ==
  LET after[k \in 0..Len(M)] ==
        IF k = 0 THEN L ELSE LevelReceived(me, after[k - 1], s, M, k - 1)
  IN  after[Len(M)]

-----------------------------------------------------------------------------
\* Levels the sender is not running: forget the representative or the peers
\* that were reached through it.  The first level that loses something is
\* also the last, because SetMaxLevel drops the levels above it.
TrimVacatedLeadersAndPeers(L, s, M) ==
  LET repLost(n) == At(L, n).rep # None /\ At(L, n).rep_next_hop = s
      hit == {n \in Len(M)..(Len(L) - 1) : repLost(n) \/ Via(L, n, s) # {}}
      first == CHOOSE n \in hit : \A i \in hit : n <= i
  IN  IF hit = {} THEN L
      ELSE IF repLost(first) THEN Unelect(L, first)
      ELSE RemovePeers(L, first, Via(L, first, s))

-----------------------------------------------------------------------------
(* Values. *)

\* The peers whose value UpdatePeerValues reads from the sender's peer map
\* with operator[], which yields a null LubyPeer* for a key that is not there.
ReadFromSendersPeers(L, s, M, n) ==
  IF At(L, n).rep = At(M, n).rep THEN Via(L, n, s) ELSE {}

UpdatedLevel(mine, his, s) ==
  LET group == mine.rep = his.rep
      value(p) == IF group THEN his.peers[p].value ELSE his.rep_value
  IN  [mine EXCEPT
         !.rep_value = IF group /\ mine.rep_next_hop = s THEN his.rep_value ELSE @,
         !.peers = [p \in DOMAIN @ |-> IF @[p].next_hop = s
                                       THEN [@[p] EXCEPT !.value = value(p)]
                                       ELSE @[p]]]

UpdatePeerValues(L, s, M) ==
  [i \in 1..Len(L) |-> IF i <= Len(M) THEN UpdatedLevel(L[i], M[i], s) ELSE L[i]]

\* The level n-1 value of my group and of its peer groups, indexed by address.
ValuesBelow(me, rep_value, lev) ==
  [p \in PeersOf(lev) \cup {me} |-> IF p = me THEN rep_value ELSE lev.peers[p].value]

RecalculateLevelValues(me, L) ==
  LET value[n \in 0..(Len(L) - 1)] ==
        IF n > 0 /\ At(L, n).rep = me
        THEN MedianOf(ValuesBelow(me, value[n - 1], At(L, n - 1)))
        ELSE At(L, n).rep_value
  IN  [i \in 1..Len(L) |-> [L[i] EXCEPT !.rep_value = value[i - 1]]]

-----------------------------------------------------------------------------
\* I am the representative of a level n-1 group that has peers, and nobody
\* represents my level-n group yet: a roll of the dice may elect me.
CanBecomeRep(me, L) ==
  /\ Top(L).rep = None
  /\ L[Top(L).level].rep = me
  /\ PeersOf(L[Top(L).level]) # {}

BecomeRep(me, L) ==
  [L EXCEPT ![Len(L)] = [@ EXCEPT !.rep = me, !.rep_next_hop = me, !.rep_dist = 0,
                                  !.peers = NoPeers]]

TryToBecomeRep(me, L, lucky) ==
  IF lucky /\ CanBecomeRep(me, L) THEN BecomeRep(me, L) ELSE L

-----------------------------------------------------------------------------
(* The node. *)

\* LubyMIS::LubyMIS() followed by SetMyIpv4Address.
Started(me, value) == << [NewLevel(0) EXCEPT !.rep = me, !.rep_value = value] >>

\* LubyMIS::MarshalTo: the packet, as MarshalFrom will unmarshal it.
Packet(L) == [sender |-> At(L, 0).rep, levels |-> [i \in 1..Len(L) |-> OnWire(L[i])]]

\* m_levels when MarshalFrom reaches UpdatePeerValues.
BeforeValues(me, L, s, M) == TrimVacatedLeadersAndPeers(LevelsReceived(me, L, s, M), s, M)

\* LubyMIS::MarshalFrom; lucky is the roll of TryToBecomeRep.
Received(me, L, packet, lucky) ==
  LET s == packet.sender
      M == packet.levels
  IN  TryToBecomeRep(me,
        RecalculateLevelValues(me,
          UpdatePeerValues(BeforeValues(me, L, s, M), s, M)), lucky)
=============================================================================
