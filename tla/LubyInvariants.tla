---------------------------- MODULE LubyInvariants ----------------------------
(***************************************************************************)
(* What a vector of levels has to satisfy, whether it is the m_levels of   *)
(* the node me or a copy of it in a packet.  LubyGossip states these       *)
(* conditions for every node, where they are explained, and                *)
(* LubyMIS_proofs shows that the handler of a packet keeps them.           *)
(***************************************************************************)
EXTENDS LubyMIS

LadderOf(L) == \A i \in 1..(Len(L) - 1) : L[i].rep # None /\ PeersOf(L[i]) # {}

NoRepNoPeersOf(L) ==
  \A i \in 1..Len(L) : L[i].rep = None => PeersOf(L[i]) = {} /\ L[i].rep_next_hop = None

RepIsCandidateOf(L) ==
  \A n \in 1..(Len(L) - 1) : At(L, n).rep # None => IsCandidate(L, n, At(L, n).rep)

OwnGroupIsNoPeerOf(me, L) == \A i \in 1..Len(L) : PeersOf(L[i]) \cap {me, L[i].rep} = {}

PeerWithinReachOf(L) ==
  \A i \in 1..Len(L) : \A p \in PeersOf(L[i]) :
     L[i].peers[p].dist \in 1..MaxPeerDistance(L[i])

NextHopIsNeighbourOf(me, L) ==
  \A i \in 1..Len(L) :
    /\ L[i].rep_next_hop \in PeersOf(L[1]) \cup {None, me}
    /\ \A p \in PeersOf(L[i]) : L[i].peers[p].next_hop \in PeersOf(L[1])

\* The part of them that needs no other to hold.
WellFormed(me, L) ==
  /\ IsLevels(L)
  /\ L[1].rep = me
  /\ LadderOf(L)
  /\ NoRepNoPeersOf(L)
  /\ RepIsCandidateOf(L)
  /\ OwnGroupIsNoPeerOf(me, L)
  /\ PeerWithinReachOf(L)

\* Every value that a vector of levels holds is one of V.
ValuesIn(V, L) ==
  \A i \in 1..Len(L) :
    L[i].rep_value \in V /\ \A p \in PeersOf(L[i]) : L[i].peers[p].value \in V

\* The degrees of the peers of a level.
Degree(lev) == [p \in PeersOf(lev) |-> lev.peers[p].degree]

\* Level n has nothing from before the packet M from s: it has no peers, and no
\* representative, or me on the value that a new level has, or the one M tells.
JustStarted(me, s, M, n, lev) ==
  /\ PeersOf(lev) = {}
  /\ \/ lev.rep \in {None, me} /\ lev.rep_value = 0
     \/ n < Len(M) /\ lev.rep = At(M, n).rep /\ lev.rep_next_hop = s

\* Levels L became K with the packet M from s: a level of another representative
\* or with other degrees has nothing above it but a level just started.
RestartedAbove(me, L, K, s, M) ==
  \A i \in 1..Len(L) :
    /\ i <= Len(K)
    /\ L[i].rep # K[i].rep \/ Degree(L[i]) # Degree(K[i])
    => Len(K) <= i + 1 /\ (Len(K) = i + 1 => JustStarted(me, s, M, i, K[i + 1]))

\* UpdatePeerValues reads no null LubyPeer* at level n.
ReadsNoNull(L, s, M, n) == ReadFromSendersPeers(L, s, M, n) \subseteq PeersOf(At(M, n))
=============================================================================
