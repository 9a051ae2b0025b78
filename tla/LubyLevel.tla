------------------------------ MODULE LubyLevel ------------------------------
(***************************************************************************)
(* One level of a node's protocol state: class LubyLevel and the vector    *)
(* m_levels that holds the levels of a node (luby-mis.h, luby-mis.cc).     *)
(*                                                                         *)
(* A level says which node represents the group this node belongs to (rep, *)
(* the next hop and the distance to it, and the value it advertises) and   *)
(* which other groups are its peers (a map from the address of each peer   *)
(* group's representative to a LubyPeer).                                  *)
(*                                                                         *)
(* Addresses are Ipv4Address::Get() words: integers, compared with <, with *)
(* 0 for "no representative" and "no next hop".  A vector of levels is a   *)
(* sequence; level n of the code is element n + 1 (operator At).           *)
(***************************************************************************)
EXTENDS Integers, Sequences, FiniteSets, Functions

CONSTANT Addr    \* the addresses m_myaddr of the nodes

ASSUME AddrAssumption == Addr \subseteq Nat \ {0} /\ IsFiniteSet(Addr)

None == 0

LubyPeer == [degree : Nat, value : Int, next_hop : Addr, dist : Nat]

\* A level whose std::map<uint32_t, LubyPeer*> has the keys D.
Level(D) == [level : Nat, rep : Addr \cup {None}, rep_next_hop : Addr \cup {None},
             rep_dist : Nat, rep_value : Int, peers : [D -> LubyPeer]]

IsLevel(lev) == \E D \in SUBSET Addr : lev \in Level(D)

\* A non-empty vector whose level n says that it is level n.
IsLevels(L) ==
  /\ Len(L) \in Nat \ {0} /\ L = [i \in 1..Len(L) |-> L[i]]
  /\ \A i \in 1..Len(L) : IsLevel(L[i]) /\ L[i].level = i - 1

NoPeers == [p \in {} |-> None]

\* LubyLevel::LubyLevel(), with the level number its creator assigns.
NewLevel(n) == [level |-> n, rep |-> None, rep_next_hop |-> None,
                rep_dist |-> 0, rep_value |-> 0, peers |-> NoPeers]

At(L, n) == L[n + 1]
Top(L) == L[Len(L)]
PeersOf(lev) == DOMAIN lev.peers
NumPeers(lev) == Cardinality(DOMAIN lev.peers)

pow2[k \in Nat] == IF k = 0 THEN 1 ELSE 2 * pow2[k - 1]

\* In unbounded integers: the code's uint32_t overflows from level 32 on.
MaxPeerDistance(lev) == IF lev.level = 0 THEN 1 ELSE 3 * pow2[lev.level - 1]

\* LubyMIS::SetMaxLevel: drop every level above n.
SetMaxLevel(L, n) == IF Len(L) <= n + 1 THEN L ELSE SubSeq(L, 1, n + 1)

\* SetMaxLevel(n) together with a change of level n's peers or representative.
WithPeers(L, n, peers) == [L EXCEPT ![n + 1].peers = peers]

\* Faulty variant of RemovePeers: the levels above stay.
RemovePeersQuietly(L, n, gone) ==
  WithPeers(L, n, Restrict(At(L, n).peers, PeersOf(At(L, n)) \ gone))

RemovePeers(L, n, gone) ==
  IF gone = {} THEN L
  ELSE WithPeers(SetMaxLevel(L, n), n, Restrict(At(L, n).peers, PeersOf(At(L, n)) \ gone))

\* Faulty variant of Unelect: the peers stay.
UnelectKeepingPeers(L, n) ==
  [SetMaxLevel(L, n) EXCEPT ![n + 1] =
     [@ EXCEPT !.rep = None, !.rep_next_hop = None, !.rep_dist = 0]]

\* Clear level n's representative and peers.  rep_value is left as it was.
Unelect(L, n) ==
  [SetMaxLevel(L, n) EXCEPT ![n + 1] =
     [@ EXCEPT !.rep = None, !.rep_next_hop = None, !.rep_dist = 0, !.peers = NoPeers]]

\* What LubyLevel::MarshalFrom rebuilds from the bytes LubyLevel::MarshalTo
\* wrote: everything but rep_next_hop, which is not on the wire.
OnWire(lev) == [lev EXCEPT !.rep_next_hop = None]
=============================================================================
