------------------------------- MODULE LubyWire -------------------------------
(***************************************************************************)
(* The bytes of a packet: what MarshalTo writes into the buffer that Send  *)
(* allocates and what MarshalFrom reads back from it.  The buffer is       *)
(* counted in words of four bytes; a uint32_t is one, a double is two.     *)
(* LubyGossip, whose packets are records, relies on what is shown here.    *)
(***************************************************************************)
EXTENDS LubyGossip

\* memcpy of a double writes its two halves, which make a double again.
Low(v) == <<v, "low">>
High(v) == <<v, "high">>
FromDouble(low, high) == IF low[2] = "low" /\ high = High(low[1]) THEN low[1] ELSE -1

\* What a loop leaves that starts after the words of start and writes those of
\* one part after the other.
Written(start, parts) ==
  LET dst[n \in 0..Len(parts)] == IF n = 0 THEN start ELSE dst[n - 1] \o parts[n]
  IN  dst[Len(parts)]

-----------------------------------------------------------------------------
(* LubyLevel *)

LevelSize(lev) == 6 + 6 * NumPeers(lev)

\* Faulty variant of PeerWords: the last two fields are exchanged.
PeerWordsExchanged(p, peer) ==
  <<p, peer.degree, Low(peer.value), High(peer.value), peer.next_hop, peer.dist>>

PeerWords(p, peer) ==
  <<p, peer.degree, Low(peer.value), High(peer.value), peer.dist, peer.next_hop>>

\* The map is written in the order of its keys.
LevelWords(lev) ==
  LET key == Ascending(PeersOf(lev))
  IN  Written(<<lev.level, lev.rep, lev.rep_dist, Low(lev.rep_value), High(lev.rep_value),
                NumPeers(lev)>>,
              [k \in 1..NumPeers(lev) |-> PeerWords(key[k], lev.peers[key[k]])])

\* LubyLevel::MarshalFrom at offset src.
LevelRead(buf, src) ==
  LET num_peers == buf[src + 6]
      at(i) == src + 6 * i
      peer(i) == [degree |-> buf[at(i) + 2], value |-> FromDouble(buf[at(i) + 3], buf[at(i) + 4]),
                  dist |-> buf[at(i) + 5], next_hop |-> buf[at(i) + 6]]
  IN  [level |-> buf[src + 1], rep |-> buf[src + 2], rep_next_hop |-> None,
       rep_dist |-> buf[src + 3], rep_value |-> FromDouble(buf[src + 4], buf[src + 5]),
       peers |-> [p \in {buf[at(i) + 1] : i \in 1..num_peers} |->
                    peer(CHOOSE i \in 1..num_peers : buf[at(i) + 1] = p)]]

-----------------------------------------------------------------------------
(* LubyMIS *)

\* Faulty variant of GetMarshalledSize: the two words before the levels are
\* not counted.
LevelSizes(L) ==
  LET total[n \in 0..Len(L)] == IF n = 0 THEN 0 ELSE total[n - 1] + LevelSize(L[n])
  IN  total[Len(L)]

GetMarshalledSize(L) ==
  LET total[n \in 0..Len(L)] == IF n = 0 THEN 2 ELSE total[n - 1] + LevelSize(L[n])
  IN  total[Len(L)]

MarshalTo(L) ==
  Written(<<At(L, 0).rep, Len(L)>>, [n \in 1..Len(L) |-> LevelWords(L[n])])

\* The offset of a level is known once the level before it has been read.
MarshalFrom(buf) ==
  LET num_levels == buf[2]
      src[i \in 1..num_levels] ==
        IF i = 1 THEN 2 ELSE src[i - 1] + LevelSize(LevelRead(buf, src[i - 1]))
  IN  [sender |-> buf[1], levels |-> [i \in 1..num_levels |-> LevelRead(buf, src[i])]]

-----------------------------------------------------------------------------
(* Properties. *)

\* The buffer is as long as what is written into it: MarshalTo writes neither
\* past the end of the array that Send allocates (udp-gossip.cc:290-292) nor
\* leaves a part of it uninitialized.
BufferFits == \A a \in Addr : Len(MarshalTo(levels[a])) = GetMarshalledSize(levels[a])

\* Whatever the levels, the receiver reads what the sender had but for
\* rep_next_hop, although the two sides agree on the layout only by keeping
\* five copies of it alike (luby-mis.cc:55, 66, 97, 156, 261).
ReadsBack == \A a \in Addr : MarshalFrom(MarshalTo(levels[a])) = Packet(levels[a])
=============================================================================
