---------------------------- MODULE MCUdpGossip ----------------------------
(* Small networks on which the life of UdpGossip is checked, with data that  *)
(* is a node's address and does not change.                                  *)
EXTENDS UdpGossip

BothWays(E) == E \cup {<<e[2], e[1]>> : e \in E}

None == {}
Pair == BothWays({<<1, 2>>})
Line == BothWays({<<1, 2>>, <<2, 3>>})

NoAddress(a) == 0
Address(data, a) == a
SameData(data) == data
NothingNew(data, packet) == {data}
=============================================================================
