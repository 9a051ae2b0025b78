---------------------------- MODULE MCLubyGossip ----------------------------
(* Small networks on which LubyGossip is checked, and values for its nodes. *)
EXTENDS LubyGossip

BothWays(E) == E \cup {<<e[2], e[1]>> : e \in E}

Pair == BothWays({<<1, 2>>})
Line == BothWays({<<1, 2>>, <<2, 3>>})
Chain == BothWays({<<1, 2>>, <<2, 3>>, <<3, 4>>})

Zero == [a \in Addr |-> 0]

\* Multiples of 8, so that the medians of medians are exact.
Values == [a \in Addr |-> 8 * a]

(* A later start, for the larger networks: every node has heard its          *)
(* neighbours, knows their degrees and has just started level 1.  It is the  *)
(* state after each node has sent to each of its neighbours twice and nobody *)
(* was lucky in TryToBecomeRep, so that every behaviour from here is the end *)
(* of one from Init.                                                         *)

Neighbours(a) == {b \in Addr : <<a, b>> \in Edge}

NeighboursKnown(a) ==
  << [Started(a, Value[a])[1] EXCEPT !.peers =
        [b \in Neighbours(a) |-> [degree |-> Cardinality(Neighbours(b)), value |-> Value[b],
                                  next_hop |-> b, dist |-> 1]]],
     NewLevel(1) >>

LaterInit ==
  /\ levels = [a \in Addr |-> NeighboursKnown(a)]
  /\ link = [e \in Edge |-> <<>>]

LaterSpec == LaterInit /\ [][Next]_vars
=============================================================================
