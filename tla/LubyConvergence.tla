---------------------------- MODULE LubyConvergence ----------------------------
(***************************************************************************)
(* What a network of LubyMIS nodes comes to if it runs for long enough.    *)
(***************************************************************************)
EXTENDS LubyGossip

-----------------------------------------------------------------------------
(* Fairness.  It is stated of what Send and HandleRead do to the links: the *)
(* rest of a handler follows from the packet, but for the roll of the dice. *)

Push(e) ==
  /\ SumFunction([d \in Edge |-> Len(link[d])]) < MaxInFlight
  /\ link' = [link EXCEPT ![e] = Append(@, Packet(levels[e[1]]))]

Pop(e) == link[e] # <<>> /\ link' = [link EXCEPT ![e] = Tail(@)]

\* With a low roll, the node that is to read from e would elect itself.
RollCounts(e) ==
  link[e] # <<>> /\ CanBecomeRep(e[2], Received(e[2], levels[e[2]], Head(link[e]), FALSE))

RollsLow(e) == RollCounts(e) /\ Pop(e) /\ Top(levels'[e[2]]).rep = e[2]

\* The timer of a node fires again and again and rand() picks every peer again
\* and again; a packet arrives; and nobody rolls for ever without a low roll.
Fairness ==
  \A e \in Edge :
    /\ SF_link(Push(e))
    /\ WF_link(Pop(e))
    /\ []<>RollCounts(e) => []<><<RollsLow(e)>>_link

FairSpec == Spec /\ Fairness

-----------------------------------------------------------------------------
(* Properties. *)

\* The level-1 representative of node a, or None.
Rep1(a) == IF Len(levels[a]) > 1 THEN At(levels[a], 1).rep ELSE None

\* The level-1 representatives are a maximal independent set of the network:
\* no two are neighbours, and every other node is represented by a neighbour
\* that takes itself for a representative.
MaximalIndependentSet ==
  /\ \A a \in Addr : Rep1(a) = a \/ <<a, Rep1(a)>> \in Edge
  /\ \A a \in Addr : Rep1(Rep1(a)) = Rep1(a)
  /\ \A e \in Edge : ~(Rep1(e[1]) = e[1] /\ Rep1(e[2]) = e[2])

\* All nodes belong to one group at their highest level, which has no peers.
OneGroup ==
  /\ \A a, b \in Addr : Len(levels[a]) = Len(levels[b]) /\ Top(levels[a]).rep = Top(levels[b]).rep
  /\ \A a \in Addr : Top(levels[a]).rep # None /\ PeersOf(Top(levels[a])) = {}

\* The restarts that degrees, withdrawals and better representatives cause come
\* to an end (luby-mis.cc:307, 573, 698, 776), and leave what the name of the
\* protocol promises at level 1.
Elects == <>[]MaximalIndependentSet

\* The levels grow until one group holds the whole network: no node stays on a
\* level that the others have left, or in a group that is not there any more.
Agrees == <>[]OneGroup

\* The route to the representative of level n, from node to node.
RouteLeads(a, n) ==
  LET rep == At(levels[a], n).rep
      next(b) == IF n < Len(levels[b]) THEN At(levels[b], n).rep_next_hop ELSE None
      hop[k \in 0..Cardinality(Addr)] ==
        IF k = 0 THEN a ELSE IF hop[k - 1] = None THEN None ELSE next(hop[k - 1])
  IN  \E k \in 0..Cardinality(Addr) : hop[k] = rep

\* "this is a valid route" (luby-mis.cc:636): in the end the routes lead to the
\* representatives, whose values are handed on along them (luby-mis.cc:801).
RoutesLead == <>[](\A a \in Addr : \A n \in 1..(Len(levels[a]) - 1) : RouteLeads(a, n))
=============================================================================
