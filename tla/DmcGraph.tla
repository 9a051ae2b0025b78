------------------------------- MODULE DmcGraph -------------------------------
(***************************************************************************)
(* The two loops of dmc.cc that draw the graph of nodes: the first connects *)
(* every node to one that is connected already, the second adds edges until *)
(* there are branchFactor edge ends per node on average.                   *)
(***************************************************************************)
EXTENDS Integers, FiniteSets

CONSTANTS
  NumNodes, BranchFactors,   \* the values that the two parameters may have
  UInt                       \* the number of values of a uint32_t

ASSUME ParameterAssumption ==
  /\ UInt \in Nat \ {0}
  /\ NumNodes \subseteq 1..(UInt - 1) /\ BranchFactors \subseteq Nat

VARIABLES
  num_nodes, branch_factor,   \* the parameters of this run
  i,                          \* the loop variable: nodes below i are connected
  cxns,                       \* the pairs <<a, b>> for which cxns[a][b] is true
  total_edges

vars == <<num_nodes, branch_factor, i, cxns, total_edges>>

Nodes == 0..(num_nodes - 1)

Init ==
  /\ num_nodes \in NumNodes
  /\ branch_factor \in BranchFactors
  /\ i = 1
  /\ cxns = {}
  /\ total_edges = 0

Connect(a, b) ==
  /\ cxns' = cxns \cup {<<a, b>>, <<b, a>>}
  /\ total_edges' = total_edges + 1
  /\ UNCHANGED <<num_nodes, branch_factor>>

\* Faulty variant of ConnectNode: the node itself may be drawn.
ConnectNodeToAny(j) == i < num_nodes /\ j \in 0..i /\ Connect(i, j) /\ i' = i + 1

\* One iteration of the first loop: j is rand() % i.
ConnectNode(j) == i < num_nodes /\ j \in 0..(i - 1) /\ Connect(i, j) /\ i' = i + 1

\* Faulty variant of Target: it may be more than there are pairs.
TargetUnclamped == ((num_nodes * branch_factor) % UInt) \div 2

\* target_edges.
Target ==
  LET target == ((num_nodes * branch_factor) % UInt) \div 2
      max == ((num_nodes * (num_nodes - 1)) % UInt) \div 2
  IN  IF target > max THEN max ELSE target

\* Faulty variants of AddEdge: one edge too many; one direction only.
AddEdgeTooMany(a, b) ==
  /\ i >= num_nodes /\ total_edges <= Target
  /\ a # b /\ <<a, b>> \notin cxns
  /\ Connect(a, b) /\ UNCHANGED i
AddEdgeOneWay(a, b) ==
  /\ i >= num_nodes /\ total_edges < Target
  /\ a # b /\ <<a, b>> \notin cxns
  /\ cxns' = cxns \cup {<<a, b>>}
  /\ total_edges' = total_edges + 1
  /\ UNCHANGED <<num_nodes, branch_factor, i>>

\* An iteration of the second loop that draws an edge; one that draws no edge,
\* or one that is there already, changes nothing.
AddEdge(a, b) ==
  /\ i >= num_nodes /\ total_edges < Target
  /\ a # b /\ <<a, b>> \notin cxns
  /\ Connect(a, b) /\ UNCHANGED i

Extend == \E a, b \in Nodes : AddEdge(a, b)

Next == (\E j \in Nodes : ConnectNode(j)) \/ Extend

\* rand() does not avoid the missing edges forever.
Spec == Init /\ [][Next]_vars /\ WF_vars(Next)

\* Both loops have ended.
Drawn == i >= num_nodes /\ total_edges >= Target

-----------------------------------------------------------------------------
(* Properties. *)

\* Types, and the count of edges.
TypeOK ==
  /\ num_nodes \in NumNodes /\ branch_factor \in BranchFactors
  /\ i \in 1..num_nodes
  /\ cxns \subseteq Nodes \X Nodes
  /\ total_edges \in Nat /\ Cardinality(cxns) = 2 * total_edges

\* What the protocol relies on: a link works both ways and joins two nodes.
Links == \A c \in cxns : c[1] # c[2] /\ <<c[2], c[1]>> \in cxns

\* No set of nodes is cut off from the others.
NoCut(N) ==
  \A S \in SUBSET N : S # {} /\ S # N => \E a \in S, b \in N \ S : <<a, b>> \in cxns

\* "make sure we have a connected graph" (dmc.cc:68), whatever is drawn.
Connected == i >= num_nodes => NoCut(Nodes)

\* Once there are two nodes, each has a peer: UdpGossip::Send never divides by
\* m_num_peers = 0 (udp-gossip.cc:302).
EachHasPeer ==
  i >= num_nodes /\ num_nodes > 1 => \A a \in Nodes : \E b \in Nodes : <<a, b>> \in cxns

\* "approximate num connections per node" (dmc.cc:42): the edges of the spanning
\* tree or those the parameter asks for, as far as there are pairs of nodes and
\* the products of lines 79 and 80 fit into a uint32_t.
BranchFactorMet ==
  Drawn /\ num_nodes * branch_factor < UInt /\ num_nodes * (num_nodes - 1) < UInt =>
    LET asked == (num_nodes * branch_factor) \div 2
        pairs == (num_nodes * (num_nodes - 1)) \div 2
    IN  total_edges = IF asked < num_nodes - 1 THEN num_nodes - 1
                      ELSE IF asked > pairs THEN pairs ELSE asked

\* The second loop ends: it is never left to draw an edge where none is missing.
GetsDrawn == <>Drawn
=============================================================================
