--------------------------- MODULE DmcNetwork_proofs ---------------------------
(***************************************************************************)
(* Whatever rand() returns, dmc.cc draws a connected graph without loops    *)
(* and with as many edges as it counts, for every number of nodes; and the  *)
(* addresses it gives to the ends of the edges, and the peers that the      *)
(* nodes find from them, are those of the graph.                           *)
(***************************************************************************)
EXTENDS DmcNetwork, Numbers_proofs, FiniteSetTheorems, SequenceTheorems, TLAPS

\* The nodes that are connected already.
Tree == 0..(i - 1)

\* The edges of the tree are one fewer than its nodes; more are drawn only up
\* to the target.
Counted ==
  /\ total_edges \in Nat
  /\ total_edges = i - 1 \/ (i = num_nodes /\ i - 1 <= total_edges /\ total_edges <= Target)

IInv ==
  /\ TypeOK
  /\ cxns \subseteq Tree \X Tree
  /\ Links
  /\ NoCut(Tree)
  /\ Counted

\* The parameters are numbers, and there is a node.
LEMMA Parameters == TypeOK => num_nodes \in Nat \ {0} /\ branch_factor \in Nat /\ i \in Nat \ {0}
  BY ParameterAssumption DEF TypeOK

\* The nodes are all in the tree once the first loop has ended.
LEMMA TreeIsAll == ASSUME TypeOK, i >= num_nodes PROVE i = num_nodes /\ Tree = Nodes
<1>1. i = num_nodes
  BY Parameters DEF TypeOK
<1> QED
  BY <1>1 DEF Tree, Nodes

\* The number of edges aimed at is a number, also where the products wrap.
LEMMA TargetType == ASSUME TypeOK PROVE Target \in Int
<1> DEFINE asked == (num_nodes * branch_factor) % UInt
           pairs == (num_nodes * (num_nodes - 1)) % UInt
<1>1. num_nodes * branch_factor \in Nat /\ num_nodes * (num_nodes - 1) \in Nat
  BY Parameters
<1>2. asked \in Nat /\ pairs \in Nat
  BY <1>1, ParameterAssumption
<1> HIDE DEF asked, pairs
<1>3. asked \div 2 \in Int /\ pairs \div 2 \in Int
  BY <1>2
<1> QED
  BY <1>3 DEF Target, asked, pairs

\* Before the first loop only node 0 is in the tree.
LEMMA InitIInv == Init => IInv
<1> SUFFICES ASSUME Init PROVE IInv
  OBVIOUS
<1>1. num_nodes \in Nat \ {0} /\ i = 1 /\ Tree = {0}
  BY ParameterAssumption DEF Init, Tree
<1>2. TypeOK
  BY <1>1, FS_EmptySet DEF Init, TypeOK
<1>3. NoCut(Tree)
  BY <1>1 DEF NoCut
<1> QED
  BY <1>1, <1>2, <1>3 DEF Init, IInv, Links, Counted

\* A new edge between two nodes is two pairs.
LEMMA TwoMore ==
  ASSUME IsFiniteSet(cxns), NEW a, NEW b, a # b, <<a, b>> \notin cxns, <<b, a>> \notin cxns
  PROVE  Cardinality(cxns \cup {<<a, b>>, <<b, a>>}) = Cardinality(cxns) + 2
<1> DEFINE one == cxns \cup {<<a, b>>}
<1>1. IsFiniteSet(one) /\ Cardinality(one) = Cardinality(cxns) + 1
  BY FS_AddElement
<1>2. <<b, a>> \notin one
  OBVIOUS
<1>3. Cardinality(one \cup {<<b, a>>}) = Cardinality(one) + 1
  BY <1>1, <1>2, FS_AddElement
<1>4. one \cup {<<b, a>>} = cxns \cup {<<a, b>>, <<b, a>>}
  OBVIOUS
<1>5. Cardinality(cxns) \in Nat
  BY FS_CardinalityType
<1> QED
  BY <1>1, <1>3, <1>4, <1>5

\* An edge between two nodes of a set that were not connected keeps the graph's
\* type and its links.
LEMMA ConnectKeeps ==
  ASSUME IInv, NEW a \in Nodes, NEW b \in Nodes, a # b, <<a, b>> \notin cxns, Connect(a, b),
         i' \in 1..num_nodes
  PROVE  TypeOK' /\ Links'
<1>1. cxns' = cxns \cup {<<a, b>>, <<b, a>>} /\ total_edges' = total_edges + 1
      /\ num_nodes' = num_nodes /\ branch_factor' = branch_factor /\ Nodes' = Nodes
  BY DEF Connect, Nodes
<1>2. <<b, a>> \notin cxns
  <2>1. ASSUME <<b, a>> \in cxns PROVE <<a, b>> \in cxns
    BY <2>1 DEF IInv, Links
  <2> QED
    BY <2>1
<1>3. IsFiniteSet(cxns)
  <2>1. IsFiniteSet(Nodes)
    BY Parameters, FS_Interval DEF IInv, Nodes
  <2>2. IsFiniteSet(Nodes \X Nodes)
    BY <2>1, FS_Product
  <2> QED
    BY <2>2, FS_Subset DEF IInv, TypeOK
<1>4. Cardinality(cxns') = 2 * total_edges'
  BY <1>1, <1>2, <1>3, TwoMore DEF IInv, TypeOK
<1>5. cxns' \subseteq Nodes' \X Nodes'
  BY <1>1 DEF IInv, TypeOK
<1>6. total_edges' \in Nat
  BY <1>1 DEF IInv, TypeOK
<1>7. Links'
  <2> SUFFICES ASSUME NEW c \in cxns' PROVE c[1] # c[2] /\ <<c[2], c[1]>> \in cxns'
    BY DEF Links
  <2>1. CASE c \in cxns
    BY <1>1, <2>1 DEF IInv, Links
  <2>2. CASE c = <<a, b>>
    BY <1>1, <2>2
  <2>3. CASE c = <<b, a>>
    BY <1>1, <2>3
  <2> QED
    BY <1>1, <2>1, <2>2, <2>3
<1> QED
  BY <1>1, <1>4, <1>5, <1>6, <1>7 DEF IInv, TypeOK

\* A node that is connected with one of a set without a cut joins the set.
LEMMA Joined ==
  ASSUME NEW n \in Nat \ {0}, NEW j \in 0..(n - 1), NoCut(0..(n - 1)),
         NEW C, cxns \subseteq C, <<n, j>> \in C, <<j, n>> \in C,
         NEW S \in SUBSET (0..n), S # {}, S # 0..n
  PROVE  \E a \in S, b \in (0..n) \ S : <<a, b>> \in C
<1> DEFINE T == S \ {n}
<1>1. 0..n = (0..(n - 1)) \cup {n} /\ n \notin 0..(n - 1)
  OBVIOUS
<1>2. T \in SUBSET (0..(n - 1))
  BY <1>1
<1>3. CASE T = {}
  BY <1>1, <1>3
<1>4. CASE T = 0..(n - 1)
  BY <1>1, <1>4
<1>5. CASE T # {} /\ T # 0..(n - 1)
  <2>1. PICK a \in T, b \in (0..(n - 1)) \ T : <<a, b>> \in cxns
    BY <1>2, <1>5 DEF NoCut
  <2> QED
    BY <1>1, <2>1
<1> QED
  BY <1>3, <1>4, <1>5

\* An iteration of the first loop joins a node to the tree.
LEMMA ConnectNodeIInv == ASSUME IInv, NEW j \in Nodes, ConnectNode(j) PROVE IInv'
<1>1. num_nodes \in Nat \ {0} /\ i \in 1..num_nodes /\ i < num_nodes /\ j \in 0..(i - 1)
      /\ i' = i + 1 /\ i' \in 1..num_nodes /\ i \in Nodes /\ i # j
  BY Parameters DEF IInv, TypeOK, ConnectNode, Nodes
<1>2. <<i, j>> \notin cxns
  BY <1>1 DEF IInv, Tree
<1>3. TypeOK' /\ Links'
  BY <1>1, <1>2, ConnectKeeps DEF ConnectNode
<1>4. cxns' = cxns \cup {<<i, j>>, <<j, i>>} /\ num_nodes' = num_nodes
      /\ total_edges' = total_edges + 1
  BY DEF ConnectNode, Connect
<1>5. Tree' = 0..i /\ Tree \subseteq Tree' /\ i \in Tree' /\ j \in Tree'
  BY <1>1 DEF Tree
<1>6. cxns' \subseteq Tree' \X Tree'
  <2> DEFINE T == Tree
             U == Tree'
  <2>1. cxns \subseteq T \X T /\ T \subseteq U /\ i \in U /\ j \in U
    BY <1>5 DEF IInv
  <2> HIDE DEF T, U
  <2>2. cxns' \subseteq U \X U
    BY <1>4, <2>1
  <2> QED
    BY <2>2 DEF U
<1>7. NoCut(Tree)'
  <2> SUFFICES ASSUME NEW S \in SUBSET (0..i), S # {}, S # 0..i
               PROVE  \E a \in S, b \in (0..i) \ S : <<a, b>> \in cxns'
    BY <1>5 DEF NoCut
  <2>1. i \in Nat \ {0} /\ j \in 0..(i - 1) /\ NoCut(0..(i - 1))
    BY <1>1 DEF IInv, Tree
  <2>2. cxns \subseteq cxns' /\ <<i, j>> \in cxns' /\ <<j, i>> \in cxns'
    BY <1>4
  <2> QED
    BY <2>1, <2>2, Joined
<1>8. Counted'
  BY <1>1, <1>4 DEF IInv, Counted
<1> QED
  BY <1>3, <1>6, <1>7, <1>8 DEF IInv

\* An iteration of the second loop cuts nothing off.
LEMMA AddEdgeIInv == ASSUME IInv, NEW a \in Nodes, NEW b \in Nodes, AddEdge(a, b) PROVE IInv'
<1>1. i = num_nodes /\ Tree = Nodes /\ i' = i /\ i \in 1..num_nodes
  BY TreeIsAll DEF IInv, AddEdge, TypeOK
<1>2. TypeOK' /\ Links'
  BY <1>1, ConnectKeeps DEF AddEdge
<1>3. cxns' = cxns \cup {<<a, b>>, <<b, a>>} /\ total_edges' = total_edges + 1
      /\ num_nodes' = num_nodes /\ branch_factor' = branch_factor
  BY DEF AddEdge, Connect
<1>4. Tree' = Tree /\ Target' = Target
  BY <1>1, <1>3 DEF Tree, Target
<1>5. cxns' \subseteq Tree' \X Tree'
  BY <1>1, <1>3, <1>4 DEF IInv
<1>6. NoCut(Tree)'
  BY <1>3, <1>4 DEF IInv, NoCut
<1>7. Counted'
  <2>1. Target \in Int
    BY TargetType DEF IInv
  <2>2. total_edges < Target
    BY DEF AddEdge
  <2>3. i - 1 <= total_edges /\ total_edges \in Nat
    BY <1>1, Parameters DEF IInv, Counted
  <2> QED
    BY <1>1, <1>3, <1>4, <2>1, <2>2, <2>3, Parameters DEF IInv, Counted
<1> QED
  BY <1>2, <1>5, <1>6, <1>7 DEF IInv

\* No step of the loops breaks the invariant.
LEMMA NextIInv == IInv /\ [Next]_vars => IInv'
<1> SUFFICES ASSUME IInv, [Next]_vars PROVE IInv'
  OBVIOUS
<1>1. CASE UNCHANGED vars
  BY <1>1 DEF vars, IInv, TypeOK, Nodes, Tree, Links, NoCut, Counted, Target
<1>2. ASSUME NEW j \in Nodes, ConnectNode(j) PROVE IInv'
  BY <1>2, ConnectNodeIInv
<1>3. ASSUME NEW a \in Nodes, NEW b \in Nodes, AddEdge(a, b) PROVE IInv'
  BY <1>3, AddEdgeIInv
<1> QED
  BY <1>1, <1>2, <1>3 DEF Next, Extend

\* The inductive invariant holds of every behaviour.
LEMMA Invariance == Spec => []IInv
  BY InitIInv, NextIInv, PTL DEF Spec

\* The types hold, and total_edges (dmc.cc:69) counts the edges of the matrix,
\* each of which is there in both directions.
THEOREM GraphTypeCorrect == Spec => []TypeOK
<1>1. IInv => TypeOK
  BY DEF IInv
<1> QED
  BY <1>1, Invariance, PTL

\* Every link that dmc.cc draws works both ways and joins two nodes, which is
\* what the network of nodes assumes of its links.
THEOREM LinksHold == Spec => []Links
<1>1. IInv => Links
  BY DEF IInv
<1> QED
  BY <1>1, Invariance, PTL

\* The first loop leaves a connected graph (dmc.cc:68) and the second keeps it,
\* for every number of nodes and every result of rand().
THEOREM ConnectedHolds == Spec => []Connected
<1>1. IInv => Connected
  BY TreeIsAll DEF IInv, Connected
<1> QED
  BY <1>1, Invariance, PTL

\* In a graph of two nodes or more every node has a peer to send to
\* (udp-gossip.cc:302).
THEOREM EachHasPeerHolds == Spec => []EachHasPeer
<1>1. ASSUME IInv, i >= num_nodes, num_nodes > 1, NEW a \in Nodes
      PROVE  \E b \in Nodes : <<a, b>> \in cxns
  <2>1. NoCut(Nodes)
    BY <1>1, TreeIsAll DEF IInv
  <2>2. {a} # Nodes
    <3>1. 0 \in Nodes /\ 1 \in Nodes
      BY <1>1, Parameters DEF IInv, Nodes
    <3> QED
      BY <3>1
  <2>3. {a} \in SUBSET Nodes /\ {a} # {}
    OBVIOUS
  <2> QED
    BY <2>1, <2>2, <2>3 DEF NoCut
<1>2. IInv => EachHasPeer
  BY <1>1 DEF EachHasPeer
<1> QED
  BY <1>2, Invariance, PTL

\* There are at least as many pairs of nodes as a tree has edges.
LEMMA TreeFits == ASSUME NEW n \in Nat \ {0} PROVE (n * (n - 1)) \div 2 >= n - 1
<1>1. n * (n - 1) >= 2 * (n - 1)
  <2>1. CASE n = 1
    BY <2>1
  <2>2. CASE n >= 2
    BY <2>2
  <2> QED
    BY <2>1, <2>2
<1> DEFINE product == n * (n - 1)
<1>2. product \in Nat
  OBVIOUS
<1> HIDE DEF product
<1>3. product >= 2 * (n - 1) => product \div 2 >= n - 1
  BY <1>2
<1> QED
  BY <1>1, <1>3 DEF product

\* The graph has the edges that branchFactor asks for (dmc.cc:79), a tree's if
\* those are more, or all pairs if there are fewer, when the products fit.
THEOREM BranchFactorMetHolds == Spec => []BranchFactorMet
<1>1. IInv => BranchFactorMet
  <2> SUFFICES ASSUME IInv, Drawn, num_nodes * branch_factor < UInt,
                      num_nodes * (num_nodes - 1) < UInt
               PROVE  BranchFactorMet
    BY DEF BranchFactorMet
  <2> DEFINE asked == (num_nodes * branch_factor) \div 2
             pairs == (num_nodes * (num_nodes - 1)) \div 2
  <2>1. num_nodes \in Nat \ {0} /\ branch_factor \in Nat
    BY Parameters DEF IInv
  <2>2. num_nodes * branch_factor \in Nat /\ num_nodes * (num_nodes - 1) \in Nat
    BY <2>1
  <2>3. /\ (num_nodes * branch_factor) % UInt = num_nodes * branch_factor
        /\ (num_nodes * (num_nodes - 1)) % UInt = num_nodes * (num_nodes - 1)
    <3>1. ASSUME NEW x \in Nat, x < UInt PROVE x % UInt = x
      BY <3>1, ParameterAssumption
    <3> QED
      BY <2>2, <3>1
  <2>4. asked \in Int /\ pairs \in Int
    <3>1. ASSUME NEW x \in Nat PROVE x \div 2 \in Int
      OBVIOUS
    <3> QED
      BY <2>2, <3>1
  <2>5. Target = IF asked > pairs THEN pairs ELSE asked
    BY <2>3 DEF Target
  <2>6. pairs >= num_nodes - 1
    BY <2>1, TreeFits
  <2>7. i = num_nodes /\ total_edges \in Nat /\ total_edges >= Target
    BY TreeIsAll DEF IInv, Drawn, Counted
  <2>8. total_edges = num_nodes - 1 \/ (num_nodes - 1 <= total_edges /\ total_edges <= Target)
    BY <2>7 DEF IInv, Counted
  <2> HIDE DEF asked, pairs
  <2>9. total_edges = IF asked < num_nodes - 1 THEN num_nodes - 1
                      ELSE IF asked > pairs THEN pairs ELSE asked
    BY <2>1, <2>4, <2>5, <2>6, <2>7, <2>8
  <2> QED
    BY <2>9 DEF BranchFactorMet, asked, pairs
<1> QED
  BY <1>1, Invariance, PTL

-----------------------------------------------------------------------------
(* The links. *)

\* The quotient and the remainder of a place are the pair.
LEMMA Divided ==
  ASSUME NEW n \in Nat \ {0}, NEW a \in Nat, NEW b \in 0..(n - 1)
  PROVE  (a * n + b) \div n = a /\ (a * n + b) % n = b
<1>1. ASSUME NEW q \in Int, NEW r \in 0..(n - 1), n * q + r = a * n + b PROVE q = a /\ r = b
  <2>1. n * (q - a) = b - r
    BY <1>1
  <2>2. q - a \in Int
    OBVIOUS
  <2>3. ASSUME NEW d \in Int, d >= 1 PROVE n * d >= n
    BY <2>3
  <2>4. ASSUME NEW d \in Int, d <= -1 PROVE n * d <= -n
    BY <2>4
  <2>5. ~(q - a >= 1) /\ ~(q - a <= -1)
    BY <2>1, <2>2, <2>3, <2>4
  <2>6. q = a
    BY <2>2, <2>5
  <2> QED
    BY <2>1, <2>6
<1> DEFINE x == a * n + b
<1>2. x \in Nat
  OBVIOUS
<1> HIDE DEF x
<1>3. x \div n \in Int /\ x % n \in 0..(n - 1) /\ n * (x \div n) + (x % n) = x
  BY <1>2
<1> QED
  BY <1>1, <1>3 DEF x

\* A place tells both nodes of its pair.
LEMMA Places ==
  ASSUME TypeOK, NEW c \in cxns
  PROVE  /\ c = <<c[1], c[2]>> /\ c[1] \in Nodes /\ c[2] \in Nodes
         /\ Place(c) \in Nat /\ Place(c) \div num_nodes = c[1] /\ Place(c) % num_nodes = c[2]
<1>1. c = <<c[1], c[2]>> /\ c[1] \in Nodes /\ c[2] \in Nodes
  <2>1. c \in Nodes \X Nodes
    BY DEF TypeOK
  <2> QED
    BY <2>1
<1>2. num_nodes \in Nat \ {0} /\ c[1] \in Nat /\ c[2] \in 0..(num_nodes - 1)
  BY <1>1, Parameters DEF Nodes
<1>3. c[1] * num_nodes + c[2] \in Nat
  BY <1>2
<1> QED
  BY <1>1, <1>2, <1>3, Divided DEF Place

\* There are finitely many nodes, pairs and edges.
LEMMA FinitelyMany ==
  ASSUME TypeOK
  PROVE  /\ IsFiniteSet(Nodes) /\ Cardinality(Nodes) = num_nodes /\ Nodes \subseteq Nat
         /\ IsFiniteSet(cxns) /\ IsFiniteSet(Edges)
<1>1. num_nodes \in Nat \ {0}
  BY Parameters
<1>2. IsFiniteSet(Nodes) /\ Cardinality(Nodes) = num_nodes /\ Nodes \subseteq Nat
  BY <1>1, FS_Interval DEF Nodes
<1>3. IsFiniteSet(cxns)
  <2>1. IsFiniteSet(Nodes \X Nodes)
    BY <1>2, FS_Product
  <2> QED
    BY <2>1, FS_Subset DEF TypeOK
<1> QED
  BY <1>2, <1>3, FS_Subset DEF Edges

\* A set has as many elements as its image under a function without collisions.
LEMMA SameSize ==
  ASSUME NEW S, IsFiniteSet(S), NEW T, NEW f \in [S -> T],
         \A x, y \in S : f[x] = f[y] => x = y, \A z \in T : \E x \in S : f[x] = z
  PROVE  IsFiniteSet(T) /\ Cardinality(T) = Cardinality(S)
<1>1. f \in Bijection(S, T)
  BY DEF Bijection, Injection, Surjection, IsInjective
<1> QED
  BY <1>1, FS_Bijection DEF ExistsBijection

\* The loops of lines 98 and 99 meet every edge once and number the links from 1.
LEMMA LinkSeqShape ==
  ASSUME TypeOK
  PROVE  /\ LinkSeq \in [1..Cardinality(Edges) -> Edges]
         /\ \A j, k \in 1..Cardinality(Edges) : LinkSeq[j] = LinkSeq[k] => j = k
         /\ \A c \in Edges : \E k \in 1..Cardinality(Edges) : LinkSeq[k] = c
<1> DEFINE S == {Place(c) : c \in Edges}
           N == Cardinality(Edges)
           met == Ascending(S)
           g == [c \in Edges |-> Place(c)]
           pair(x) == <<x \div num_nodes, x % num_nodes>>
<1>1. \A c \in Edges : c \in cxns /\ Place(c) \in Nat /\ pair(Place(c)) = c
  BY Places DEF Edges
<1>2. IsFiniteSet(S) /\ Cardinality(S) = N
  <2>1. g \in [Edges -> S] /\ \A c \in Edges : g[c] = Place(c)
    OBVIOUS
  <2>2. \A x, y \in Edges : g[x] = g[y] => x = y
    BY <1>1, <2>1
  <2>3. \A z \in S : \E c \in Edges : g[c] = z
    BY <2>1
  <2> HIDE DEF g, S
  <2> QED
    BY <2>1, <2>2, <2>3, FinitelyMany, SameSize
<1>3. \A x \in S : x \in Int /\ pair(x) \in Edges /\ x = Place(pair(x))
  BY <1>1
<1>4. /\ met \in [1..N -> S]
      /\ \A j, k \in 1..N : j < k => met[j] < met[k]
      /\ \A x \in S : \E k \in 1..N : met[k] = x
  <2> HIDE DEF S
  <2> QED
    BY <1>2, <1>3, AscendingShape
<1>5. DOMAIN LinkSeq = 1..N /\ \A k \in 1..N : LinkSeq[k] = pair(met[k])
  BY <1>4 DEF LinkSeq
<1>6. LinkSeq = [k \in 1..N |-> LinkSeq[k]]
  BY <1>4 DEF LinkSeq
<1>7. N \in Nat
  BY FinitelyMany, FS_CardinalityType
<1> HIDE DEF met, pair, N
<1>8. ASSUME NEW j \in 1..N, NEW k \in 1..N, LinkSeq[j] = LinkSeq[k] PROVE j = k
  <2>1. met[j] = met[k] /\ met[j] \in Int
    BY <1>3, <1>4, <1>5, <1>8
  <2> QED
    BY <1>4, <1>7, <2>1
<1>9. ASSUME NEW c \in Edges PROVE \E k \in 1..N : LinkSeq[k] = c
  BY <1>1, <1>4, <1>5
<1>10. \A k \in 1..N : LinkSeq[k] \in Edges
  BY <1>3, <1>4, <1>5
<1> QED
  BY <1>6, <1>8, <1>9, <1>10 DEF N

\* There is one link for each edge that was counted.
LEMMA EdgesCounted ==
  ASSUME TypeOK, Links
  PROVE  Cardinality(Edges) = total_edges
<1> DEFINE Back == cxns \ Edges
           f == [c \in Edges |-> <<c[2], c[1]>>]
<1>1. \A c \in cxns : /\ c = <<c[1], c[2]>> /\ c[1] \in Nat /\ c[2] \in Nat /\ c[1] # c[2]
                      /\ <<c[2], c[1]>> \in cxns
  BY Places, FinitelyMany DEF Links
<1>2. \A c : c \in Edges <=> c \in cxns /\ c[1] < c[2]
  BY DEF Edges
<1>3. ASSUME NEW z \in Back PROVE <<z[2], z[1]>> \in Edges
  <2>1. z \in cxns /\ ~(z[1] < z[2])
    BY <1>2
  <2>2. z[2] < z[1]
    <3>1. \A u, v \in Nat : u # v /\ ~(u < v) => v < u
      OBVIOUS
    <3> QED
      BY <1>1, <2>1, <3>1, Zenon
  <2>3. <<z[2], z[1]>> \in cxns /\ <<z[2], z[1]>>[1] = z[2] /\ <<z[2], z[1]>>[2] = z[1]
    BY <1>1, <2>1
  <2> QED
    BY <1>2, <2>2, <2>3
<1>4. f \in [Edges -> Back]
  <2> SUFFICES ASSUME NEW c \in Edges PROVE <<c[2], c[1]>> \in Back
    OBVIOUS
  <2>1. c \in cxns /\ c[1] < c[2]
    BY <1>2
  <2>2. ~(c[2] < c[1]) /\ <<c[2], c[1]>> \in cxns
    BY <1>1, <2>1
  <2>3. <<c[2], c[1]>>[1] = c[2] /\ <<c[2], c[1]>>[2] = c[1]
    OBVIOUS
  <2> QED
    BY <1>2, <2>2, <2>3
<1>5. \A x, y \in Edges : f[x] = f[y] => x = y
  BY <1>1, <1>2
<1>6. ASSUME NEW z \in Back PROVE \E x \in Edges : f[x] = z
  <2>1. <<z[2], z[1]>> \in Edges /\ f[<<z[2], z[1]>>] = <<z[1], z[2]>>
    BY <1>3
  <2> QED
    BY <1>1, <2>1
<1> HIDE DEF f
<1>7. IsFiniteSet(Back) /\ Cardinality(Back) = Cardinality(Edges)
  BY <1>4, <1>5, <1>6, FinitelyMany, SameSize
<1>8. Cardinality(cxns) = Cardinality(Edges) + Cardinality(Back)
  <2>1. cxns = Edges \cup Back /\ Edges \cap Back = {}
    BY DEF Edges
  <2>2. Cardinality({}) = 0 /\ Cardinality(Edges) \in Nat /\ Cardinality(Back) \in Nat
    BY <1>7, FinitelyMany, FS_EmptySet, FS_CardinalityType
  <2> HIDE DEF Back
  <2>3. Cardinality(Edges \cup Back) =
          Cardinality(Edges) + Cardinality(Back) - Cardinality(Edges \cap Back)
    BY <1>7, FinitelyMany, FS_Union
  <2>4. Cardinality(cxns) = Cardinality(Edges) + Cardinality(Back) - 0
    BY <2>1, <2>2, <2>3, Zenon
  <2> QED
    BY <2>2, <2>4
<1>9. Cardinality(Edges) \in Nat /\ total_edges \in Nat /\ Cardinality(cxns) = 2 * total_edges
  BY FinitelyMany, FS_CardinalityType DEF TypeOK
<1> QED
  BY <1>7, <1>8, <1>9

\* The number of links is less than 2^22.
FewLinks == Cardinality(Edges) < 4194304

\* The matrix cxns (dmc.cc:61) fits on a stack of 8 megabytes.
FitsOnStack == \A n \in NumNodes : n * n <= 8388608

\* The stack is too small for a matrix of 2^22 links.
LEMMA StackBoundsLinks ==
  ASSUME TypeOK, Links, FitsOnStack
  PROVE  FewLinks
<1> DEFINE all == Nodes \X Nodes
<1>1. IsFiniteSet(all) /\ Cardinality(all) = num_nodes * num_nodes
  BY FinitelyMany, FS_Product
<1>2. cxns \in SUBSET all /\ cxns # all
  <2>1. <<0, 0>> \in all /\ <<0, 0>> \notin cxns
    <3>1. 0 \in Nodes
      BY Parameters DEF Nodes
    <3>2. <<0, 0>>[1] = <<0, 0>>[2]
      OBVIOUS
    <3> QED
      BY <3>1, <3>2 DEF Links
  <2> QED
    BY <2>1 DEF TypeOK
<1> HIDE DEF all
<1>3. Cardinality(cxns) < Cardinality(all) /\ Cardinality(cxns) \in Nat /\ Cardinality(all) \in Nat
  BY <1>1, <1>2, StrictSubset
<1>4. num_nodes * num_nodes <= 8388608
  BY DEF TypeOK, FitsOnStack
<1>5. Cardinality(cxns) = 2 * total_edges /\ total_edges \in Nat
  BY DEF TypeOK
<1> QED
  BY <1>1, <1>3, <1>4, <1>5, EdgesCounted DEF FewLinks

-----------------------------------------------------------------------------
(* The addresses. *)

\* Below 2^22 links the numbers do not run into the bits of 10.0.0.0.
LEMMA Networks ==
  ASSUME FewLinks, TypeOK, NEW k \in 1..Cardinality(Edges)
  PROVE  Network(k) = 167772160 + 8 * k
<1>1. k \in Nat /\ k < 4194304
  BY FinitelyMany, FS_CardinalityType DEF FewLinks
<1>2. (k * 8) \div 33554432 = 0 /\ (k * 8) \div 134217728 = 0
  BY <1>1
<1> QED
  BY <1>1, <1>2 DEF Network, OrBase

\* No address is given twice, and none is the loopback address.
LEMMA Assigned ==
  ASSUME FewLinks, TypeOK,
         NEW k \in 1..Cardinality(Edges), NEW end \in 1..2,
         NEW l \in 1..Cardinality(Edges), NEW other \in 1..2
  PROVE  /\ Assign(k, end) \in Nat \ {0} /\ Assign(k, end) # LoopbackAddr
         /\ Assign(k, end) = Assign(l, other) => k = l /\ end = other
<1>1. k \in Nat /\ l \in Nat /\ k < 4194304
  BY FinitelyMany, FS_CardinalityType DEF FewLinks
<1>2. Assign(k, end) = 167772160 + 8 * k + end /\ Assign(l, other) = 167772160 + 8 * l + other
  BY Networks DEF Assign
<1> QED
  BY <1>1, <1>2 DEF LoopbackAddr

-----------------------------------------------------------------------------
(* What a node finds out about its links. *)

\* The numbers of the links of node a, the end at which it is, and the interface.
LinksOf(a) == {k \in DOMAIN LinkSeq : a \in Range(LinkSeq[k])}
EndOf(a, k) == IF LinkSeq[k][1] = a THEN 1 ELSE 2
OnLink(a, k) == [link |-> k, end |-> EndOf(a, k), addr |-> Assign(k, EndOf(a, k))]

\* A node is at the one or the other end of its links, and a link is one of a node
\* at its other end.
LEMMA LinkEnds ==
  ASSUME TypeOK
  PROVE  /\ \A a \in Nodes : /\ LinksOf(a) \subseteq 1..Cardinality(Edges) /\ IsFiniteSet(LinksOf(a))
                             /\ LinksOf(a) \subseteq Int
         /\ \A a \in Nodes : \A k \in LinksOf(a) :
              /\ LinkSeq[k] \in cxns
              /\ LinkSeq[k] = <<LinkSeq[k][1], LinkSeq[k][2]>> /\ LinkSeq[k][1] < LinkSeq[k][2]
              /\ EndOf(a, k) \in 1..2 /\ LinkSeq[k][EndOf(a, k)] = a
              /\ LinkSeq[k][3 - EndOf(a, k)] \in Nodes
              /\ k \in LinksOf(LinkSeq[k][3 - EndOf(a, k)])
              /\ EndOf(LinkSeq[k][3 - EndOf(a, k)], k) = 3 - EndOf(a, k)
<1>1. Cardinality(Edges) \in Nat /\ Nodes \subseteq Nat
  BY FinitelyMany, FS_CardinalityType
<1>2. ASSUME NEW a \in Nodes
      PROVE  /\ LinksOf(a) \subseteq 1..Cardinality(Edges) /\ IsFiniteSet(LinksOf(a))
             /\ LinksOf(a) \subseteq Int
  <2>1. LinksOf(a) \in SUBSET (1..Cardinality(Edges))
    BY LinkSeqShape DEF LinksOf
  <2>2. IsFiniteSet(1..Cardinality(Edges))
    BY <1>1, FS_Interval
  <2> QED
    BY <1>1, <2>1, <2>2, FS_Subset
<1>3. ASSUME NEW a \in Nodes, NEW k \in LinksOf(a)
      PROVE  /\ LinkSeq[k] \in cxns
             /\ LinkSeq[k] = <<LinkSeq[k][1], LinkSeq[k][2]>> /\ LinkSeq[k][1] < LinkSeq[k][2]
             /\ EndOf(a, k) \in 1..2 /\ LinkSeq[k][EndOf(a, k)] = a
             /\ LinkSeq[k][3 - EndOf(a, k)] \in Nodes
             /\ k \in LinksOf(LinkSeq[k][3 - EndOf(a, k)])
             /\ EndOf(LinkSeq[k][3 - EndOf(a, k)], k) = 3 - EndOf(a, k)
  <2> DEFINE c == LinkSeq[k]
  <2>1. k \in 1..Cardinality(Edges) /\ c \in Edges /\ k \in DOMAIN LinkSeq
    BY <1>2, LinkSeqShape DEF LinksOf
  <2>2. c \in cxns /\ c[1] < c[2] /\ c = <<c[1], c[2]>> /\ c[1] \in Nodes /\ c[2] \in Nodes
    BY <2>1, Places DEF Edges
  <2>3. Range(c) = {c[1], c[2]}
    <3>1. ASSUME NEW u, NEW v PROVE Range(<<u, v>>) = {u, v}
      BY DEF Range
    <3> QED
      BY <2>2, <3>1
  <2>4. a = c[1] \/ a = c[2]
    BY <2>3 DEF LinksOf
  <2>5. k \in LinksOf(c[1]) /\ k \in LinksOf(c[2])
    BY <2>1, <2>3 DEF LinksOf
  <2>6. c[1] # c[2]
    <3>1. \A u, v \in Nat : u < v => u # v
      OBVIOUS
    <3>2. c[1] \in Nat /\ c[2] \in Nat
      BY <1>1, <2>2
    <3> HIDE DEF c
    <3> QED
      BY <2>2, <3>1, <3>2, Zenon
  <2> HIDE DEF c
  <2>7. CASE a = c[1]
    BY <2>2, <2>5, <2>6, <2>7 DEF EndOf, c
  <2>8. CASE a = c[2]
    BY <2>2, <2>5, <2>6, <2>8 DEF EndOf, c
  <2> QED
    BY <2>4, <2>7, <2>8
<1> QED
  BY <1>2, <1>3

\* The interfaces of a node: the first is not one of its links, and each of its
\* links has one.
LEMMA InterfacesShape ==
  ASSUME TypeOK, NEW a \in Nodes
  PROVE  /\ Len(Interfaces(a)) = Cardinality(LinksOf(a)) + 1
         /\ Interfaces(a) \in [1..(Cardinality(LinksOf(a)) + 1) -> Range(Interfaces(a))]
         /\ Interfaces(a)[1].addr = LoopbackAddr
         /\ \A n \in 1..Cardinality(LinksOf(a)) :
              Interfaces(a)[n + 1] = OnLink(a, Ascending(LinksOf(a))[n])
<1> DEFINE N == Cardinality(LinksOf(a))
           links == Ascending(LinksOf(a))
           loop == [link |-> 0, end |-> 0, addr |-> LoopbackAddr]
           own == [n \in 1..N |-> OnLink(a, links[n])]
           V == {loop} \cup {OnLink(a, links[n]) : n \in 1..N}
<1>1. N \in Nat /\ links \in [1..N -> LinksOf(a)]
  BY LinkEnds, AscendingShape, FS_CardinalityType
<1>2. Interfaces(a) = <<loop>> \o own
  <2>1. DOMAIN links = 1..N
    BY <1>1
  <2>2. own = [n \in DOMAIN links |-> [link |-> links[n], end |-> EndOf(a, links[n]),
                                      addr |-> Assign(links[n], EndOf(a, links[n]))]]
    BY <2>1 DEF OnLink
  <2> QED
    BY <2>2 DEF Interfaces, LinksOf, EndOf
<1> HIDE DEF links
<1>3. /\ own \in Seq(V) /\ Len(own) = N /\ \A n \in 1..N : own[n] = OnLink(a, links[n])
      /\ <<loop>> \in Seq(V) /\ Len(<<loop>>) = 1 /\ <<loop>>[1] = loop
  <2>1. own \in [1..N -> V]
    OBVIOUS
  <2>2. own \in Seq(V) /\ Len(own) = N
    BY <1>1, <2>1, SeqDef, LenProperties
  <2>3. loop \in V /\ \A n \in 1..N : own[n] = OnLink(a, links[n])
    OBVIOUS
  <2> HIDE DEF own, V, loop
  <2> QED
    BY <2>2, <2>3
<1> HIDE DEF own, V, N, loop
<1>4. <<loop>> \o own \in Seq(V) /\ Len(<<loop>> \o own) = 1 + N
      /\ \A n \in 1..(1 + N) :
           (<<loop>> \o own)[n] = IF n <= 1 THEN <<loop>>[n] ELSE own[n - 1]
  BY <1>1, <1>3, ConcatProperties
<1>5. (<<loop>> \o own)[1] = loop
  BY <1>1, <1>3, <1>4
<1>6. ASSUME NEW n \in 1..N PROVE (<<loop>> \o own)[n + 1] = OnLink(a, links[n])
  <2>1. n + 1 \in 1..(1 + N) /\ ~(n + 1 <= 1) /\ (n + 1) - 1 = n
    BY <1>1
  <2> QED
    BY <1>3, <1>4, <2>1
<1>7. Interfaces(a) \in [1..(N + 1) -> Range(Interfaces(a))]
  <2>1. DOMAIN Interfaces(a) = 1..(N + 1) /\ Interfaces(a) = [n \in 1..(N + 1) |-> Interfaces(a)[n]]
    BY <1>1, <1>2, <1>4, LenProperties
  <2> QED
    BY <2>1 DEF Range
<1> QED
  BY <1>1, <1>2, <1>4, <1>5, <1>6, <1>7 DEF N, links, loop

\* StartApplication finds all links of the node, each once.
LEMMA PeerInterfacesShape ==
  ASSUME TypeOK, FewLinks, NEW a \in Nodes
  PROVE  /\ PeerInterfaces(a) \in [1..Cardinality(LinksOf(a)) -> {OnLink(a, k) : k \in LinksOf(a)}]
         /\ \A p, q \in 1..Cardinality(LinksOf(a)) :
              PeerInterfaces(a)[p].link = PeerInterfaces(a)[q].link => p = q
         /\ \A k \in LinksOf(a) :
              \E p \in 1..Cardinality(LinksOf(a)) : PeerInterfaces(a)[p] = OnLink(a, k)
         /\ \A p \in 1..Cardinality(LinksOf(a)) : \E n \in 2..Len(Interfaces(a)) :
              PeerInterfaces(a)[p] = Interfaces(a)[n]
<1> DEFINE N == Cardinality(LinksOf(a))
           links == Ascending(LinksOf(a))
           S == {n \in DOMAIN Interfaces(a) : ~IsLoopbackInterface(Interfaces(a)[n])}
           kept == Ascending(S)
<1>1. /\ N \in Nat /\ links \in [1..N -> LinksOf(a)]
      /\ \A j, k \in 1..N : j < k => links[j] < links[k]
      /\ \A k \in LinksOf(a) : \E n \in 1..N : links[n] = k
  BY LinkEnds, AscendingShape, FS_CardinalityType
<1>2. /\ DOMAIN Interfaces(a) = 1..(N + 1) /\ Len(Interfaces(a)) = N + 1
      /\ Interfaces(a)[1].addr = LoopbackAddr
      /\ \A n \in 1..N : Interfaces(a)[n + 1] = OnLink(a, links[n])
  BY InterfacesShape
<1> HIDE DEF links, N
<1>3. \A n \in 2..(N + 1) : n - 1 \in 1..N /\ Interfaces(a)[n] = OnLink(a, links[n - 1])
                            /\ links[n - 1] \in LinksOf(a)
  <2> TAKE n \in 2..(N + 1)
  <2>1. n - 1 \in 1..N /\ (n - 1) + 1 = n
    BY <1>1
  <2> QED
    BY <1>1, <1>2, <2>1
<1>4. ASSUME NEW k \in LinksOf(a) PROVE OnLink(a, k).addr # LoopbackAddr /\ OnLink(a, k).link = k
  <2>1. k \in 1..Cardinality(Edges) /\ EndOf(a, k) \in 1..2
    BY LinkEnds
  <2> QED
    BY <2>1, Assigned DEF OnLink
<1>5. S = 2..(N + 1)
  <2>1. ASSUME NEW n \in 2..(N + 1) PROVE n \in S
    BY <1>1, <1>2, <1>3, <1>4 DEF IsLoopbackInterface
  <2>2. ASSUME NEW n \in S PROVE n \in 2..(N + 1)
    <3>1. n # 1
      BY <1>2 DEF IsLoopbackInterface
    <3> QED
      BY <1>1, <1>2, <3>1
  <2> QED
    BY <2>1, <2>2
<1> HIDE DEF S
<1>6. IsFiniteSet(S) /\ Cardinality(S) = N /\ S \in SUBSET Int
  BY <1>1, <1>5, FS_Interval
<1>7. /\ kept \in [1..N -> S]
      /\ \A j, k \in 1..N : j < k => kept[j] < kept[k]
      /\ \A n \in S : \E p \in 1..N : kept[p] = n
  BY <1>6, AscendingShape
<1>8. PeerInterfaces(a) = [p \in 1..N |-> Interfaces(a)[kept[p]]]
  <2>1. DOMAIN kept = 1..N
    BY <1>7
  <2> QED
    BY <2>1 DEF PeerInterfaces, S
<1> HIDE DEF kept
<1>9. ASSUME NEW p \in 1..N
      PROVE  /\ kept[p] \in 2..(N + 1) /\ PeerInterfaces(a)[p] = Interfaces(a)[kept[p]]
             /\ PeerInterfaces(a)[p] = OnLink(a, links[kept[p] - 1])
             /\ kept[p] - 1 \in 1..N /\ links[kept[p] - 1] \in LinksOf(a)
  BY <1>3, <1>5, <1>7, <1>8
<1>10. PeerInterfaces(a) \in [1..N -> {OnLink(a, k) : k \in LinksOf(a)}]
  BY <1>8, <1>9
<1>11. ASSUME NEW p \in 1..N, NEW q \in 1..N,
              PeerInterfaces(a)[p].link = PeerInterfaces(a)[q].link
       PROVE  p = q
  <2>1. links[kept[p] - 1] = links[kept[q] - 1]
    BY <1>4, <1>9, <1>11
  <2>2. \A k \in 1..N : links[k] \in Int
    BY <1>1, LinkEnds
  <2>3. kept[p] - 1 = kept[q] - 1
    <3>1. ~(links[kept[p] - 1] < links[kept[q] - 1]) /\ ~(links[kept[q] - 1] < links[kept[p] - 1])
      BY <1>9, <2>1, <2>2
    <3>2. ~(kept[p] - 1 < kept[q] - 1) /\ ~(kept[q] - 1 < kept[p] - 1)
      BY <1>1, <1>9, <3>1
    <3> QED
      BY <1>1, <1>9, <3>2
  <2>4. ~(kept[p] < kept[q]) /\ ~(kept[q] < kept[p])
    <3>1. kept[p] \in Int /\ kept[q] \in Int
      BY <1>1, <1>9
    <3> QED
      BY <2>3, <3>1
  <2> QED
    BY <1>1, <1>7, <2>4
<1>12. ASSUME NEW k \in LinksOf(a) PROVE \E p \in 1..N : PeerInterfaces(a)[p] = OnLink(a, k)
  <2>1. PICK n \in 1..N : links[n] = k
    BY <1>1
  <2>2. n + 1 \in S /\ (n + 1) - 1 = n
    BY <1>1, <1>5
  <2>3. PICK p \in 1..N : kept[p] = n + 1
    BY <1>7, <2>2
  <2> QED
    BY <1>9, <2>1, <2>2, <2>3
<1>13. ASSUME NEW p \in 1..N
       PROVE  \E n \in 2..Len(Interfaces(a)) : PeerInterfaces(a)[p] = Interfaces(a)[n]
  BY <1>2, <1>9
<1> QED
  BY <1>10, <1>11, <1>12, <1>13 DEF N

\* The addresses of a node are those of its ends of its links, all different.
LEMMA AddressesOf ==
  ASSUME TypeOK, FewLinks, NEW a \in Nodes
  PROVE  /\ Addresses(a) = {Assign(k, EndOf(a, k)) : k \in LinksOf(a)}
         /\ Cardinality(Addresses(a)) = Len(Interfaces(a)) - 1
<1> DEFINE N == Cardinality(LinksOf(a))
           links == Ascending(LinksOf(a))
           T == {Assign(k, EndOf(a, k)) : k \in LinksOf(a)}
           f == [k \in LinksOf(a) |-> Assign(k, EndOf(a, k))]
<1>1. /\ N \in Nat /\ links \in [1..N -> LinksOf(a)] /\ IsFiniteSet(LinksOf(a))
      /\ \A k \in LinksOf(a) : \E n \in 1..N : links[n] = k
  BY LinkEnds, AscendingShape, FS_CardinalityType
<1>2. /\ Len(Interfaces(a)) = N + 1
      /\ \A n \in 1..N : Interfaces(a)[n + 1] = OnLink(a, links[n])
  BY InterfacesShape
<1> HIDE DEF links, N
<1>3. \A n \in 1..N : Interfaces(a)[n + 1].addr = f[links[n]] /\ f[links[n]] \in T
  <2>1. \A k \in LinksOf(a) : OnLink(a, k).addr = f[k] /\ f[k] \in T
    BY DEF OnLink
  <2> HIDE DEF f, T
  <2> QED
    BY <1>1, <1>2, <2>1
<1>4. ASSUME NEW n \in 2..(N + 1) PROVE Interfaces(a)[n].addr \in T
  <2>1. n - 1 \in 1..N /\ (n - 1) + 1 = n
    BY <1>1
  <2> HIDE DEF T, f
  <2> QED
    BY <1>3, <2>1
<1>5. ASSUME NEW k \in LinksOf(a)
      PROVE  \E n \in 2..(N + 1) : Interfaces(a)[n].addr = Assign(k, EndOf(a, k))
  <2>1. PICK n \in 1..N : links[n] = k
    BY <1>1
  <2>2. n + 1 \in 2..(N + 1) /\ f[k] = Assign(k, EndOf(a, k))
    BY <1>1
  <2> HIDE DEF f
  <2> QED
    BY <1>3, <2>1, <2>2
<1>6. Addresses(a) = T
  BY <1>2, <1>4, <1>5 DEF Addresses
<1>7. f \in [LinksOf(a) -> T] /\ \A z \in T : \E k \in LinksOf(a) : f[k] = z
  OBVIOUS
<1>8. ASSUME NEW k \in LinksOf(a), NEW l \in LinksOf(a), f[k] = f[l] PROVE k = l
  <2>1. k \in 1..Cardinality(Edges) /\ EndOf(a, k) \in 1..2
        /\ l \in 1..Cardinality(Edges) /\ EndOf(a, l) \in 1..2
    BY LinkEnds
  <2> QED
    BY <1>8, <2>1, Assigned
<1>9. Cardinality(T) = N
  <2> HIDE DEF f, T
  <2> QED
    BY <1>1, <1>7, <1>8, SameSize DEF N
<1> QED
  BY <1>1, <1>2, <1>6, <1>9

\* A node has a link to every node that the graph connects it with.
LEMMA LinkTo ==
  ASSUME TypeOK, Links, NEW a \in Nodes, NEW b \in Nodes, <<a, b>> \in cxns
  PROVE  \E k \in LinksOf(a) : LinkSeq[k][3 - EndOf(a, k)] = b
<1>1. \A u, v : Range(<<u, v>>) = {u, v}
  BY DEF Range
<1>2. a \in Nat /\ b \in Nat /\ a # b /\ <<b, a>> \in cxns
  <2>1. <<a, b>>[1] = a /\ <<a, b>>[2] = b
    OBVIOUS
  <2> QED
    BY <2>1, FinitelyMany DEF Links
<1>3. CASE a < b
  <2>1. <<a, b>> \in Edges
    BY <1>3 DEF Edges
  <2>2. PICK k \in 1..Cardinality(Edges) : LinkSeq[k] = <<a, b>>
    BY <2>1, LinkSeqShape
  <2>3. k \in LinksOf(a)
    BY <1>1, <2>2, LinkSeqShape DEF LinksOf
  <2> QED
    BY <2>2, <2>3 DEF EndOf
<1>4. CASE b < a
  <2>1. <<b, a>> \in Edges
    BY <1>2, <1>4 DEF Edges
  <2>2. PICK k \in 1..Cardinality(Edges) : LinkSeq[k] = <<b, a>>
    BY <2>1, LinkSeqShape
  <2>3. k \in LinksOf(a)
    BY <1>1, <2>2, LinkSeqShape DEF LinksOf
  <2> QED
    BY <1>2, <2>2, <2>3 DEF EndOf
<1> QED
  BY <1>2, <1>3, <1>4

\* A node that the graph connects with another knows an address of its own.
LEMMA HasAddress ==
  ASSUME TypeOK, Links, FewLinks, NEW a \in Nodes, NEW b \in Nodes, <<a, b>> \in cxns
  PROVE  GetSomeAddrOf(a) \in Addresses(a)
<1> DEFINE N == Cardinality(LinksOf(a))
<1>1. PICK k \in LinksOf(a) : TRUE
  BY LinkTo
<1>2. PICK p \in 1..N : PeerInterfaces(a)[p] = OnLink(a, k)
  BY PeerInterfacesShape
<1>3. N \in Nat /\ 1 \in 1..N
  BY <1>2, LinkEnds, FS_CardinalityType
<1>4. DOMAIN PeerInterfaces(a) = 1..N
  BY PeerInterfacesShape
<1>5. PeerInterfaces(a) # <<>>
  BY <1>3, <1>4
<1>6. PICK n \in 2..Len(Interfaces(a)) : PeerInterfaces(a)[1] = Interfaces(a)[n]
  BY <1>3, PeerInterfacesShape
<1> QED
  BY <1>5, <1>6 DEF GetSomeAddrOf, Addresses

\* dmc.cc gives every device an address of its own, as long as the matrix of its
\* first step fits on the stack, so that every node has another m_myaddr
\* (luby-mis.cc:784).
THEOREM OneIdentityEachHolds ==
  ASSUME FitsOnStack
  PROVE  Spec => []OneIdentityEach
<1>1. ASSUME TypeOK, Links, EachHasPeer PROVE OneIdentityEach
  <2> SUFFICES ASSUME Drawn, num_nodes > 1 PROVE OneIdentityEach
    BY DEF OneIdentityEach
  <2>1. FewLinks
    BY <1>1, StackBoundsLinks
  <2>2. \A a \in Nodes : Cardinality(Addresses(a)) = Len(Interfaces(a)) - 1
    BY <1>1, <2>1, AddressesOf
  <2>3. ASSUME NEW a \in Nodes, NEW b \in Nodes, a # b,
               NEW x \in Addresses(a), x \in Addresses(b)
        PROVE  FALSE
    <3>1. PICK k \in LinksOf(a) : x = Assign(k, EndOf(a, k))
      BY <1>1, <2>1, AddressesOf
    <3>2. PICK l \in LinksOf(b) : x = Assign(l, EndOf(b, l))
      BY <1>1, <2>1, <2>3, AddressesOf
    <3>3. /\ k \in 1..Cardinality(Edges) /\ EndOf(a, k) \in 1..2 /\ LinkSeq[k][EndOf(a, k)] = a
          /\ l \in 1..Cardinality(Edges) /\ EndOf(b, l) \in 1..2 /\ LinkSeq[l][EndOf(b, l)] = b
      BY <1>1, LinkEnds
    <3>4. k = l /\ EndOf(a, k) = EndOf(b, l)
      <4>1. Assign(k, EndOf(a, k)) = Assign(l, EndOf(b, l))
        BY <3>1, <3>2, Zenon
      <4>2. \A e, o \in 1..2 : Assign(k, e) = Assign(l, o) => k = l /\ e = o
        BY <1>1, <2>1, <3>3, Assigned
      <4> QED
        BY <3>3, <4>1, <4>2, Zenon
    <3>5. LinkSeq[k][EndOf(a, k)] = LinkSeq[l][EndOf(b, l)]
      BY <3>4, Zenon
    <3> QED
      BY <2>3, <3>3, <3>5, Zenon
  <2>4. ASSUME NEW a \in Nodes PROVE GetSomeAddrOf(a) \in Addresses(a)
    <3>1. PICK b \in Nodes : <<a, b>> \in cxns
      BY <1>1 DEF EachHasPeer, Drawn
    <3> QED
      BY <1>1, <2>1, <3>1, HasAddress
  <2> QED
    BY <2>2, <2>3, <2>4 DEF OneIdentityEach
<1> QED
  BY <1>1, GraphTypeCorrect, LinksHold, EachHasPeerHolds, PTL

\* The sockets of a started node are one for each of its peers in the graph, on
\* an address of that peer (udp-gossip.cc:201-240).
THEOREM SocketsReachNeighboursHolds ==
  ASSUME FitsOnStack
  PROVE  Spec => []SocketsReachNeighbours
<1>1. ASSUME TypeOK, Links PROVE SocketsReachNeighbours
  <2> SUFFICES ASSUME NEW a \in Nodes
               PROVE  /\ IsInjective(PeerNodes(a))
                      /\ Range(PeerNodes(a)) = {b \in Nodes : <<a, b>> \in cxns}
                      /\ \A p \in 1..GetNumPeers(a) :
                           PeerAddresses(a)[p] \in Addresses(PeerNodes(a)[p])
    BY DEF SocketsReachNeighbours
  <2> DEFINE N == Cardinality(LinksOf(a))
             far(k) == LinkSeq[k][3 - EndOf(a, k)]
  <2>1. FewLinks
    BY <1>1, StackBoundsLinks
  <2>2. /\ PeerInterfaces(a) \in [1..N -> {OnLink(a, k) : k \in LinksOf(a)}]
        /\ \A p, q \in 1..N : PeerInterfaces(a)[p].link = PeerInterfaces(a)[q].link => p = q
        /\ \A k \in LinksOf(a) : \E p \in 1..N : PeerInterfaces(a)[p] = OnLink(a, k)
    BY <1>1, <2>1, PeerInterfacesShape
  <2>3. N \in Nat /\ GetNumPeers(a) = N
    <3>1. N \in Nat
      BY <1>1, LinkEnds, FS_CardinalityType
    <3>2. PeerInterfaces(a) \in Seq({OnLink(a, k) : k \in LinksOf(a)})
      BY <2>2, <3>1, SeqDef
    <3> QED
      BY <2>2, <3>1, <3>2, LenProperties DEF GetNumPeers
  <2>4. ASSUME NEW k \in LinksOf(a)
        PROVE  /\ LinkSeq[k] \in cxns /\ far(k) \in Nodes /\ k \in LinksOf(far(k))
               /\ EndOf(far(k), k) = 3 - EndOf(a, k)
               /\ LinkSeq[k] = <<a, far(k)>> \/ LinkSeq[k] = <<far(k), a>>
               /\ LinkSeq[k][1] < LinkSeq[k][2] /\ k \in 1..Cardinality(Edges)
    <3>1. /\ LinkSeq[k] \in cxns /\ far(k) \in Nodes /\ k \in LinksOf(far(k))
          /\ EndOf(far(k), k) = 3 - EndOf(a, k)
          /\ LinkSeq[k] = <<LinkSeq[k][1], LinkSeq[k][2]>> /\ LinkSeq[k][1] < LinkSeq[k][2]
          /\ EndOf(a, k) \in 1..2 /\ LinkSeq[k][EndOf(a, k)] = a
          /\ k \in 1..Cardinality(Edges)
      BY <1>1, LinkEnds
    <3>2. EndOf(a, k) = 1 \/ EndOf(a, k) = 2
      BY <3>1
    <3> QED
      BY <3>1, <3>2
  <2> HIDE DEF N
  <2>5. ASSUME NEW p \in 1..N
        PROVE  \E k \in LinksOf(a) : /\ PeerInterfaces(a)[p] = OnLink(a, k)
                                     /\ PeerInterfaces(a)[p].link = k
                                     /\ PeerNodes(a)[p] = far(k)
                                     /\ PeerAddresses(a)[p] = Assign(k, 3 - EndOf(a, k))
    <3>1. PICK k \in LinksOf(a) : PeerInterfaces(a)[p] = OnLink(a, k)
      BY <2>2
    <3> QED
      BY <2>3, <3>1 DEF OnLink, PeerNodes, PeerAddresses, GetPeerNode, GetPeerAddr, OtherEnd
  <2>6. DOMAIN PeerNodes(a) = 1..N
    BY <2>3 DEF PeerNodes
  <2>7. ASSUME NEW p \in 1..N, NEW q \in 1..N, PeerNodes(a)[p] = PeerNodes(a)[q] PROVE p = q
    <3>1. PICK k \in LinksOf(a) : PeerInterfaces(a)[p].link = k /\ PeerNodes(a)[p] = far(k)
      BY <2>5
    <3>2. PICK l \in LinksOf(a) : PeerInterfaces(a)[q].link = l /\ PeerNodes(a)[q] = far(l)
      BY <2>5
    <3>3. \A u, v \in Nat : ~(u < v /\ v < u)
      OBVIOUS
    <3>4. LinkSeq[k] = LinkSeq[l]
      <4>1. far(k) = far(l) /\ a \in Nat /\ far(k) \in Nat
        BY <1>1, <2>4, <2>7, <3>1, <3>2, FinitelyMany
      <4>2. <<a, far(k)>>[1] = a /\ <<a, far(k)>>[2] = far(k)
            /\ <<far(k), a>>[1] = far(k) /\ <<far(k), a>>[2] = a
        OBVIOUS
      <4> HIDE DEF far
      <4>3. LinkSeq[k] = <<a, far(k)>> <=> LinkSeq[l] = <<a, far(k)>>
        <5>1. LinkSeq[k] = <<a, far(k)>> \/ LinkSeq[k] = <<far(k), a>>
          BY <2>4
        <5>2. LinkSeq[l] = <<a, far(k)>> \/ LinkSeq[l] = <<far(k), a>>
          BY <2>4, <4>1
        <5>3. LinkSeq[k][1] < LinkSeq[k][2] /\ LinkSeq[l][1] < LinkSeq[l][2]
          BY <2>4
        <5> QED
          BY <3>3, <4>1, <4>2, <5>1, <5>2, <5>3, Zenon
      <4>4. /\ LinkSeq[k] = <<a, far(k)>> \/ LinkSeq[k] = <<far(k), a>>
            /\ LinkSeq[l] = <<a, far(k)>> \/ LinkSeq[l] = <<far(k), a>>
        BY <2>4, <4>1
      <4> QED
        <5>1. CASE LinkSeq[k] = <<a, far(k)>>
          BY <4>3, <5>1, Zenon
        <5>2. CASE LinkSeq[k] # <<a, far(k)>>
          BY <4>3, <4>4, <5>2, Zenon
        <5> QED
          BY <5>1, <5>2, Zenon
    <3>5. k = l
      BY <1>1, <2>4, <3>4, LinkSeqShape
    <3> QED
      BY <2>2, <3>1, <3>2, <3>5
  <2>8. ASSUME NEW b \in Range(PeerNodes(a)) PROVE b \in Nodes /\ <<a, b>> \in cxns
    <3>1. PICK p \in 1..N : b = PeerNodes(a)[p]
      BY <2>6 DEF Range
    <3>2. PICK k \in LinksOf(a) : b = far(k)
      BY <2>5, <3>1
    <3>3. LinkSeq[k] = <<a, b>> \/ LinkSeq[k] = <<b, a>>
      BY <2>4, <3>2
    <3>4. <<a, b>> \in cxns \/ <<b, a>> \in cxns
      BY <2>4, <3>3
    <3>5. <<b, a>>[1] = b /\ <<b, a>>[2] = a
      OBVIOUS
    <3> QED
      BY <1>1, <2>4, <3>2, <3>4, <3>5 DEF Links
  <2>9. ASSUME NEW b \in Nodes, <<a, b>> \in cxns PROVE b \in Range(PeerNodes(a))
    <3>1. PICK k \in LinksOf(a) : far(k) = b
      BY <1>1, <2>9, LinkTo
    <3>2. PICK p \in 1..N : PeerInterfaces(a)[p] = OnLink(a, k)
      BY <2>2
    <3>3. PeerNodes(a)[p] = b
      BY <2>3, <3>1, <3>2 DEF OnLink, PeerNodes, GetPeerNode, OtherEnd
    <3> QED
      BY <2>6, <3>3 DEF Range
  <2>10. ASSUME NEW p \in 1..N PROVE PeerAddresses(a)[p] \in Addresses(PeerNodes(a)[p])
    <3>1. PICK k \in LinksOf(a) : /\ PeerNodes(a)[p] = far(k)
                                  /\ PeerAddresses(a)[p] = Assign(k, 3 - EndOf(a, k))
      BY <2>5
    <3>2. far(k) \in Nodes /\ k \in LinksOf(far(k)) /\ EndOf(far(k), k) = 3 - EndOf(a, k)
      BY <2>4
    <3> HIDE DEF far
    <3>3. Assign(k, EndOf(far(k), k)) \in Addresses(far(k))
      BY <1>1, <2>1, <3>2, AddressesOf
    <3> QED
      BY <3>1, <3>2, <3>3
  <2>11. IsInjective(PeerNodes(a))
    BY <2>6, <2>7 DEF IsInjective
  <2>12. Range(PeerNodes(a)) = {b \in Nodes : <<a, b>> \in cxns}
    BY <2>8, <2>9
  <2> QED
    BY <2>3, <2>10, <2>11, <2>12
<1> QED
  BY <1>1, GraphTypeCorrect, LinksHold, PTL

\* What the protocol and the application assume of their network (AddrAssumption,
\* EdgeAssumption, LinkAssumption) is what dmc.cc gives them: different addresses,
\* of which none is 0 and so none that of no representative (luby-mis.cc:319), and
\* links that join two nodes and work both ways.
THEOREM AssumptionsMet ==
  ASSUME FitsOnStack
  PROVE  Spec => [](Drawn /\ num_nodes > 1 =>
           /\ {GetSomeAddrOf(a) : a \in Nodes} \subseteq Nat \ {0}
           /\ IsFiniteSet({GetSomeAddrOf(a) : a \in Nodes})
           /\ Cardinality({GetSomeAddrOf(a) : a \in Nodes}) = num_nodes
           /\ \A c \in cxns : /\ c[1] \in Nodes /\ c[2] \in Nodes /\ <<c[2], c[1]>> \in cxns
                              /\ GetSomeAddrOf(c[1]) # GetSomeAddrOf(c[2]))
<1> DEFINE Addrs == {GetSomeAddrOf(a) : a \in Nodes}
<1>1. ASSUME TypeOK, Links, OneIdentityEach, Drawn, num_nodes > 1
      PROVE  /\ Addrs \subseteq Nat \ {0} /\ IsFiniteSet(Addrs) /\ Cardinality(Addrs) = num_nodes
             /\ \A c \in cxns : /\ c[1] \in Nodes /\ c[2] \in Nodes /\ <<c[2], c[1]>> \in cxns
                                /\ GetSomeAddrOf(c[1]) # GetSomeAddrOf(c[2])
  <2>1. FewLinks
    BY <1>1, StackBoundsLinks
  <2>2. ASSUME NEW a \in Nodes PROVE GetSomeAddrOf(a) \in Addresses(a) \cap (Nat \ {0})
    <3>1. GetSomeAddrOf(a) \in Addresses(a)
      BY <1>1 DEF OneIdentityEach
    <3>2. PICK k \in LinksOf(a) : GetSomeAddrOf(a) = Assign(k, EndOf(a, k))
      BY <1>1, <2>1, <3>1, AddressesOf
    <3>3. k \in 1..Cardinality(Edges) /\ EndOf(a, k) \in 1..2
      BY <1>1, LinkEnds
    <3> QED
      BY <1>1, <2>1, <3>1, <3>2, <3>3, Assigned
  <2>3. ASSUME NEW a \in Nodes, NEW b \in Nodes, GetSomeAddrOf(a) = GetSomeAddrOf(b) PROVE a = b
    BY <1>1, <2>2, <2>3 DEF OneIdentityEach
  <2>4. IsFiniteSet(Nodes) /\ Cardinality(Nodes) = num_nodes
    <3>1. num_nodes \in Nat \ {0}
      BY <1>1, Parameters
    <3>2. 0 \in Int /\ num_nodes - 1 \in Int /\ (num_nodes - 1) - 0 + 1 = num_nodes
          /\ ~(0 > num_nodes - 1)
      BY <3>1
    <3> QED
      BY <3>2, FS_Interval DEF Nodes
  <2> DEFINE f == [a \in Nodes |-> GetSomeAddrOf(a)]
  <2>5. /\ f \in [Nodes -> Addrs] /\ \A z \in Addrs : \E a \in Nodes : f[a] = z
        /\ \A a, b \in Nodes : f[a] = f[b] => a = b
    BY <2>3
  <2>6. IsFiniteSet(Addrs) /\ Cardinality(Addrs) = num_nodes
    <3> HIDE DEF f, Addrs
    <3> QED
      BY <2>4, <2>5, SameSize
  <2>7. ASSUME NEW c \in cxns
        PROVE  /\ c[1] \in Nodes /\ c[2] \in Nodes /\ <<c[2], c[1]>> \in cxns
               /\ GetSomeAddrOf(c[1]) # GetSomeAddrOf(c[2])
    BY <1>1, <2>3 DEF Links, TypeOK
  <2> QED
    BY <2>2, <2>6, <2>7
<1> HIDE DEF Addrs
<1>2. TypeOK /\ Links /\ OneIdentityEach =>
        (Drawn /\ num_nodes > 1 =>
           /\ Addrs \subseteq Nat \ {0}
           /\ IsFiniteSet(Addrs)
           /\ Cardinality(Addrs) = num_nodes
           /\ \A c \in cxns : /\ c[1] \in Nodes /\ c[2] \in Nodes /\ <<c[2], c[1]>> \in cxns
                              /\ GetSomeAddrOf(c[1]) # GetSomeAddrOf(c[2]))
  BY <1>1
<1> QED
  BY <1>2, GraphTypeCorrect, LinksHold, OneIdentityEachHolds, PTL DEF Addrs
=============================================================================
