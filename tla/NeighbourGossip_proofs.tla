------------------------ MODULE NeighbourGossip_proofs ------------------------
(***************************************************************************)
(* What the nodes of any network are told of each other's degrees never    *)
(* decreases.                                                              *)
(***************************************************************************)
EXTENDS NeighbourGossip, FiniteSetTheorems, SequenceTheorems, TLAPS

\* The ends of a link are two nodes.
LEMMA LinkEnds == ASSUME NEW e \in Edge PROVE e[1] \in Addr /\ e[2] \in Addr /\ e[1] # e[2]
  BY NeighbourAssumption

\* A degree is a number.
LEMMA DegreeType == ASSUME TypeOK, NEW a \in Addr PROVE Degree(a) \in Nat
<1>1. IsFiniteSet(DOMAIN known[a])
  BY NeighbourAssumption, FS_Subset DEF TypeOK
<1> QED
  BY <1>1, FS_CardinalityType DEF Degree

\* Who hears of a neighbour knows the others as before, and not fewer of them.
LEMMA HeardGrows ==
  ASSUME TypeOK, NEW a \in Addr, NEW b \in Addr, NEW degree \in Nat
  PROVE  /\ \E H \in SUBSET Addr : Heard(known[a], b, degree) \in [H -> Nat]
         /\ Cardinality(DOMAIN Heard(known[a], b, degree)) >= Degree(a)
<1> PICK H \in SUBSET Addr : known[a] \in [H -> Nat]
  BY DEF TypeOK
<1>1. /\ Heard(known[a], b, degree) \in [H \cup {b} -> Nat]
      /\ DOMAIN Heard(known[a], b, degree) = H \cup {b}
  BY DEF Heard
<1>2. IsFiniteSet(H \cup {b}) /\ IsFiniteSet(H)
  BY NeighbourAssumption, FS_Subset
<1>3. Cardinality(H \cup {b}) >= Cardinality(H)
  BY <1>2, FS_Subset, FS_CardinalityType
<1> QED
  BY <1>1, <1>3 DEF Degree

IInv == TypeOK /\ InOrder

\* Nothing is known and nothing told at first.
LEMMA InitIInv == Init => IInv
<1> SUFFICES ASSUME Init PROVE IInv
  OBVIOUS
<1>1. TypeOK
  <2>1. ASSUME NEW a \in Addr PROVE \E H \in SUBSET Addr : known[a] \in [H -> Nat]
    <3>1. known[a] \in [{} -> Nat]
      BY DEF Init
    <3> WITNESS {} \in SUBSET Addr
    <3> QED
      BY <3>1
  <2>2. known = [a \in Addr |-> known[a]]
    BY DEF Init
  <2>3. link \in [Edge -> Seq(Nat)]
    BY DEF Init
  <2> QED
    BY <2>1, <2>2, <2>3 DEF TypeOK
<1>2. ASSUME NEW e \in Edge PROVE link[e] = <<>> /\ e[1] \notin DOMAIN known[e[2]]
  BY LinkEnds DEF Init
<1> QED
  BY <1>1, <1>2 DEF IInv, InOrder

\* A degree that is told is not below those told before.
LEMMA TellIInv ==
  ASSUME IInv, NEW e \in Edge, Tell(e)
  PROVE  IInv'
<1>1. known' = known /\ link' = [link EXCEPT ![e] = Append(link[e], Degree(e[1]))]
  BY DEF Tell
<1>2. Degree(e[1]) \in Nat /\ link[e] \in Seq(Nat)
  BY LinkEnds, DegreeType DEF IInv, TypeOK
<1>3. TypeOK'
  BY <1>1, <1>2 DEF IInv, TypeOK
<1>4. ASSUME NEW d \in Edge
      PROVE  /\ \A i, j \in 1..Len(link'[d]) : i <= j => link'[d][i] <= link'[d][j]
             /\ \A i \in 1..Len(link'[d]) : link'[d][i] <= Degree(d[1])
             /\ d[1] \in DOMAIN known[d[2]] =>
                  /\ \A i \in 1..Len(link'[d]) : known[d[2]][d[1]] <= link'[d][i]
                  /\ known[d[2]][d[1]] <= Degree(d[1])
  <2>1. CASE d # e
    BY <1>1, <2>1 DEF IInv, InOrder, TypeOK
  <2>2. CASE d = e
    <3>1. /\ Len(link'[e]) = Len(link[e]) + 1
          /\ \A i \in 1..Len(link[e]) : link'[e][i] = link[e][i]
          /\ link'[e][Len(link[e]) + 1] = Degree(e[1])
          /\ Len(link[e]) \in Nat
      BY <1>1, <1>2 DEF IInv, TypeOK
    <3>2. \A i \in 1..Len(link[e]) : link[e][i] \in Nat /\ link[e][i] <= Degree(e[1])
      BY <1>2, ElementOfSeq DEF IInv, InOrder
    <3>3. \A i, j \in 1..Len(link[e]) : i <= j => link[e][i] <= link[e][j]
      BY DEF IInv, InOrder
    <3>4. \A i \in 1..Len(link'[e]) : link'[e][i] <= Degree(e[1])
      BY <1>2, <3>1, <3>2
    <3>5. ASSUME NEW i \in 1..Len(link'[e]), NEW j \in 1..Len(link'[e]), i <= j
          PROVE  link'[e][i] <= link'[e][j]
      <4>1. CASE j \in 1..Len(link[e])
        <5>1. i \in 1..Len(link[e])
          BY <3>1, <3>5, <4>1
        <5> QED
          BY <3>1, <3>3, <3>5, <4>1, <5>1
      <4>2. CASE j = Len(link[e]) + 1
        <5>1. link'[e][j] = Degree(e[1])
          BY <3>1, <4>2
        <5> QED
          BY <3>4, <5>1
      <4> QED
        BY <3>1, <4>1, <4>2
    <3>6. e[1] \in DOMAIN known[e[2]] =>
            /\ \A i \in 1..Len(link'[e]) : known[e[2]][e[1]] <= link'[e][i]
            /\ known[e[2]][e[1]] <= Degree(e[1])
      <4>1. e[1] \in DOMAIN known[e[2]] =>
              /\ \A i \in 1..Len(link[e]) : known[e[2]][e[1]] <= link[e][i]
              /\ known[e[2]][e[1]] <= Degree(e[1])
        BY DEF IInv, InOrder
      <4> QED
        BY <3>1, <4>1
    <3> QED
      BY <2>2, <3>4, <3>5, <3>6
  <2> QED
    BY <2>1, <2>2
<1> QED
  BY <1>1, <1>3, <1>4 DEF IInv, InOrder, Degree

\* What is heard is the least of what was told.
LEMMA HearIInv ==
  ASSUME IInv, NEW e \in Edge, Hear(e)
  PROVE  IInv'
<1> DEFINE a == e[2]
           b == e[1]
           told == link[e]
           heard == Heard(known[a], b, Head(told))
<1>1. told # <<>> /\ known' = [known EXCEPT ![a] = heard] /\ link' = [link EXCEPT ![e] = Tail(told)]
  BY DEF Hear
<1>2. told \in Seq(Nat) /\ a \in Addr /\ b \in Addr /\ a # b
  BY LinkEnds DEF IInv, TypeOK
<1>3. /\ Head(told) \in Nat /\ Head(told) = told[1] /\ Tail(told) \in Seq(Nat)
      /\ Len(Tail(told)) = Len(told) - 1 /\ Len(told) \in Nat \ {0}
      /\ \A i \in 1..(Len(told) - 1) : Tail(told)[i] = told[i + 1]
  BY <1>1, <1>2, HeadTailProperties, EmptySeq, LenProperties
<1>4. /\ \E H \in SUBSET Addr : heard \in [H -> Nat]
      /\ Cardinality(DOMAIN heard) >= Degree(a)
      /\ heard[b] = Head(told)
      /\ \A c \in DOMAIN heard \ {b} : c \in DOMAIN known[a] /\ heard[c] = known[a][c]
      /\ b \in DOMAIN heard
  <2>1. /\ \E H \in SUBSET Addr : heard \in [H -> Nat]
        /\ Cardinality(DOMAIN heard) >= Degree(a)
    BY <1>2, <1>3, HeardGrows DEF IInv
  <2> QED
    BY <2>1 DEF Heard
<1> HIDE DEF heard
<1>5. known = [c \in Addr |-> known[c]] /\ \A c \in Addr : \E H \in SUBSET Addr : known[c] \in [H -> Nat]
  BY DEF IInv, TypeOK
<1>6. known'[a] = heard /\ \A c \in Addr : c # a => known'[c] = known[c]
  BY <1>1, <1>2, <1>5
<1>7. TypeOK'
  <2>1. ASSUME NEW c \in Addr PROVE \E H \in SUBSET Addr : known'[c] \in [H -> Nat]
    BY <1>4, <1>5, <1>6
  <2>2. known' = [c \in Addr |-> known'[c]]
    BY <1>1, <1>5
  <2>3. link' \in [Edge -> Seq(Nat)]
    BY <1>1, <1>3 DEF IInv, TypeOK
  <2> QED
    BY <2>1, <2>2, <2>3 DEF TypeOK
<1>8. ASSUME NEW c \in Addr PROVE Degree(c)' >= Degree(c) /\ Degree(c)' \in Nat /\ Degree(c) \in Nat
  <2>1. Degree(c) \in Nat
    BY DegreeType DEF IInv
  <2>2. Degree(c)' = Cardinality(DOMAIN known'[c])
    BY DEF Degree
  <2>3. Degree(c)' \in Nat
    <3>1. \E H \in SUBSET Addr : known'[c] \in [H -> Nat]
      BY <1>7 DEF TypeOK
    <3>2. IsFiniteSet(DOMAIN known'[c])
      BY <3>1, NeighbourAssumption, FS_Subset
    <3> QED
      BY <2>2, <3>2, FS_CardinalityType
  <2>4. CASE c = a
    BY <1>4, <1>6, <2>1, <2>2, <2>3, <2>4
  <2>5. CASE c # a
    BY <1>6, <2>1, <2>2, <2>5 DEF Degree
  <2> QED
    BY <2>1, <2>3, <2>4, <2>5
<1>9. ASSUME NEW d \in Edge
      PROVE  /\ \A i, j \in 1..Len(link'[d]) : i <= j => link'[d][i] <= link'[d][j]
             /\ \A i \in 1..Len(link'[d]) : link'[d][i] <= Degree(d[1])'
             /\ d[1] \in DOMAIN known'[d[2]] =>
                  /\ \A i \in 1..Len(link'[d]) : known'[d[2]][d[1]] <= link'[d][i]
                  /\ known'[d[2]][d[1]] <= Degree(d[1])'
  <2>1. /\ d[1] \in Addr /\ d[2] \in Addr /\ link[d] \in Seq(Nat)
        /\ \A i \in 1..Len(link[d]) : link[d][i] \in Nat
    BY LinkEnds, ElementOfSeq DEF IInv, TypeOK
  <2>2. /\ \A i, j \in 1..Len(link[d]) : i <= j => link[d][i] <= link[d][j]
        /\ \A i \in 1..Len(link[d]) : link[d][i] <= Degree(d[1])
        /\ d[1] \in DOMAIN known[d[2]] =>
             /\ \A i \in 1..Len(link[d]) : known[d[2]][d[1]] <= link[d][i]
             /\ known[d[2]][d[1]] <= Degree(d[1])
    BY DEF IInv, InOrder
  <2>3. Degree(d[1])' >= Degree(d[1]) /\ Degree(d[1])' \in Nat /\ Degree(d[1]) \in Nat
    BY <1>8, <2>1
  <2>4. CASE d = e
    <3>1. link'[d] = Tail(told) /\ Len(Tail(told)) \in Nat
      BY <1>1, <1>3, <2>4 DEF IInv, TypeOK
    <3>2. \A i \in 1..Len(Tail(told)) : i \in 1..(Len(told) - 1) /\ i + 1 \in 1..Len(told) /\ Tail(told)[i] = link[d][i + 1]
      BY <1>3, <2>4
    <3>3. 1 \in 1..Len(link[d])
      BY <1>3, <2>4
    <3>4. \A i, j \in 1..Len(link'[d]) : i <= j => link'[d][i] <= link'[d][j]
      BY <2>2, <2>4, <3>1, <3>2
    <3>5. \A i \in 1..Len(link'[d]) : link'[d][i] <= Degree(d[1])'
      BY <2>1, <2>2, <2>3, <2>4, <3>1, <3>2
    <3>6. known'[d[2]][d[1]] = link[d][1]
      BY <1>3, <1>4, <1>6, <2>4
    <3>7. \A i \in 1..Len(link'[d]) : known'[d[2]][d[1]] <= link'[d][i]
      BY <2>2, <2>4, <3>1, <3>2, <3>3, <3>6
    <3>8. known'[d[2]][d[1]] <= Degree(d[1])'
      BY <2>1, <2>2, <2>3, <3>3, <3>6
    <3> QED
      BY <3>4, <3>5, <3>7, <3>8
  <2>5. CASE d # e
    <3>1. link'[d] = link[d]
      BY <1>1, <2>5 DEF IInv, TypeOK
    <3>2. d[1] \in DOMAIN known'[d[2]] =>
            d[1] \in DOMAIN known[d[2]] /\ known'[d[2]][d[1]] = known[d[2]][d[1]]
      <4>1. CASE d[2] # a
        BY <1>6, <2>1, <4>1
      <4>2. CASE d[2] = a
        <5>1. d[1] # b
          BY <2>5, <4>2, NeighbourAssumption
        <5> QED
          BY <1>4, <1>6, <4>2, <5>1
      <4> QED
        BY <4>1, <4>2
    <3>3. d[1] \in DOMAIN known[d[2]] => known[d[2]][d[1]] \in Nat
      BY <1>5, <2>1
    <3>4. \A i, j \in 1..Len(link'[d]) : i <= j => link'[d][i] <= link'[d][j]
      BY <2>2, <3>1, Zenon
    <3>5. ASSUME NEW i \in 1..Len(link'[d]) PROVE link'[d][i] <= Degree(d[1])'
      <4>1. link[d][i] \in Nat /\ link[d][i] <= Degree(d[1]) /\ link'[d][i] = link[d][i]
        BY <2>1, <2>2, <3>1, Zenon
      <4> QED
        BY <2>3, <4>1
    <3>6. ASSUME d[1] \in DOMAIN known'[d[2]], NEW i \in 1..Len(link'[d])
          PROVE  known'[d[2]][d[1]] <= link'[d][i]
      BY <2>2, <3>1, <3>2, <3>6, Zenon
    <3>7. ASSUME d[1] \in DOMAIN known'[d[2]] PROVE known'[d[2]][d[1]] <= Degree(d[1])'
      BY <2>2, <2>3, <3>2, <3>3, <3>7
    <3> QED
      BY <3>4, <3>5, <3>6, <3>7, Zenon
  <2> QED
    BY <2>4, <2>5
<1> QED
  BY <1>7, <1>9 DEF IInv, InOrder

\* Telling and hearing keep the order.
LEMMA NextIInv == IInv /\ [Next]_vars => IInv'
<1> SUFFICES ASSUME IInv, [Next]_vars PROVE IInv'
  OBVIOUS
<1>1. ASSUME NEW e \in Edge, Tell(e) PROVE IInv'
  BY <1>1, TellIInv
<1>2. ASSUME NEW e \in Edge, Hear(e) PROVE IInv'
  BY <1>2, HearIInv
<1>3. CASE UNCHANGED vars
  BY <1>3 DEF vars, IInv, TypeOK, InOrder, Degree
<1> QED
  BY <1>1, <1>2, <1>3 DEF Next

\* Degrees are heard in the order in which they were told, and none is ever
\* taken back: in every network, however many packets are under way.
THEOREM DegreesGrow == Spec => [](TypeOK /\ InOrder)
<1>1. IInv => TypeOK /\ InOrder
  BY DEF IInv
<1> QED
  BY <1>1, InitIInv, NextIInv, PTL DEF Spec

\* What a node knows is a degree of each of some nodes, and a link holds degrees.
THEOREM TypeCorrect == Spec => []TypeOK
  BY DegreesGrow, PTL
=============================================================================
