--------------------------- MODULE NeighbourGossip ---------------------------
(***************************************************************************)
(* What the lowest level of the protocol promises, whatever happens at the *)
(* levels above it: gossip by which every node comes to know its           *)
(* neighbours and how many neighbours each of them has heard.  The degree  *)
(* a node tells of itself grows until it has heard all its neighbours; a   *)
(* node that hears a new degree restarts all its elections.                *)
(***************************************************************************)
EXTENDS Integers, Sequences, FiniteSets

CONSTANTS
  Addr, Edge,   \* the nodes and the links between them, as in LubyGossip
  MaxQueue      \* bound: packets on one link in BoundedSpec

ASSUME NeighbourAssumption ==
  /\ IsFiniteSet(Addr)
  /\ Edge \subseteq Addr \X Addr
  /\ \A e \in Edge : e[1] # e[2] /\ <<e[2], e[1]>> \in Edge
ASSUME QueueAssumption == MaxQueue \in Nat

VARIABLES
  known,   \* known[a][b] is the degree node a has heard of its neighbour b
  link     \* link[<<a, b>>] holds the degrees a told and b has not heard

vars == <<known, link>>

Degree(a) == Cardinality(DOMAIN known[a])

Init ==
  /\ known = [a \in Addr |-> [b \in {} |-> 0]]
  /\ link = [e \in Edge |-> <<>>]

\* Faulty variant of Tell: the neighbour that is told does not count.
TellOthers(e) ==
  /\ link' = [link EXCEPT ![e] = Append(@, Degree(e[1]) - 1)]
  /\ UNCHANGED known

Tell(e) ==
  /\ link' = [link EXCEPT ![e] = Append(@, Degree(e[1]))]
  /\ UNCHANGED known

\* Faulty variant of Heard: a neighbour's degree is taken only once.
HeardOnce(heard, b, degree) ==
  [c \in DOMAIN heard \cup {b} |-> IF c \in DOMAIN heard THEN heard[c] ELSE degree]

\* Faulty variant of Heard: a degree that was told before the last one is added.
HeardTwice(heard, b, degree) ==
  [c \in DOMAIN heard \cup {b} |->
     IF c # b THEN heard[c] ELSE IF b \in DOMAIN heard THEN degree + 1 ELSE degree]

\* What is known after a neighbour b has told its degree.
Heard(heard, b, degree) ==
  [c \in DOMAIN heard \cup {b} |-> IF c = b THEN degree ELSE heard[c]]

Hear(e) ==
  /\ link[e] # <<>>
  /\ known' = [known EXCEPT ![e[2]] = Heard(@, e[1], Head(link[e]))]
  /\ link' = [link EXCEPT ![e] = Tail(@)]

Next == \E e \in Edge : Tell(e) \/ Hear(e)

Spec == Init /\ [][Next]_vars

(* The timer of a node goes off forever and picks each of its neighbours     *)
(* again and again, and a link delivers.                                      *)

BoundedTell(e) == Len(link[e]) < MaxQueue /\ Tell(e)

BoundedNext == \E e \in Edge : BoundedTell(e) \/ Hear(e)

Fairness == \A e \in Edge : WF_vars(BoundedTell(e)) /\ WF_vars(Hear(e))

BoundedSpec == Init /\ [][BoundedNext]_vars /\ Fairness

-----------------------------------------------------------------------------
\* Types.
TypeOK ==
  /\ \A a \in Addr : \E H \in SUBSET Addr : known[a] \in [H -> Nat]
  /\ known = [a \in Addr |-> known[a]]
  /\ link \in [Edge -> Seq(Nat)]

\* What is known of a neighbour's degree, what the link says of it and what it
\* is now never decrease in this order (luby-mis.cc:307).
InOrder ==
  \A e \in Edge :
    /\ \A i, j \in 1..Len(link[e]) : i <= j => link[e][i] <= link[e][j]
    /\ \A i \in 1..Len(link[e]) : link[e][i] <= Degree(e[1])
    /\ e[1] \in DOMAIN known[e[2]] =>
         /\ \A i \in 1..Len(link[e]) : known[e[2]][e[1]] <= link[e][i]
         /\ known[e[2]][e[1]] <= Degree(e[1])

Neighbours(a) == {b \in Addr : <<b, a>> \in Edge}

\* In the end every node knows all its neighbours and their degrees for good:
\* the changes that restart all levels (luby-mis.cc:306, 314) come to an end.
Settles ==
  <>[](\A a \in Addr :
         known[a] = [b \in Neighbours(a) |-> Cardinality(Neighbours(b))])
=============================================================================
