---------------------------- MODULE LubyMIS_proofs ----------------------------
(***************************************************************************)
(* The handler of a packet keeps a node's levels well-formed.              *)
(*                                                                         *)
(* Every helper of the handler changes one level n.  It either replaces    *)
(* level n and drops the levels above (Cut) or replaces level n by a level *)
(* with the same representative and the same peers (SameBut).  The first   *)
(* part shows that both keep WellFormed, the second that each helper is    *)
(* one of the two, the third that the loop over the levels keeps it too.   *)
(* Along with WellFormed, Handled carries where the routes and values of a *)
(* level come from (Derived) and which levels a change leaves.             *)
(***************************************************************************)
EXTENDS LubyInvariants, Numbers_proofs, SequenceTheorems

AnyLevel == UNION {Level(D) : D \in SUBSET Addr}

\* AnyLevel is the set of levels.
LEMMA IsLevelDef == ASSUME NEW x PROVE IsLevel(x) <=> x \in AnyLevel
  BY DEF IsLevel, AnyLevel

\* A well-formed vector is a sequence of levels.
LEMMA LevelsShape ==
  ASSUME NEW L, IsLevels(L)
  PROVE  /\ L \in Seq(AnyLevel) /\ Len(L) \in Nat \ {0}
         /\ \A i \in 1..Len(L) : L[i] \in AnyLevel /\ L[i].level = i - 1
<1>1. L \in [1..Len(L) -> AnyLevel]
  BY IsLevelDef DEF IsLevels
<1> QED
  BY <1>1, SeqDef, IsLevelDef DEF IsLevels

\* A sequence of levels, numbered from 0, is a vector of levels.
LEMMA ShapeIsLevels ==
  ASSUME NEW L \in Seq(AnyLevel), Len(L) > 0, \A i \in 1..Len(L) : L[i].level = i - 1
  PROVE  IsLevels(L)
<1>1. Len(L) \in Nat /\ L \in [1..Len(L) -> AnyLevel]
  BY LenProperties
<1> QED
  BY <1>1, IsLevelDef DEF IsLevels

\* The fields of a level.
LEMMA LevelFields ==
  ASSUME NEW x \in AnyLevel
  PROVE  /\ x.level \in Nat /\ x.rep \in Addr \cup {None}
         /\ x.rep_next_hop \in Addr \cup {None}
         /\ x.rep_dist \in Nat /\ x.rep_value \in Int
         /\ PeersOf(x) \subseteq Addr /\ x.peers \in [PeersOf(x) -> LubyPeer]
         /\ NumPeers(x) \in Nat
<1>1. PICK D \in SUBSET Addr : x \in Level(D)
  BY DEF AnyLevel
<1>2. PeersOf(x) = D
  BY <1>1 DEF Level, PeersOf
<1>3. IsFiniteSet(D)
  BY AddrAssumption, FS_Subset
<1> QED
  BY <1>1, <1>2, <1>3, FS_CardinalityType DEF Level, PeersOf, NumPeers

\* The powers of two, a recursive function on the natural numbers, exist and
\* are positive.
LEMMA PowersOfTwo == \A k \in Nat : pow2[k] \in Nat \ {0}
<1> DEFINE S == Nat \ {0}
           g == [q \in Nat \X S |-> 2 * q[2]]
           Doubles(f) == f = [k \in Nat |-> IF k = 0 THEN 1 ELSE 2 * f[k - 1]]
<1>1. 1 \in S /\ g \in EndlessSteps(S)
  BY DEF EndlessSteps
<1>2. \A k \in Nat : \A v \in S : g[<<k, v>>] = 2 * v
  OBVIOUS
<1> HIDE DEF S, g
<1>3. PICK h \in [Nat -> S] : h[0] = 1 /\ \A k \in Nat : h[k + 1] = g[<<k, h[k]>>]
  <2>1. EndlessIterations(S, 1, g) # {}
    BY <1>1, NatRecursion
  <2> QED
    BY <2>1 DEF EndlessIterations
<1>4. Doubles(h)
  <2>1. ASSUME NEW k \in Nat PROVE h[k] = IF k = 0 THEN 1 ELSE 2 * h[k - 1]
    <3>1. CASE k = 0
      BY <1>3, <3>1
    <3>2. CASE k # 0
      <4>1. k - 1 \in Nat /\ (k - 1) + 1 = k
        BY <3>2
      <4> QED
        BY <1>2, <1>3, <3>2, <4>1
    <3> QED
      BY <3>1, <3>2
  <2> QED
    BY <2>1
<1>5. Doubles(pow2)
  <2>1. pow2 = CHOOSE f : Doubles(f)
    BY DEF pow2
  <2> HIDE DEF Doubles
  <2> QED
    BY <1>4, <2>1
<1> DEFINE T == {k \in Nat : pow2[k] \in Nat \ {0}}
<1>6. 0 \in T
  BY <1>5
<1>7. ASSUME NEW k \in Nat, k \in T PROVE k + 1 \in T
  <2>1. pow2[k + 1] = 2 * pow2[k]
    BY <1>5
  <2> QED
    BY <1>7, <2>1
<1> HIDE DEF T
<1>8. Nat \subseteq T
  BY <1>6, <1>7, SetInduct
<1> QED
  BY <1>8 DEF T

\* A peer may always be one hop away.
LEMMA MaxPeerDistanceType ==
  ASSUME NEW x \in AnyLevel
  PROVE  MaxPeerDistance(x) \in Nat \ {0}
<1>1. x.level \in Nat
  BY LevelFields
<1>2. x.level # 0 => pow2[x.level - 1] \in Nat \ {0}
  BY <1>1, PowersOfTwo
<1> QED
  BY <1>1, <1>2 DEF MaxPeerDistance

-----------------------------------------------------------------------------
(* WellFormed, one level at a time. *)

\* The distances of the peers of x are within reach.
Reached(x) == \A p \in PeersOf(x) : x.peers[p].dist \in 1..MaxPeerDistance(x)

\* Level x may be level n of me, above a level below.
Fits(me, below, n, x) ==
  /\ x \in AnyLevel /\ x.level = n
  /\ Reached(x)
  /\ x.rep = None => PeersOf(x) = {} /\ x.rep_next_hop = None
  /\ me \notin PeersOf(x) /\ x.rep \notin PeersOf(x)
  /\ n = 0 => x.rep = me
  /\ n > 0 => /\ below.rep # None /\ PeersOf(below) # {}
              /\ x.rep # None => x.rep = below.rep \/ x.rep \in PeersOf(below)

\* In a well-formed vector every level fits above the level below it.
LEMMA FitsAt ==
  ASSUME NEW me, NEW L, WellFormed(me, L), NEW n \in 0..(Len(L) - 1)
  PROVE  Fits(me, At(L, n - 1), n, At(L, n))
<1>1. IsLevels(L)
  BY DEF WellFormed
<1>2. n + 1 \in 1..Len(L) /\ Len(L) \in Nat /\ n \in Nat
  BY <1>1, LevelsShape
<1>3. At(L, n) \in AnyLevel /\ At(L, n).level = n
  BY <1>1, <1>2, LevelsShape DEF At
<1>4. At(L, n).rep = None => PeersOf(At(L, n)) = {} /\ At(L, n).rep_next_hop = None
  BY <1>2 DEF WellFormed, NoRepNoPeersOf, At
<1>5. PeersOf(At(L, n)) \cap {me, At(L, n).rep} = {}
  BY <1>2 DEF WellFormed, OwnGroupIsNoPeerOf, At
<1>6. n = 0 => At(L, n).rep = me
  BY <1>2 DEF WellFormed, At
<1>8. Reached(At(L, n))
  BY <1>2 DEF WellFormed, PeerWithinReachOf, Reached, At
<1>7. ASSUME n > 0
      PROVE  /\ At(L, n - 1).rep # None /\ PeersOf(At(L, n - 1)) # {}
             /\ At(L, n).rep # None => IsCandidate(L, n, At(L, n).rep)
  <2>1. n \in 1..(Len(L) - 1)
    BY <1>2, <1>7
  <2>2. L[n].rep # None /\ PeersOf(L[n]) # {} /\ At(L, n - 1) = L[n]
    BY <1>2, <2>1 DEF WellFormed, LadderOf, At
  <2>3. At(L, n).rep # None => IsCandidate(L, n, At(L, n).rep)
    BY <2>1 DEF WellFormed, RepIsCandidateOf
  <2> QED
    BY <2>2, <2>3
<1> QED
  BY <1>3, <1>4, <1>5, <1>6, <1>7, <1>8 DEF Fits, IsCandidate

\* A vector in which every level fits is well-formed.
LEMMA FitsWellFormed ==
  ASSUME NEW me, NEW L \in Seq(AnyLevel), Len(L) > 0,
         \A n \in 0..(Len(L) - 1) : Fits(me, At(L, n - 1), n, At(L, n))
  PROVE  WellFormed(me, L)
<1>1. Len(L) \in Nat
  BY LenProperties
<1>2. ASSUME NEW i \in 1..Len(L) PROVE Fits(me, L[i - 1], i - 1, L[i])
  <2>1. i - 1 \in 0..(Len(L) - 1) /\ (i - 1) + 1 = i /\ (i - 1) - 1 + 1 = i - 1
    BY <1>1
  <2>2. Fits(me, At(L, (i - 1) - 1), i - 1, At(L, i - 1))
    BY <2>1
  <2> QED
    BY <2>1, <2>2 DEF At
<1>3. IsLevels(L)
  BY <1>1, <1>2, ShapeIsLevels DEF Fits
<1>4. L[1].rep = me
  <2>1. Fits(me, L[1 - 1], 1 - 1, L[1])
    BY <1>1, <1>2
  <2> QED
    BY <2>1 DEF Fits
<1>5. LadderOf(L)
  <2> SUFFICES ASSUME NEW i \in 1..(Len(L) - 1) PROVE L[i].rep # None /\ PeersOf(L[i]) # {}
    BY DEF LadderOf
  <2>1. i + 1 \in 1..Len(L) /\ (i + 1) - 1 = i /\ i > 0
    BY <1>1
  <2>2. Fits(me, L[(i + 1) - 1], (i + 1) - 1, L[i + 1])
    BY <1>2, <2>1
  <2> QED
    BY <2>1, <2>2 DEF Fits
<1>6. NoRepNoPeersOf(L)
  BY <1>2 DEF Fits, NoRepNoPeersOf
<1>7. OwnGroupIsNoPeerOf(me, L)
  <2> SUFFICES ASSUME NEW i \in 1..Len(L) PROVE PeersOf(L[i]) \cap {me, L[i].rep} = {}
    BY DEF OwnGroupIsNoPeerOf
  <2>1. me \notin PeersOf(L[i]) /\ L[i].rep \notin PeersOf(L[i])
    BY <1>2 DEF Fits
  <2> QED
    BY <2>1
<1>8. RepIsCandidateOf(L)
  <2> SUFFICES ASSUME NEW n \in 1..(Len(L) - 1), At(L, n).rep # None
               PROVE  IsCandidate(L, n, At(L, n).rep)
    BY DEF RepIsCandidateOf
  <2>1. n \in 0..(Len(L) - 1) /\ n > 0
    BY <1>1
  <2>2. Fits(me, At(L, n - 1), n, At(L, n))
    BY <2>1
  <2> QED
    BY <2>1, <2>2 DEF Fits, IsCandidate
<1>9. PeerWithinReachOf(L)
  BY <1>2 DEF Fits, Reached, PeerWithinReachOf
<1> QED
  BY <1>3, <1>4, <1>5, <1>6, <1>7, <1>8, <1>9 DEF WellFormed

-----------------------------------------------------------------------------
(* Replacing a level. *)

\* Level n becomes x and the levels above are dropped.
Cut(L, n, x) == [i \in 1..(n + 1) |-> IF i = n + 1 THEN x ELSE L[i]]

\* The length and the elements of Cut.
LEMMA CutShape ==
  ASSUME NEW L, IsLevels(L), NEW n \in 0..(Len(L) - 1), NEW x \in AnyLevel
  PROVE  /\ Cut(L, n, x) \in Seq(AnyLevel)
         /\ Len(Cut(L, n, x)) = n + 1
         /\ At(Cut(L, n, x), n) = x
         /\ \A m \in 0..(n - 1) : At(Cut(L, n, x), m) = At(L, m)
<1>1. n + 1 \in 1..Len(L) /\ Len(L) \in Nat /\ n \in Nat
  BY LevelsShape
<1>2. Cut(L, n, x) \in [1..(n + 1) -> AnyLevel]
  BY <1>1, LevelsShape DEF Cut
<1>3. Cut(L, n, x) \in Seq(AnyLevel)
  BY <1>1, <1>2, SeqDef
<1>4. Len(Cut(L, n, x)) = n + 1
  BY <1>1, <1>2, <1>3, LenProperties
<1> QED
  BY <1>1, <1>3, <1>4 DEF Cut, At

\* A level that fits keeps the vector well-formed, with nothing above it.
LEMMA CutWellFormed ==
  ASSUME NEW me, NEW L, WellFormed(me, L), NEW n \in 0..(Len(L) - 1),
         NEW x, Fits(me, At(L, n - 1), n, x)
  PROVE  WellFormed(me, Cut(L, n, x))
<1> DEFINE K == Cut(L, n, x)
<1>1. IsLevels(L) /\ x \in AnyLevel
  BY DEF WellFormed, Fits
<1>2. Len(L) \in Nat /\ n \in Nat
  BY <1>1, LevelsShape
<1>3. /\ K \in Seq(AnyLevel) /\ Len(K) = n + 1 /\ At(K, n) = x
      /\ \A m \in 0..(n - 1) : At(K, m) = At(L, m)
  BY <1>1, CutShape
<1> HIDE DEF K
<1>4. ASSUME NEW m \in 0..n PROVE Fits(me, At(K, m - 1), m, At(K, m))
  <2>1. Fits(me, At(L, m - 1), m, At(K, m))
    <3>1. CASE m = n
      BY <1>3, <3>1
    <3>2. CASE m < n
      BY <1>2, <1>3, <3>2, FitsAt
    <3> QED
      BY <1>2, <3>1, <3>2
  <2>2. m > 0 => At(K, m - 1) = At(L, m - 1)
    BY <1>2, <1>3
  <2> QED
    BY <1>2, <2>1, <2>2 DEF Fits
<1> QED
  BY <1>2, <1>3, <1>4, FitsWellFormed DEF K

\* K is L with x for level n; the levels above stay.
Replaced(L, n, x, K) ==
  /\ K \in Seq(AnyLevel) /\ Len(K) = Len(L) /\ At(K, n) = x
  /\ \A m \in 0..(Len(L) - 1) : m # n => At(K, m) = At(L, m)

\* An assignment to an element makes such a vector.
LEMMA ExceptShape ==
  ASSUME NEW L, IsLevels(L), NEW n \in 0..(Len(L) - 1), NEW x \in AnyLevel
  PROVE  Replaced(L, n, x, [L EXCEPT ![n + 1] = x])
<1>1. /\ n + 1 \in 1..Len(L) /\ Len(L) \in Nat /\ n \in Nat
      /\ L \in Seq(AnyLevel)
  BY LevelsShape
<1> QED
  BY <1>1, ExceptSeq DEF At, Replaced

\* A level with the same representative and peers keeps all the levels.
LEMMA ExceptWellFormed ==
  ASSUME NEW me, NEW L, WellFormed(me, L), NEW n \in 0..(Len(L) - 1),
         NEW x, Fits(me, At(L, n - 1), n, x),
         x.rep = At(L, n).rep, PeersOf(x) = PeersOf(At(L, n))
  PROVE  WellFormed(me, [L EXCEPT ![n + 1] = x])
<1> DEFINE K == [L EXCEPT ![n + 1] = x]
<1>1. IsLevels(L) /\ x \in AnyLevel
  BY DEF WellFormed, Fits
<1>2. Len(L) \in Nat \ {0} /\ n \in Nat
  BY <1>1, LevelsShape
<1>3. /\ K \in Seq(AnyLevel) /\ Len(K) = Len(L) /\ At(K, n) = x
      /\ \A m \in 0..(Len(L) - 1) : m # n => At(K, m) = At(L, m)
  <2>1. Replaced(L, n, x, K)
    BY <1>1, ExceptShape
  <2> HIDE DEF K
  <2> QED
    BY <2>1 DEF Replaced
<1> HIDE DEF K
<1>4. ASSUME NEW m \in 0..(Len(L) - 1) PROVE Fits(me, At(K, m - 1), m, At(K, m))
  <2>1. Fits(me, At(L, m - 1), m, At(K, m))
    <3>1. CASE m = n
      BY <1>3, <3>1
    <3>2. CASE m # n
      BY <1>2, <1>3, <3>2, FitsAt
    <3> QED
      BY <3>1, <3>2
  <2>2. m > 0 => /\ At(K, m - 1).rep = At(L, m - 1).rep
                 /\ PeersOf(At(K, m - 1)) = PeersOf(At(L, m - 1))
    <3>1. CASE m = n + 1
      BY <1>2, <1>3, <3>1
    <3>2. CASE m # n + 1
      BY <1>2, <1>3, <3>2
    <3> QED
      BY <3>1, <3>2
  <2> QED
    BY <1>2, <2>1, <2>2 DEF Fits
<1>5. WellFormed(me, K)
  BY <1>2, <1>3, <1>4, FitsWellFormed
<1> QED
  BY <1>5 DEF K

-----------------------------------------------------------------------------
(* What a helper of the handler may make of the levels, K, when it handles   *)
(* level n of a packet from s: the levels below n are the same, level n reads *)
(* no null peer of the sender's level y, and level n and the levels above it  *)
(* are what they were or what the packet may make of them.                    *)

ReadsFrom(x, s, y) ==
  x.rep = y.rep => \A p \in PeersOf(x) : x.peers[p].next_hop = s => p \in PeersOf(y)

\* The peers P of a level became Q: p was a peer, or is new; its route is as it
\* was or leads through s, and its value is as it was or 0.
DerivedPeer(P, Q, s, p) ==
  \/ /\ p \in DOMAIN P
     /\ Q[p].next_hop \in {P[p].next_hop, s}
     /\ Q[p].value = P[p].value
  \/ Q[p].next_hop = s /\ Q[p].value = 0

\* Level z is what a packet from s may make of level x.
Derived(x, z, s) ==
  /\ z.rep_next_hop \in {x.rep_next_hop, s, None}
  /\ z.rep_value = x.rep_value
  /\ \A p \in PeersOf(z) : DerivedPeer(x.peers, z.peers, s, p)

\* A level is decided by its representative and the degrees of its peers.
Changed(x, z) == x.rep # z.rep \/ Degree(x) # Degree(z)

\* Nothing that the election of level n + 1 depends on has changed, and no
\* other level has.
SameBut(L, K, n) ==
  /\ Len(K) = Len(L)
  /\ \A m \in 0..(Len(L) - 1) : m # n => At(K, m) = At(L, m)
  /\ ~Changed(At(L, n), At(K, n))

Handled(me, L, K, s, y, n) ==
  /\ WellFormed(me, K)
  /\ n < Len(K)
  /\ \A m \in 0..(n - 1) : At(K, m) = At(L, m)
  /\ ReadsFrom(At(K, n), s, y)
  /\ Derived(At(L, n), At(K, n), s)
  /\ Len(K) = n + 1 \/ SameBut(L, K, n)

\* A level is derived from itself, and from what it is derived from.
LEMMA DerivedSame == ASSUME NEW x, NEW s PROVE Derived(x, x, s)
  BY DEF Derived, DerivedPeer, PeersOf

\* Deriving twice from the same sender is deriving.
LEMMA DerivedTwice ==
  ASSUME NEW x, NEW y, NEW z, NEW s, Derived(x, y, s), Derived(y, z, s)
  PROVE  Derived(x, z, s)
<1>1. ASSUME NEW p \in PeersOf(z) PROVE DerivedPeer(x.peers, z.peers, s, p)
  <2>1. DerivedPeer(y.peers, z.peers, s, p)
    BY DEF Derived
  <2>2. CASE p \in PeersOf(y) /\ z.peers[p].value = y.peers[p].value
             /\ z.peers[p].next_hop \in {y.peers[p].next_hop, s}
    <3>1. DerivedPeer(x.peers, y.peers, s, p)
      BY <2>2 DEF Derived
    <3> QED
      BY <2>2, <3>1 DEF DerivedPeer
  <2> QED
    BY <2>1, <2>2 DEF DerivedPeer, PeersOf
<1> QED
  BY <1>1 DEF Derived

\* A level without peers is derived from any level with its value.
LEMMA DerivedEmpty ==
  ASSUME NEW x, NEW z, NEW s, PeersOf(z) = {}, z.rep_value = x.rep_value,
         z.rep_next_hop \in {x.rep_next_hop, s, None}
  PROVE  Derived(x, z, s)
  BY DEF Derived

\* A helper that returns early has handled level n.
LEMMA HandledSame ==
  ASSUME NEW me, NEW L, WellFormed(me, L), NEW n \in 0..(Len(L) - 1), NEW s, NEW y,
         ReadsFrom(At(L, n), s, y)
  PROVE  Handled(me, L, L, s, y, n)
<1>1. Len(L) \in Nat
  BY LevelsShape DEF WellFormed
<1> QED
  BY <1>1, DerivedSame DEF Handled, SameBut, Changed

\* A helper that drops the levels above n has handled level n.
LEMMA HandledCut ==
  ASSUME NEW me, NEW L, WellFormed(me, L), NEW n \in 0..(Len(L) - 1), NEW s, NEW y,
         NEW x, Fits(me, At(L, n - 1), n, x), ReadsFrom(x, s, y), Derived(At(L, n), x, s)
  PROVE  Handled(me, L, Cut(L, n, x), s, y, n) /\ At(Cut(L, n, x), n) = x
<1>1. IsLevels(L) /\ x \in AnyLevel /\ n \in Nat
  BY LevelsShape DEF WellFormed, Fits
<1>2. WellFormed(me, Cut(L, n, x))
  BY CutWellFormed
<1>3. /\ Len(Cut(L, n, x)) = n + 1
      /\ At(Cut(L, n, x), n) = x
      /\ \A m \in 0..(n - 1) : At(Cut(L, n, x), m) = At(L, m)
  BY <1>1, CutShape
<1> QED
  BY <1>1, <1>2, <1>3 DEF Handled

\* A helper that keeps level n's representative and degrees has handled it.
LEMMA HandledExcept ==
  ASSUME NEW me, NEW L, WellFormed(me, L), NEW n \in 0..(Len(L) - 1), NEW s, NEW y,
         NEW x, Fits(me, At(L, n - 1), n, x), ReadsFrom(x, s, y), Derived(At(L, n), x, s),
         ~Changed(At(L, n), x)
  PROVE  /\ Handled(me, L, [L EXCEPT ![n + 1] = x], s, y, n)
         /\ At([L EXCEPT ![n + 1] = x], n) = x
<1> DEFINE K == [L EXCEPT ![n + 1] = x]
<1>1. IsLevels(L) /\ x \in AnyLevel /\ n \in Nat /\ Len(L) \in Nat
  BY LevelsShape DEF WellFormed, Fits
<1>2. x.rep = At(L, n).rep /\ PeersOf(x) = PeersOf(At(L, n))
  <2>1. PeersOf(x) = DOMAIN Degree(x) /\ PeersOf(At(L, n)) = DOMAIN Degree(At(L, n))
    BY DEF Degree
  <2> QED
    BY <2>1 DEF Changed
<1>3. WellFormed(me, K)
  BY <1>2, ExceptWellFormed
<1>4. /\ Len(K) = Len(L) /\ At(K, n) = x
      /\ \A m \in 0..(Len(L) - 1) : m # n => At(K, m) = At(L, m)
  <2>1. Replaced(L, n, x, K)
    BY <1>1, ExceptShape
  <2> HIDE DEF K
  <2> QED
    BY <2>1 DEF Replaced
<1> HIDE DEF K
<1>5. SameBut(L, K, n)
  BY <1>4 DEF SameBut
<1>6. Handled(me, L, K, s, y, n)
  BY <1>1, <1>3, <1>4, <1>5 DEF Handled
<1> QED
  BY <1>4, <1>6 DEF K

\* Two helpers, one after the other.
LEMMA HandledTwice ==
  ASSUME NEW me, NEW L, NEW K, NEW J, NEW s, NEW y, NEW n \in Nat,
         Handled(me, L, K, s, y, n), Handled(me, K, J, s, y, n)
  PROVE  Handled(me, L, J, s, y, n)
<1>1. Len(K) \in Nat /\ Len(J) \in Nat
  BY LevelsShape DEF Handled, WellFormed
<1>2. ASSUME NEW m \in 0..(n - 1) PROVE At(J, m) = At(L, m)
  BY <1>1, <1>2 DEF Handled
<1>3. Derived(At(L, n), At(J, n), s)
  BY DerivedTwice DEF Handled
<1>4. Len(J) = n + 1 \/ SameBut(L, J, n)
  BY DEF Handled, SameBut, Changed
<1> QED
  BY <1>2, <1>3, <1>4 DEF Handled

-----------------------------------------------------------------------------
(* SetMaxLevel and the other ways to change level n. *)

\* The length and the elements of SetMaxLevel.
LEMMA SetMaxLevelShape ==
  ASSUME NEW L, IsLevels(L), NEW n \in 0..(Len(L) - 1)
  PROVE  SetMaxLevel(L, n) = Cut(L, n, At(L, n))
<1>1. /\ n + 1 \in 1..Len(L) /\ Len(L) \in Nat /\ n \in Nat
      /\ L \in Seq(AnyLevel) /\ \A i \in 1..Len(L) : L[i] \in AnyLevel
  BY LevelsShape
<1>2. /\ Cut(L, n, At(L, n)) \in Seq(AnyLevel) /\ Len(Cut(L, n, At(L, n))) = n + 1
  BY <1>1, CutShape DEF At
<1>3. \A i \in 1..(n + 1) : Cut(L, n, At(L, n))[i] = L[i]
  BY DEF Cut, At
<1>4. CASE Len(L) <= n + 1
  <2>1. SetMaxLevel(L, n) = L /\ Len(L) = n + 1
    BY <1>1, <1>4 DEF SetMaxLevel
  <2> QED
    BY <1>1, <1>2, <1>3, <2>1, SeqEqual
<1>5. CASE ~(Len(L) <= n + 1)
  <2>1. SetMaxLevel(L, n) = SubSeq(L, 1, n + 1)
    BY <1>5 DEF SetMaxLevel
  <2>2. /\ SubSeq(L, 1, n + 1) \in Seq(AnyLevel) /\ Len(SubSeq(L, 1, n + 1)) = n + 1
        /\ \A i \in 1..(n + 1) : SubSeq(L, 1, n + 1)[i] = L[i]
    BY <1>1, SubSeqProperties
  <2> QED
    BY <1>2, <1>3, <2>1, <2>2, SeqEqual
<1> QED
  BY <1>4, <1>5

\* Dropping the levels above n and changing level n is Cut.
LEMMA SetMaxLevelExcept ==
  ASSUME NEW L, IsLevels(L), NEW n \in 0..(Len(L) - 1), NEW x
  PROVE  /\ SetMaxLevel(L, n)[n + 1] = At(L, n)
         /\ [SetMaxLevel(L, n) EXCEPT ![n + 1] = x] = Cut(L, n, x)
<1>1. n \in Nat /\ SetMaxLevel(L, n) = Cut(L, n, At(L, n))
  BY SetMaxLevelShape, LevelsShape
<1>2. n + 1 \in 1..(n + 1)
  BY <1>1
<1>3. Cut(L, n, At(L, n))[n + 1] = At(L, n)
  BY <1>2 DEF Cut
<1>4. [Cut(L, n, At(L, n)) EXCEPT ![n + 1] = x] = Cut(L, n, x)
  BY <1>2 DEF Cut
<1> QED
  BY <1>1, <1>3, <1>4

\* A level with other peers.
LevelPeers(x, P) == [x EXCEPT !.peers = P]

\* It is a level, and nothing else about it changes.
LEMMA LevelWithPeers ==
  ASSUME NEW x \in AnyLevel, NEW D \in SUBSET Addr, NEW P \in [D -> LubyPeer]
  PROVE  /\ LevelPeers(x, P) \in AnyLevel
         /\ LevelPeers(x, P).level = x.level
         /\ LevelPeers(x, P).rep = x.rep
         /\ LevelPeers(x, P).rep_next_hop = x.rep_next_hop
         /\ LevelPeers(x, P).rep_value = x.rep_value
         /\ LevelPeers(x, P).peers = P
         /\ PeersOf(LevelPeers(x, P)) = D
<1> USE DEF LevelPeers
<1>1. PICK E \in SUBSET Addr : x \in Level(E)
  BY DEF AnyLevel
<1>2. [x EXCEPT !.peers = P] \in Level(D)
  BY <1>1 DEF Level
<1>3. [x EXCEPT !.peers = P] \in AnyLevel
  BY <1>2 DEF AnyLevel
<1> QED
  BY <1>1, <1>3 DEF Level, PeersOf

\* The peers of level n once they have been replaced.
LEMMA PeersReplaced ==
  ASSUME NEW L, IsLevels(L), NEW n \in 0..(Len(L) - 1), NEW P
  PROVE  At(WithPeers(SetMaxLevel(L, n), n, P), n).peers = P
<1> DEFINE x == [At(L, n) EXCEPT !.peers = P]
<1>1. SetMaxLevel(L, n)[n + 1] = At(L, n)
  BY SetMaxLevelExcept
<1>2. WithPeers(SetMaxLevel(L, n), n, P) = [SetMaxLevel(L, n) EXCEPT ![n + 1] = x]
  BY <1>1 DEF WithPeers
<1>3. x.peers = P
  <2>1. n + 1 \in 1..Len(L)
    BY LevelsShape
  <2>2. At(L, n) \in AnyLevel
    BY <2>1, LevelsShape DEF At
  <2>3. PICK E \in SUBSET Addr : At(L, n) \in Level(E)
    BY <2>2 DEF AnyLevel
  <2> QED
    BY <2>3 DEF Level
<1> HIDE DEF x
<1>4. WithPeers(SetMaxLevel(L, n), n, P) = Cut(L, n, x)
  BY <1>2, SetMaxLevelExcept
<1>5. At(Cut(L, n, x), n) = x
  <2>1. n \in Nat
    BY LevelsShape
  <2> QED
    BY <2>1 DEF Cut, At
<1> QED
  BY <1>3, <1>4, <1>5

\* A level with another representative is a level.
LEMMA LevelWithRep ==
  ASSUME NEW x \in AnyLevel, NEW r \in Addr \cup {None}, NEW h \in Addr \cup {None}, NEW d \in Nat
  PROVE  LET z == [x EXCEPT !.rep = r, !.rep_next_hop = h, !.rep_dist = d, !.peers = NoPeers]
         IN  /\ z \in AnyLevel /\ z.level = x.level
             /\ z.rep = r /\ z.rep_next_hop = h /\ z.rep_value = x.rep_value
             /\ PeersOf(z) = {}
<1> DEFINE z == [x EXCEPT !.rep = r, !.rep_next_hop = h, !.rep_dist = d, !.peers = NoPeers]
<1>1. PICK E \in SUBSET Addr : x \in Level(E)
  BY DEF AnyLevel
<1>2. NoPeers \in [{} -> LubyPeer]
  BY DEF NoPeers
<1>3. z \in Level({})
  BY <1>1, <1>2 DEF Level
<1>4. z \in AnyLevel
  BY <1>3 DEF AnyLevel
<1> QED
  BY <1>1, <1>4 DEF Level, PeersOf, NoPeers

-----------------------------------------------------------------------------
(* The helpers of ProcessTopologyChanges.  me handles a packet with the       *)
(* levels M of its neighbour s.                                               *)

Neighbourly(me, s, M) == me \in Addr /\ s \in Addr /\ me # s /\ WellFormed(s, M)

\* P are peers that level n of L may have after a packet from s with level y.
PeersFrom(me, x, s, y, P) ==
  /\ DOMAIN P \cap {me, x.rep} = {}
  /\ x.rep = y.rep => \A p \in DOMAIN P : P[p].next_hop = s => p \in PeersOf(y)
  /\ \A p \in DOMAIN P : /\ P[p].dist \in 1..MaxPeerDistance(x)
                         /\ DerivedPeer(x.peers, P, s, p)

\* Level n with other peers, the levels above kept or dropped.
LEMMA HandledPeers ==
  ASSUME NEW me, NEW L, WellFormed(me, L), NEW n \in 0..(Len(L) - 1), NEW s, NEW y,
         At(L, n).rep # None,
         NEW D \in SUBSET Addr, NEW P \in [D -> LubyPeer], PeersFrom(me, At(L, n), s, y, P)
  PROVE  /\ Handled(me, L, WithPeers(SetMaxLevel(L, n), n, P), s, y, n)
         /\ /\ D = PeersOf(At(L, n))
            /\ \A p \in D : P[p].degree = At(L, n).peers[p].degree
            => Handled(me, L, WithPeers(L, n, P), s, y, n)
<1> DEFINE x == LevelPeers(At(L, n), P)
<1>1. IsLevels(L) /\ DOMAIN P = D
  BY DEF WellFormed
<1>2. n \in Nat /\ Fits(me, At(L, n - 1), n, At(L, n))
  BY <1>1, LevelsShape, FitsAt
<1>3. At(L, n) \in AnyLevel
  BY <1>2 DEF Fits
<1>4. /\ x \in AnyLevel /\ x.level = At(L, n).level /\ x.rep = At(L, n).rep
      /\ x.rep_next_hop = At(L, n).rep_next_hop /\ x.rep_value = At(L, n).rep_value
      /\ x.peers = P /\ PeersOf(x) = D
  BY <1>3, LevelWithPeers
<1>5. WithPeers(SetMaxLevel(L, n), n, P) = Cut(L, n, x)
  <2>1. SetMaxLevel(L, n)[n + 1] = At(L, n)
    BY <1>1, SetMaxLevelExcept
  <2>2. WithPeers(SetMaxLevel(L, n), n, P) = [SetMaxLevel(L, n) EXCEPT ![n + 1] = x]
    BY <2>1 DEF WithPeers, LevelPeers
  <2> HIDE DEF x
  <2>3. [SetMaxLevel(L, n) EXCEPT ![n + 1] = x] = Cut(L, n, x)
    BY <1>1, SetMaxLevelExcept
  <2> QED
    BY <2>2, <2>3
<1>6. WithPeers(L, n, P) = [L EXCEPT ![n + 1] = x]
  BY DEF WithPeers, At, LevelPeers
<1> HIDE DEF x
<1>7. Fits(me, At(L, n - 1), n, x)
  <2>1. MaxPeerDistance(x) = MaxPeerDistance(At(L, n))
    BY <1>4 DEF MaxPeerDistance
  <2>2. Reached(x)
    BY <1>1, <1>4, <2>1 DEF Reached, PeersFrom
  <2>3. me \notin D /\ At(L, n).rep \notin D
    BY <1>1 DEF PeersFrom
  <2> QED
    BY <1>2, <1>4, <2>2, <2>3 DEF Fits
<1>8. ReadsFrom(x, s, y)
  BY <1>1, <1>4 DEF ReadsFrom, PeersFrom
<1>9. Derived(At(L, n), x, s)
  BY <1>1, <1>4 DEF Derived, PeersFrom
<1>10. Handled(me, L, Cut(L, n, x), s, y, n)
  BY <1>7, <1>8, <1>9, HandledCut
<1>11. ASSUME D = PeersOf(At(L, n)), \A p \in D : P[p].degree = At(L, n).peers[p].degree
       PROVE  Handled(me, L, [L EXCEPT ![n + 1] = x], s, y, n)
  <2>1. Degree(x) = Degree(At(L, n))
    BY <1>4, <1>11 DEF Degree
  <2> QED
    BY <1>4, <1>7, <1>8, <1>9, <2>1, HandledExcept DEF Changed
<1> QED
  BY <1>5, <1>6, <1>10, <1>11

\* ProcessTopologyChanges at level 0.
LEMMA NeighbourHeardOK ==
  ASSUME NEW me, NEW L, WellFormed(me, L), NEW s, NEW M, Neighbourly(me, s, M)
  PROVE  Handled(me, L, NeighbourHeard(L, s, M), s, At(M, 0), 0)
<1> DEFINE x == At(L, 0)
           mine == At(L, 0).peers
           degree == NumPeers(At(M, 0))
           entry == [degree |-> degree, value |-> 0, next_hop |-> s, dist |-> 1]
<1>1. 0 \in 0..(Len(L) - 1) /\ 0 \in 0..(Len(M) - 1) /\ IsLevels(L) /\ IsLevels(M)
  BY LevelsShape DEF WellFormed, Neighbourly
<1>2. At(L, 0) \in AnyLevel /\ At(M, 0) \in AnyLevel /\ At(L, 0).rep = me /\ At(M, 0).rep = s
  BY <1>1, FitsAt DEF Fits, Neighbourly
<1>3. me \notin DOMAIN mine /\ \A p \in DOMAIN mine : mine[p].dist \in 1..MaxPeerDistance(x)
  BY <1>1, FitsAt DEF Fits, PeersOf, Reached
<1>4. /\ DOMAIN mine \in SUBSET Addr /\ mine \in [DOMAIN mine -> LubyPeer] /\ degree \in Nat
      /\ DOMAIN mine = PeersOf(At(L, 0))
  BY <1>2, LevelFields DEF PeersOf
<1>5. entry \in LubyPeer /\ 1 \in 1..MaxPeerDistance(x)
  <2>1. entry \in LubyPeer
    BY <1>4 DEF LubyPeer, Neighbourly
  <2>2. MaxPeerDistance(x) \in Nat \ {0}
    BY <1>2, MaxPeerDistanceType
  <2> HIDE DEF x
  <2> QED
    BY <2>1, <2>2
<1>6. /\ me # s /\ At(L, 0).rep # At(M, 0).rep /\ s \in Addr
      /\ me # None
  BY <1>2, AddrAssumption DEF Neighbourly, None
<1>7. ASSUME s \notin DOMAIN mine
      PROVE  Handled(me, L, NeighbourHeard(L, s, M), s, At(M, 0), 0)
  <2> DEFINE D == DOMAIN mine \cup {s}
             P == [p \in D |-> IF p = s THEN entry ELSE mine[p]]
  <2>1. NeighbourHeard(L, s, M) = WithPeers(SetMaxLevel(L, 0), 0, P)
    BY <1>7 DEF NeighbourHeard
  <2>2. ASSUME NEW p \in D
        PROVE  /\ P[p] \in LubyPeer /\ P[p].dist \in 1..MaxPeerDistance(x)
               /\ DerivedPeer(x.peers, P, s, p)
    <3>1. CASE p = s
      <4>1. P[p] = entry /\ entry.dist = 1 /\ entry.next_hop = s /\ entry.value = 0
        BY <3>1
      <4> HIDE DEF P, entry
      <4> QED
        BY <1>5, <4>1 DEF DerivedPeer
    <3>2. CASE p \in DOMAIN mine
      <4>1. P[p] = mine[p]
        BY <1>7, <3>2
      <4> HIDE DEF P
      <4> QED
        BY <1>3, <1>4, <3>2, <4>1 DEF DerivedPeer
    <3> QED
      BY <3>1, <3>2
  <2>3. P \in [D -> LubyPeer] /\ DOMAIN P = D
    <3>1. P = [p \in D |-> P[p]]
      OBVIOUS
    <3> HIDE DEF P, D
    <3> QED
      BY <2>2, <3>1
  <2>4. D \cap {me, x.rep} = {} /\ D \in SUBSET Addr
    BY <1>2, <1>3, <1>4, <1>6
  <2> HIDE DEF P
  <2>5. PeersFrom(me, x, s, At(M, 0), P)
    BY <1>6, <2>2, <2>3, <2>4 DEF PeersFrom
  <2> HIDE DEF D
  <2>6. Handled(me, L, WithPeers(SetMaxLevel(L, 0), 0, P), s, At(M, 0), 0)
    BY <1>1, <1>2, <1>6, <2>3, <2>4, <2>5, HandledPeers
  <2> QED
    BY <2>1, <2>6
<1>8. ASSUME s \in DOMAIN mine, mine[s].degree # degree
      PROVE  Handled(me, L, NeighbourHeard(L, s, M), s, At(M, 0), 0)
  <2> DEFINE D == DOMAIN mine
             P == [mine EXCEPT ![s].degree = degree]
  <2>1. NeighbourHeard(L, s, M) = WithPeers(SetMaxLevel(L, 0), 0, P)
    BY <1>8 DEF NeighbourHeard
  <2> HIDE DEF degree
  <2>2. ASSUME NEW p \in D
        PROVE  /\ P[p] \in LubyPeer /\ P[p].dist \in 1..MaxPeerDistance(x)
               /\ DerivedPeer(x.peers, P, s, p)
    <3>1. mine[p] \in LubyPeer /\ mine[p].dist \in 1..MaxPeerDistance(x)
      BY <1>3, <1>4
    <3>2. /\ P[p] \in LubyPeer /\ P[p].dist = mine[p].dist
          /\ P[p].next_hop = mine[p].next_hop /\ P[p].value = mine[p].value
      BY <1>4, <3>1 DEF LubyPeer
    <3> HIDE DEF P
    <3> QED
      BY <3>1, <3>2 DEF DerivedPeer
  <2>3. P \in [D -> LubyPeer] /\ DOMAIN P = D
    <3>1. P = [p \in D |-> P[p]]
      OBVIOUS
    <3> HIDE DEF P, D
    <3> QED
      BY <2>2, <3>1
  <2>4. D \cap {me, x.rep} = {} /\ D \in SUBSET Addr
    BY <1>2, <1>3, <1>4, <1>6
  <2> HIDE DEF P
  <2>5. PeersFrom(me, x, s, At(M, 0), P)
    BY <1>6, <2>2, <2>3, <2>4 DEF PeersFrom
  <2> HIDE DEF D
  <2>6. Handled(me, L, WithPeers(SetMaxLevel(L, 0), 0, P), s, At(M, 0), 0)
    BY <1>1, <1>2, <1>6, <2>3, <2>4, <2>5, HandledPeers
  <2> QED
    BY <2>1, <2>6
<1>9. ASSUME s \in DOMAIN mine, mine[s].degree = degree
      PROVE  Handled(me, L, NeighbourHeard(L, s, M), s, At(M, 0), 0)
  <2>1. NeighbourHeard(L, s, M) = L
    BY <1>9 DEF NeighbourHeard
  <2>2. ReadsFrom(At(L, 0), s, At(M, 0))
    BY <1>6 DEF ReadsFrom
  <2> QED
    BY <1>1, <2>1, <2>2, HandledSame
<1> QED
  BY <1>7, <1>8, <1>9

\* A route that stays is a route within reach, and leads through the sender only
\* if the sender has one.
LEMMA RouteUpdatedType ==
  ASSUME NEW peer \in LubyPeer, NEW his, NEW s \in Addr, NEW p, NEW max \in Nat,
         p \in DOMAIN his => his[p] \in LubyPeer,
         peer.next_hop = s => p \in DOMAIN his /\ his[p].dist + 1 <= max,
         peer.dist \in 1..max
  PROVE  LET z == RouteUpdated(peer, his, s, p)
         IN  /\ z \in LubyPeer
             /\ z.next_hop = s => p \in DOMAIN his
             /\ z.next_hop \in {peer.next_hop, s} /\ z.value = peer.value
             /\ z.dist \in 1..max
<1>1. CASE p \in DOMAIN his
  <2> DEFINE via == peer.next_hop = s
             grown == IF via THEN peer.dist + 1 ELSE peer.dist
             shorter == his[p].dist + 1 < grown
             degree == IF via \/ shorter THEN his[p].degree ELSE peer.degree
             hop == IF shorter THEN s ELSE peer.next_hop
             dist == IF shorter THEN his[p].dist + 1 ELSE grown
  <2>1. his[p].degree \in Nat /\ his[p].dist \in Nat
    BY <1>1 DEF LubyPeer
  <2>2. degree \in Nat /\ hop \in Addr /\ hop \in {peer.next_hop, s} /\ dist \in 1..max
    BY <2>1 DEF LubyPeer
  <2>3. RouteUpdated(peer, his, s, p)
          = [peer EXCEPT !.degree = degree, !.next_hop = hop, !.dist = dist]
    BY <1>1 DEF RouteUpdated
  <2> HIDE DEF degree, hop, dist
  <2>4. /\ RouteUpdated(peer, his, s, p) \in LubyPeer
        /\ RouteUpdated(peer, his, s, p).next_hop = hop
        /\ RouteUpdated(peer, his, s, p).value = peer.value
        /\ RouteUpdated(peer, his, s, p).dist = dist
    <3>1. dist \in Nat
      BY <2>2
    <3>2. ASSUME NEW r \in LubyPeer
          PROVE  LET w == [r EXCEPT !.degree = degree, !.next_hop = hop, !.dist = dist]
                 IN  w \in LubyPeer /\ w.next_hop = hop /\ w.dist = dist /\ w.value = r.value
      BY <2>2, <3>1 DEF LubyPeer
    <3> QED
      BY <2>3, <3>2
  <2> DEFINE z == RouteUpdated(peer, his, s, p)
  <2>5. z \in LubyPeer /\ z.next_hop \in {peer.next_hop, s} /\ z.value = peer.value
    BY <2>2, <2>4
  <2>6. z.dist \in 1..max
    BY <2>2, <2>4
  <2> HIDE DEF z
  <2> QED
    BY <1>1, <2>5, <2>6 DEF z
<1>2. CASE p \notin DOMAIN his
  <2>1. RouteUpdated(peer, his, s, p) = [peer EXCEPT !.degree = @, !.next_hop = @, !.dist = @]
    BY <1>2 DEF RouteUpdated
  <2>2. RouteUpdated(peer, his, s, p) = peer
    BY <2>1 DEF LubyPeer
  <2> QED
    BY <1>2, <2>2
<1> QED
  BY <1>1, <1>2

\* The peers of a member of my group, merged with mine.
LEMMA GroupMemberHeardOK ==
  ASSUME NEW me, NEW L, WellFormed(me, L), NEW s, NEW M, Neighbourly(me, s, M),
         NEW n \in 1..(Len(L) - 1), n < Len(M),
         At(L, n).rep # None, At(L, n).rep = At(M, n).rep
  PROVE  Handled(me, L, GroupMemberHeard(me, L, s, M, n), s, At(M, n), n)
<1> DEFINE lev == At(L, n)
           mine == lev.peers
           his == At(M, n).peers
           kept == {p \in DOMAIN mine : ~RouteLost(me, lev, his, s, p)}
           new == {p \in DOMAIN his \ kept : Learnable(me, At(M, n), p)}
           updated(p) == RouteUpdated(mine[p], his, s, p)
           learned(p) == [degree |-> his[p].degree, value |-> 0,
                          next_hop |-> s, dist |-> his[p].dist + 1]
           P == [p \in kept \cup new |-> IF p \in kept THEN updated(p) ELSE learned(p)]
           changed == \/ kept # DOMAIN mine
                      \/ new # {}
                      \/ \E p \in kept : updated(p).degree # mine[p].degree
           D == kept \cup new
           max == MaxPeerDistance(lev)
<1>1. n \in 0..(Len(L) - 1) /\ n \in 0..(Len(M) - 1) /\ IsLevels(L) /\ IsLevels(M)
  BY LevelsShape DEF WellFormed, Neighbourly
<1>2. Fits(me, At(L, n - 1), n, lev) /\ Fits(s, At(M, n - 1), n, At(M, n))
  BY <1>1, FitsAt DEF Neighbourly
<1>3. lev \in AnyLevel /\ At(M, n) \in AnyLevel /\ s \in Addr
  BY <1>2 DEF Fits, Neighbourly
<1>4. /\ DOMAIN mine \subseteq Addr /\ mine \in [DOMAIN mine -> LubyPeer]
      /\ DOMAIN his \subseteq Addr /\ his \in [DOMAIN his -> LubyPeer]
      /\ DOMAIN mine = PeersOf(lev) /\ DOMAIN his = PeersOf(At(M, n))
  BY <1>3, LevelFields DEF PeersOf
<1>5. /\ me \notin DOMAIN mine /\ lev.rep \notin DOMAIN mine /\ lev.rep \notin DOMAIN his
      /\ \A p \in DOMAIN mine : mine[p].dist \in 1..max
  BY <1>2 DEF Fits, PeersOf, Reached
<1>6. GroupMemberHeard(me, L, s, M, n)
        = WithPeers(IF changed THEN SetMaxLevel(L, n) ELSE L, n, P)
  BY DEF GroupMemberHeard, Merged
<1>7. max \in Nat \ {0} /\ MaxPeerDistance(At(M, n)) = max
  <2>1. max \in Nat \ {0}
    BY <1>3, MaxPeerDistanceType
  <2>2. lev.level = At(M, n).level
    BY <1>2 DEF Fits
  <2> QED
    BY <2>1, <2>2 DEF MaxPeerDistance
<1> HIDE DEF lev, max
<1>8. ASSUME NEW p \in kept
      PROVE  /\ P[p] \in LubyPeer /\ (P[p].next_hop = s => p \in DOMAIN his)
             /\ P[p].dist \in 1..max /\ DerivedPeer(mine, P, s, p)
  <2>1. mine[p] \in LubyPeer /\ mine[p].dist \in 1..max
        /\ (p \in DOMAIN his => his[p] \in LubyPeer)
    BY <1>4, <1>5
  <2>2. mine[p].next_hop = s => p \in DOMAIN his /\ his[p].dist + 1 <= max
    <3>1. ~RouteLost(me, lev, his, s, p)
      OBVIOUS
    <3>2. p \in DOMAIN his => his[p].dist \in Nat
      BY <2>1 DEF LubyPeer
    <3> QED
      BY <1>7, <3>1, <3>2 DEF RouteLost, max
  <2> DEFINE z == RouteUpdated(mine[p], his, s, p)
  <2>3. /\ z \in LubyPeer /\ (z.next_hop = s => p \in DOMAIN his)
        /\ z.next_hop \in {mine[p].next_hop, s} /\ z.value = mine[p].value
        /\ z.dist \in 1..max
    BY <1>3, <1>7, <2>1, <2>2, RouteUpdatedType
  <2>4. P[p] = z /\ p \in DOMAIN mine
    OBVIOUS
  <2> HIDE DEF P, z, kept
  <2> QED
    BY <2>3, <2>4 DEF DerivedPeer
<1>9. ASSUME NEW p \in new, p \notin kept
      PROVE  /\ P[p] \in LubyPeer /\ p \in DOMAIN his /\ p # me
             /\ P[p].dist \in 1..max /\ DerivedPeer(mine, P, s, p)
  <2>1. his[p] \in LubyPeer /\ p \in DOMAIN his /\ p # me /\ his[p].dist + 1 <= max
    BY <1>4, <1>7 DEF Learnable
  <2>2. P[p] = [degree |-> his[p].degree, value |-> 0, next_hop |-> s, dist |-> his[p].dist + 1]
    BY <1>9
  <2> HIDE DEF P, new
  <2>3. his[p].dist + 1 \in 1..max /\ his[p].degree \in Nat
    BY <1>7, <2>1 DEF LubyPeer
  <2> QED
    BY <1>3, <2>1, <2>2, <2>3 DEF LubyPeer, DerivedPeer
<1>10. P \in [D -> LubyPeer] /\ DOMAIN P = D
  <2>1. P = [p \in D |-> P[p]]
    OBVIOUS
  <2>2. \A p \in D : p \notin kept => p \in new
    OBVIOUS
  <2> HIDE DEF P, kept, new
  <2> QED
    BY <1>8, <1>9, <2>1, <2>2
<1>11. D \in SUBSET Addr /\ D \cap {me, lev.rep} = {}
  BY <1>4, <1>5, <1>9
<1>12. ~changed => D = PeersOf(lev) /\ \A p \in D : P[p].degree = mine[p].degree
  <2> SUFFICES ASSUME ~changed PROVE D = PeersOf(lev) /\ \A p \in D : P[p].degree = mine[p].degree
    OBVIOUS
  <2>1. kept = DOMAIN mine /\ new = {} /\ \A p \in kept : updated(p).degree = mine[p].degree
    OBVIOUS
  <2>2. D = kept /\ \A p \in kept : P[p] = updated(p)
    BY <2>1
  <2> HIDE DEF P, kept, new
  <2> QED
    BY <1>4, <2>1, <2>2
<1>13. PeersFrom(me, lev, s, At(M, n), P)
  <2>1. \A p \in D : p \notin kept => p \in new
    OBVIOUS
  <2> HIDE DEF P, kept, new, D
  <2> QED
    BY <1>4, <1>8, <1>9, <1>10, <1>11, <2>1 DEF PeersFrom, max
<1> HIDE DEF D, P, changed, kept, new
<1>14. /\ Handled(me, L, WithPeers(SetMaxLevel(L, n), n, P), s, At(M, n), n)
       /\ /\ D = PeersOf(lev)
          /\ \A p \in D : P[p].degree = mine[p].degree
          => Handled(me, L, WithPeers(L, n, P), s, At(M, n), n)
  BY <1>1, <1>10, <1>11, <1>13, HandledPeers DEF lev
<1> QED
  BY <1>6, <1>12, <1>14

\* The group of a neighbour in another group.
LEMMA PeerGroupHeardOK ==
  ASSUME NEW me, NEW L, WellFormed(me, L), NEW s, NEW M, Neighbourly(me, s, M),
         NEW n \in 1..(Len(L) - 1), n < Len(M),
         At(L, n).rep # None, At(M, n).rep # None, At(L, n).rep # At(M, n).rep
  PROVE  Handled(me, L, PeerGroupHeard(me, L, s, M, n), s, At(M, n), n)
<1> DEFINE mine == At(L, n).peers
           r == At(M, n).rep
           degree == NumPeers(At(M, n))
           lost(p) == \/ p = r /\ mine[p].dist > 1
                      \/ mine[p].next_hop = s /\ p # r
                      \/ mine[p].next_hop = s /\ mine[p].degree # degree /\ degree = 0
           kept == {p \in DOMAIN mine : ~lost(p)}
           new == NewPeerGroup(me, r, kept)
           changedDegree(p) == p = r /\ mine[p].next_hop = s /\ mine[p].degree # degree
           updated(p) == [mine[p] EXCEPT !.degree = IF changedDegree(p) THEN degree ELSE @,
                                         !.dist = IF p = r THEN 1 ELSE @]
           learned == [degree |-> degree, value |-> 0, next_hop |-> s, dist |-> 1]
           P == [p \in kept \cup new |-> IF p \in kept THEN updated(p) ELSE learned]
           changed == kept # DOMAIN mine \/ new # {} \/ \E p \in kept : changedDegree(p)
           D == kept \cup new
           max == MaxPeerDistance(At(L, n))
<1>1. n \in 0..(Len(L) - 1) /\ n \in 0..(Len(M) - 1) /\ IsLevels(L) /\ IsLevels(M)
  BY LevelsShape DEF WellFormed, Neighbourly
<1>2. Fits(me, At(L, n - 1), n, At(L, n)) /\ At(M, n) \in AnyLevel /\ s \in Addr
  BY <1>1, FitsAt DEF Neighbourly, Fits
<1>3. At(L, n) \in AnyLevel
  BY <1>2 DEF Fits
<1>4. /\ DOMAIN mine \subseteq Addr /\ mine \in [DOMAIN mine -> LubyPeer]
      /\ DOMAIN mine = PeersOf(At(L, n)) /\ degree \in Nat /\ r \in Addr
  BY <1>2, <1>3, LevelFields DEF PeersOf
<1>5. /\ me \notin DOMAIN mine /\ At(L, n).rep \notin DOMAIN mine
      /\ \A p \in DOMAIN mine : mine[p].dist \in 1..max
  BY <1>2 DEF Fits, PeersOf, Reached
<1>6. PeerGroupHeard(me, L, s, M, n)
        = WithPeers(IF changed THEN SetMaxLevel(L, n) ELSE L, n, P)
  BY DEF PeerGroupHeard, Merged
<1>7. 1 \in 1..max
  <2>1. max \in Nat \ {0}
    BY <1>3, MaxPeerDistanceType
  <2> HIDE DEF max
  <2> QED
    BY <2>1
<1> HIDE DEF max
<1>8. ASSUME NEW p \in kept
      PROVE  /\ P[p] \in LubyPeer /\ P[p].dist \in 1..max /\ DerivedPeer(mine, P, s, p)
             /\ (~changedDegree(p) => P[p].degree = mine[p].degree)
  <2>1. mine[p] \in LubyPeer /\ mine[p].dist \in 1..max /\ p \in DOMAIN mine
    BY <1>4, <1>5
  <2> DEFINE a == IF changedDegree(p) THEN degree ELSE mine[p].degree
             d == IF p = r THEN 1 ELSE mine[p].dist
  <2>2. P[p] = [mine[p] EXCEPT !.degree = a, !.dist = d]
    OBVIOUS
  <2>3. a \in Nat /\ d \in 1..max /\ d \in Nat /\ (~changedDegree(p) => a = mine[p].degree)
    BY <1>4, <1>7, <2>1 DEF LubyPeer
  <2> HIDE DEF P, a, d, kept, degree, r, changedDegree
  <2>4. /\ P[p] \in LubyPeer /\ P[p].dist = d /\ P[p].degree = a
        /\ P[p].next_hop = mine[p].next_hop /\ P[p].value = mine[p].value
    BY <2>1, <2>2, <2>3 DEF LubyPeer
  <2> QED
    BY <2>1, <2>3, <2>4 DEF DerivedPeer
<1>9. ASSUME NEW p \in D, p \notin kept
      PROVE  /\ P[p] \in LubyPeer /\ P[p].dist \in 1..max /\ DerivedPeer(mine, P, s, p)
  <2>1. P[p] = [degree |-> degree, value |-> 0, next_hop |-> s, dist |-> 1]
    BY <1>9
  <2> HIDE DEF P, degree
  <2> QED
    BY <1>2, <1>4, <1>7, <2>1 DEF LubyPeer, DerivedPeer
<1>10. P \in [D -> LubyPeer] /\ DOMAIN P = D
  <2>1. P = [p \in D |-> P[p]]
    OBVIOUS
  <2> HIDE DEF P, kept, D
  <2> QED
    BY <1>8, <1>9, <2>1
<1>11. D \in SUBSET Addr /\ D \cap {me, At(L, n).rep} = {}
  BY <1>4, <1>5 DEF NewPeerGroup
<1>12. ~changed => D = PeersOf(At(L, n)) /\ \A p \in D : P[p].degree = mine[p].degree
  <2> SUFFICES ASSUME ~changed
               PROVE  D = PeersOf(At(L, n)) /\ \A p \in D : P[p].degree = mine[p].degree
    OBVIOUS
  <2>1. kept = DOMAIN mine /\ new = {} /\ \A p \in kept : ~changedDegree(p)
    OBVIOUS
  <2>2. D = kept
    BY <2>1
  <2> HIDE DEF P, kept, new, changedDegree
  <2> QED
    BY <1>4, <1>8, <2>1, <2>2
<1>13. PeersFrom(me, At(L, n), s, At(M, n), P)
  <2> HIDE DEF P, kept, new, D
  <2> QED
    BY <1>8, <1>9, <1>10, <1>11 DEF PeersFrom, max
<1> HIDE DEF D, P, changed
<1>14. /\ Handled(me, L, WithPeers(SetMaxLevel(L, n), n, P), s, At(M, n), n)
       /\ /\ D = PeersOf(At(L, n))
          /\ \A p \in D : P[p].degree = mine[p].degree
          => Handled(me, L, WithPeers(L, n, P), s, At(M, n), n)
  BY <1>1, <1>10, <1>11, <1>13, HandledPeers
<1> QED
  BY <1>6, <1>12, <1>14

\* Peers that are removed.
LEMMA RemovePeersOK ==
  ASSUME NEW me, NEW L, WellFormed(me, L), NEW n \in 0..(Len(L) - 1), NEW s, NEW y,
         At(L, n).rep # None, y.rep = None, NEW gone
  PROVE  /\ Handled(me, L, RemovePeers(L, n, gone), s, y, n)
         /\ PeersOf(At(RemovePeers(L, n, gone), n)) \subseteq PeersOf(At(L, n))
<1> DEFINE mine == At(L, n).peers
           D == PeersOf(At(L, n)) \ gone
           P == Restrict(mine, D)
<1>1. IsLevels(L) /\ Fits(me, At(L, n - 1), n, At(L, n)) /\ n \in Nat
  BY FitsAt, LevelsShape DEF WellFormed
<1>2. PeersOf(At(L, n)) \subseteq Addr /\ mine \in [PeersOf(At(L, n)) -> LubyPeer]
  BY <1>1, LevelFields DEF Fits
<1>3. P = [p \in D |-> mine[p]]
  BY DEF Restrict
<1>4. P \in [D -> LubyPeer] /\ D \in SUBSET Addr
  BY <1>2, <1>3
<1>5. PeersFrom(me, At(L, n), s, y, P)
  <2>1. DOMAIN P = D /\ D \cap {me, At(L, n).rep} = {}
    BY <1>1, <1>3 DEF Fits
  <2>2. ASSUME NEW p \in D
        PROVE  /\ P[p].dist \in 1..MaxPeerDistance(At(L, n))
               /\ DerivedPeer(mine, P, s, p)
    <3>1. P[p] = mine[p]
      BY <1>3
    <3> HIDE DEF P
    <3> QED
      BY <1>1, <3>1 DEF Fits, Reached, DerivedPeer, PeersOf
  <2> HIDE DEF P, D
  <2> QED
    BY <2>1, <2>2 DEF PeersFrom
<1>6. ReadsFrom(At(L, n), s, y)
  BY DEF ReadsFrom
<1>7. ReadsFrom(At(L, n), s, y) => Handled(me, L, L, s, y, n)
  BY HandledSame
<1>8. gone # {} => RemovePeers(L, n, gone) = WithPeers(SetMaxLevel(L, n), n, P)
  BY DEF RemovePeers
<1>9. DOMAIN P \subseteq PeersOf(At(L, n))
  BY <1>3
<1> HIDE DEF D, P
<1> HIDE DEF mine
<1>10. /\ Handled(me, L, WithPeers(SetMaxLevel(L, n), n, P), s, y, n)
       /\ At(WithPeers(SetMaxLevel(L, n), n, P), n).peers = P
  <2>1. Handled(me, L, WithPeers(SetMaxLevel(L, n), n, P), s, y, n)
    BY <1>4, <1>5, HandledPeers
  <2>2. At(WithPeers(SetMaxLevel(L, n), n, P), n).peers = P
    BY <1>1, PeersReplaced DEF Fits
  <2> QED
    BY <2>1, <2>2
<1>11. CASE gone = {}
  <2>1. RemovePeers(L, n, gone) = L
    BY <1>11 DEF RemovePeers
  <2> QED
    BY <1>6, <1>7, <2>1
<1>12. CASE gone # {}
  <2>1. PeersOf(At(RemovePeers(L, n, gone), n)) = DOMAIN P
    BY <1>8, <1>10, <1>12 DEF PeersOf
  <2> QED
    BY <1>8, <1>9, <1>10, <1>12, <2>1
<1> QED
  BY <1>11, <1>12

\* The checks that end ProcessTopologyChanges find nothing to drop that the
\* levels above would miss.
LEMMA DropUnsupportedLevelsOK ==
  ASSUME NEW me, NEW L, NEW K, NEW s, NEW y, NEW n \in Nat \ {0}, Handled(me, L, K, s, y, n)
  PROVE  Handled(me, L, DropUnsupportedLevels(me, K, n), s, y, n)
<1>1. /\ WellFormed(me, K) /\ IsLevels(K) /\ n \in 0..(Len(K) - 1) /\ ReadsFrom(At(K, n), s, y)
  BY LevelsShape DEF Handled, WellFormed
<1>2. Fits(me, At(K, n - 1), n, At(K, n))
  BY <1>1, FitsAt
<1>3. Handled(me, K, SetMaxLevel(K, n), s, y, n)
  <2>1. Handled(me, K, Cut(K, n, At(K, n)), s, y, n)
    <3>1. Derived(At(K, n), At(K, n), s)
      BY DerivedSame
    <3> QED
      BY <1>1, <1>2, <3>1, HandledCut
  <2> QED
    BY <1>1, <2>1, SetMaxLevelShape
<1>4. Handled(me, L, SetMaxLevel(K, n), s, y, n)
  BY <1>3, HandledTwice
<1> DEFINE L1 == IF PeersOf(At(K, n)) = {} /\ Len(K) - 1 > n THEN SetMaxLevel(K, n) ELSE K
<1>5. Handled(me, L, L1, s, y, n)
  BY <1>4
<1>6. DropUnsupportedLevels(me, K, n) = IF At(L1, n).rep = me /\ PeersOf(At(L1, n - 1)) = {}
                                        THEN SetMaxLevel(L1, n - 1)
                                        ELSE L1
  BY DEF DropUnsupportedLevels
<1> HIDE DEF L1
<1>7. WellFormed(me, L1) /\ n \in 0..(Len(L1) - 1)
  BY <1>5, LevelsShape DEF Handled, WellFormed
<1>8. PeersOf(At(L1, n - 1)) # {}
  <2>1. Fits(me, At(L1, n - 1), n, At(L1, n)) /\ n > 0
    BY <1>7, FitsAt
  <2> QED
    BY <2>1 DEF Fits
<1> QED
  BY <1>5, <1>6, <1>8

\* ProcessTopologyChanges at any level.
LEMMA ProcessTopologyChangesOK ==
  ASSUME NEW me, NEW L, WellFormed(me, L), NEW s, NEW M, Neighbourly(me, s, M),
         NEW n \in 0..(Len(L) - 1), n < Len(M)
  PROVE  Handled(me, L, ProcessTopologyChanges(me, L, s, M, n), s, At(M, n), n)
<1>1. IsLevels(L) /\ Len(L) \in Nat /\ n \in Nat
  BY LevelsShape DEF WellFormed
<1>2. CASE n = 0
  BY <1>2, NeighbourHeardOK DEF ProcessTopologyChanges
<1>3. CASE n # 0 /\ At(L, n).rep = None
  <2>1. PeersOf(At(L, n)) = {}
    BY <1>1, <1>3, FitsAt DEF Fits
  <2>2. ReadsFrom(At(L, n), s, At(M, n))
    BY <2>1 DEF ReadsFrom
  <2> QED
    BY <1>3, <2>2, HandledSame DEF ProcessTopologyChanges
<1>4. CASE n # 0 /\ At(L, n).rep # None /\ At(M, n).rep = None
  BY <1>4, RemovePeersOK DEF ProcessTopologyChanges
<1>5. CASE n # 0 /\ At(L, n).rep # None /\ At(M, n).rep # None
  <2> DEFINE K == IF At(L, n).rep = At(M, n).rep
                  THEN GroupMemberHeard(me, L, s, M, n)
                  ELSE PeerGroupHeard(me, L, s, M, n)
  <2>1. n \in 1..(Len(L) - 1)
    BY <1>1, <1>5
  <2>2. Handled(me, L, K, s, At(M, n), n)
    BY <1>5, <2>1, GroupMemberHeardOK, PeerGroupHeardOK
  <2>3. ProcessTopologyChanges(me, L, s, M, n) = DropUnsupportedLevels(me, K, n)
    BY <1>5 DEF ProcessTopologyChanges
  <2> HIDE DEF K
  <2> QED
    BY <1>1, <1>5, <2>2, <2>3, DropUnsupportedLevelsOK
<1> QED
  BY <1>2, <1>3, <1>4, <1>5

-----------------------------------------------------------------------------
(* A new level. *)

\* A level that has just been started.
LEMMA NewLevelOK ==
  ASSUME NEW n \in Nat
  PROVE  LET x == NewLevel(n)
         IN  /\ x \in AnyLevel /\ x.level = n /\ x.rep = None /\ x.rep_next_hop = None
             /\ x.rep_value = 0 /\ PeersOf(x) = {}
<1> DEFINE x == NewLevel(n)
<1>1. NoPeers \in [{} -> LubyPeer]
  BY DEF NoPeers
<1>2. x \in Level({})
  BY <1>1 DEF NewLevel, Level
<1>3. x \in AnyLevel
  BY <1>2 DEF AnyLevel
<1> QED
  BY <1>3 DEF NewLevel, PeersOf, NoPeers

\* J is K, or K with a new level on top.
Grown(K, J) ==
  \/ J = K
  \/ /\ Len(J) = Len(K) + 1
     /\ At(J, Len(K)) = NewLevel(Len(K))
     /\ \A m \in 0..(Len(K) - 1) : At(J, m) = At(K, m)

\* A new level is empty and stands above one that is not.
LEMMA TryToStartNewLevelOK ==
  ASSUME NEW me, NEW K, WellFormed(me, K)
  PROVE  WellFormed(me, TryToStartNewLevel(K)) /\ Grown(K, TryToStartNewLevel(K))
<1> DEFINE x == NewLevel(Len(K))
           J == Append(K, x)
<1>1. /\ IsLevels(K) /\ Len(K) \in Nat \ {0} /\ K \in Seq(AnyLevel)
      /\ \A i \in 1..Len(K) : K[i].level = i - 1
  BY LevelsShape DEF WellFormed
<1>2. Top(K).level + 1 = Len(K) /\ Top(K) = At(K, Len(K) - 1)
  BY <1>1 DEF Top, At
<1>3. SUFFICES ASSUME Top(K).rep # None /\ PeersOf(Top(K)) # {}
               PROVE  WellFormed(me, J) /\ Grown(K, J)
  BY <1>2 DEF TryToStartNewLevel, Grown
<1>4. /\ x \in AnyLevel /\ x.level = Len(K) /\ x.rep = None /\ x.rep_next_hop = None
      /\ PeersOf(x) = {}
  BY <1>1, NewLevelOK
<1> HIDE DEF x
<1>5. /\ J \in Seq(AnyLevel) /\ Len(J) = Len(K) + 1 /\ At(J, Len(K)) = x
      /\ \A m \in 0..(Len(K) - 1) : At(J, m) = At(K, m)
  BY <1>1, <1>4, AppendProperties DEF At
<1> HIDE DEF J
<1>6. ASSUME NEW m \in 0..(Len(J) - 1) PROVE Fits(me, At(J, m - 1), m, At(J, m))
  <2>1. CASE m = Len(K)
    <3>1. At(J, m - 1) = Top(K) /\ m > 0
      BY <1>1, <1>2, <1>5, <2>1
    <3>2. me \notin PeersOf(x) /\ x.rep \notin PeersOf(x) /\ Reached(x)
      BY <1>4 DEF Reached
    <3> QED
      BY <1>1, <1>3, <1>4, <1>5, <2>1, <3>1, <3>2 DEF Fits
  <2>2. CASE m \in 0..(Len(K) - 1)
    <3>1. Fits(me, At(K, m - 1), m, At(K, m))
      BY <1>1, <2>2, FitsAt
    <3>2. m > 0 => At(J, m - 1) = At(K, m - 1)
      BY <1>1, <1>5, <2>2
    <3> QED
      BY <1>1, <1>5, <2>2, <3>1, <3>2 DEF Fits
  <2> QED
    BY <1>1, <1>5, <2>1, <2>2
<1>7. WellFormed(me, J)
  <2>1. Len(J) > 0
    BY <1>1, <1>5
  <2> QED
    BY <1>5, <1>6, <2>1, FitsWellFormed
<1>8. Grown(K, J)
  BY <1>5 DEF Grown, x
<1> QED
  BY <1>7, <1>8

-----------------------------------------------------------------------------
(* The helpers of HandleRepElection, which give level n no peers that it did  *)
(* not have.                                                                  *)

Elected(me, L, K, s, y, n) ==
  Handled(me, L, K, s, y, n) /\ PeersOf(At(K, n)) \subseteq PeersOf(At(L, n))

\* Level n with a candidate, or none, as its representative and no peers.
LEMMA ElectedRep ==
  ASSUME NEW me, NEW L, WellFormed(me, L), NEW n \in 1..(Len(L) - 1), NEW s, NEW y,
         NEW r \in Addr \cup {None}, NEW h \in Addr \cup {None}, NEW d \in Nat,
         me # None, h \in {At(L, n).rep_next_hop, s, None},
         r = None => h = None, r # None => IsCandidate(L, n, r)
  PROVE  Elected(me, L,
           [SetMaxLevel(L, n) EXCEPT ![n + 1] =
              [@ EXCEPT !.rep = r, !.rep_next_hop = h, !.rep_dist = d, !.peers = NoPeers]],
           s, y, n)
<1> DEFINE x == [At(L, n) EXCEPT !.rep = r, !.rep_next_hop = h, !.rep_dist = d, !.peers = NoPeers]
           K == [SetMaxLevel(L, n) EXCEPT ![n + 1] =
                   [@ EXCEPT !.rep = r, !.rep_next_hop = h, !.rep_dist = d, !.peers = NoPeers]]
<1>1. IsLevels(L) /\ n \in 0..(Len(L) - 1) /\ Fits(me, At(L, n - 1), n, At(L, n))
  BY FitsAt, LevelsShape DEF WellFormed
<1>2. At(L, n) \in AnyLevel
  BY <1>1 DEF Fits
<1>3. /\ x \in AnyLevel /\ x.level = At(L, n).level
      /\ x.rep = r /\ x.rep_next_hop = h /\ x.rep_value = At(L, n).rep_value
      /\ PeersOf(x) = {}
  <2>1. ASSUME NEW z \in AnyLevel
        PROVE  LET w == [z EXCEPT !.rep = r, !.rep_next_hop = h, !.rep_dist = d, !.peers = NoPeers]
               IN  /\ w \in AnyLevel /\ w.level = z.level
                   /\ w.rep = r /\ w.rep_next_hop = h /\ w.rep_value = z.rep_value
                   /\ PeersOf(w) = {}
    BY LevelWithRep
  <2> QED
    BY <1>2, <2>1
<1>4. K = Cut(L, n, x)
  <2>1. SetMaxLevel(L, n)[n + 1] = At(L, n)
    BY <1>1, SetMaxLevelExcept
  <2>2. K = [SetMaxLevel(L, n) EXCEPT ![n + 1] = x]
    BY <2>1
  <2> HIDE DEF x, K
  <2> QED
    BY <1>1, <2>2, SetMaxLevelExcept
<1> HIDE DEF x
<1>5. Fits(me, At(L, n - 1), n, x)
  BY <1>1, <1>3 DEF Fits, IsCandidate, Reached
<1>6. ReadsFrom(x, s, y)
  BY <1>3 DEF ReadsFrom
<1>7. Derived(At(L, n), x, s)
  BY <1>3, DerivedEmpty
<1>8. Handled(me, L, Cut(L, n, x), s, y, n) /\ At(Cut(L, n, x), n) = x
  BY <1>1, <1>5, <1>6, <1>7, HandledCut
<1>9. Elected(me, L, Cut(L, n, x), s, y, n)
  BY <1>3, <1>8 DEF Elected
<1> QED
  BY <1>4, <1>9

\* Unelecting leaves no representative, no next hop and no peers.
LEMMA UnelectOK ==
  ASSUME NEW me \in Addr, NEW L, WellFormed(me, L), NEW n \in 1..(Len(L) - 1), NEW s, NEW y
  PROVE  Elected(me, L, Unelect(L, n), s, y, n)
<1>1. me # None
  BY AddrAssumption DEF None
<1> QED
  BY <1>1, ElectedRep DEF Unelect

\* A candidate may become the representative.
LEMMA AdoptRepOK ==
  ASSUME NEW me \in Addr, NEW L, WellFormed(me, L), NEW n \in 1..(Len(L) - 1),
         NEW s \in Addr, NEW M, WellFormed(s, M), n < Len(M), NEW y,
         At(M, n).rep # None, IsCandidate(L, n, At(M, n).rep)
  PROVE  Elected(me, L, AdoptRep(L, s, M, n), s, y, n)
<1>1. me # None
  BY AddrAssumption DEF None
<1>2. At(M, n) \in AnyLevel
  <2>1. IsLevels(M)
    BY DEF WellFormed
  <2>2. n + 1 \in 1..Len(M)
    BY <2>1, LevelsShape
  <2> QED
    BY <2>1, <2>2, LevelsShape DEF At
<1>3. At(M, n).rep \in Addr /\ At(M, n).rep_dist + 1 \in Nat
  BY <1>2, LevelFields
<1> QED
  BY <1>1, <1>3, ElectedRep DEF AdoptRep

\* A shorter route changes neither representative nor peers.
LEMMA ShortenRepRouteOK ==
  ASSUME NEW me, NEW L, WellFormed(me, L), NEW n \in 1..(Len(L) - 1),
         NEW s \in Addr, NEW M, WellFormed(s, M), n < Len(M), NEW y,
         ReadsFrom(At(L, n), s, y)
  PROVE  Elected(me, L, ShortenRepRoute(L, s, M, n), s, y, n)
<1> DEFINE x == [At(L, n) EXCEPT !.rep_next_hop = s, !.rep_dist = At(M, n).rep_dist + 1]
<1>1. /\ IsLevels(L) /\ n \in 0..(Len(L) - 1) /\ Fits(me, At(L, n - 1), n, At(L, n))
      /\ At(M, n) \in AnyLevel
  <2>1. IsLevels(L) /\ n \in 0..(Len(L) - 1) /\ n \in 0..(Len(M) - 1)
    BY LevelsShape DEF WellFormed
  <2> QED
    BY <2>1, FitsAt DEF Fits
<1>2. At(L, n) \in AnyLevel /\ At(M, n).rep_dist + 1 \in Nat
  BY <1>1, LevelFields DEF Fits
<1>3. Elected(me, L, L, s, y, n)
  BY <1>1, HandledSame DEF Elected
<1>4. ASSUME At(L, n).rep # None
      PROVE  Elected(me, L, [L EXCEPT ![n + 1] = x], s, y, n)
  <2>1. PICK E \in SUBSET Addr : At(L, n) \in Level(E)
    BY <1>2 DEF AnyLevel
  <2>2. x \in Level(E)
    BY <1>2, <2>1 DEF Level
  <2>3. /\ x \in AnyLevel /\ x.level = At(L, n).level /\ x.rep = At(L, n).rep
        /\ x.rep_next_hop = s /\ x.rep_value = At(L, n).rep_value
        /\ x.peers = At(L, n).peers /\ PeersOf(x) = PeersOf(At(L, n))
    BY <2>1, <2>2 DEF AnyLevel, Level, PeersOf
  <2> HIDE DEF x
  <2>4. Fits(me, At(L, n - 1), n, x)
    BY <1>1, <1>4, <2>3 DEF Fits, Reached, MaxPeerDistance
  <2>5. ReadsFrom(x, s, y)
    BY <2>3 DEF ReadsFrom
  <2>6. Derived(At(L, n), x, s)
    BY <2>3 DEF Derived, DerivedPeer, PeersOf
  <2>7. ~Changed(At(L, n), x)
    BY <2>3 DEF Changed, Degree
  <2>8. /\ Handled(me, L, [L EXCEPT ![n + 1] = x], s, y, n)
        /\ At([L EXCEPT ![n + 1] = x], n) = x
    BY <1>1, <2>4, <2>5, <2>6, <2>7, HandledExcept
  <2> QED
    BY <2>3, <2>8 DEF Elected
<1>5. ASSUME ShortenRepRoute(L, s, M, n) # L
      PROVE  /\ At(L, n).rep # None
             /\ ShortenRepRoute(L, s, M, n) = [L EXCEPT ![n + 1] = x]
  BY <1>5 DEF ShortenRepRoute, At
<1> HIDE DEF x
<1> QED
  BY <1>3, <1>4, <1>5

\* HandleRepElection at any level.
LEMMA HandleRepElectionOK ==
  ASSUME NEW me, NEW L, WellFormed(me, L), NEW s, NEW M, Neighbourly(me, s, M),
         NEW n \in 0..(Len(L) - 1), n < Len(M), ReadsFrom(At(L, n), s, At(M, n))
  PROVE  Elected(me, L, HandleRepElection(L, s, M, n), s, At(M, n), n)
<1> DEFINE y == At(M, n)
           L1 == IF RepVacated(L, s, M, n) THEN Unelect(L, n) ELSE L
           L2 == IF At(L1, n).rep = s /\ At(M, n).rep # s THEN Unelect(L1, n) ELSE L1
           L3 == ConsiderSendersRep(L2, s, M, n)
           L4 == ShortenRepRoute(L3, s, M, n)
           Good(K) == Elected(me, L, K, s, y, n)
<1>1. Good(L)
  BY HandledSame DEF Elected
<1>2. CASE n = 0
  BY <1>1, <1>2 DEF HandleRepElection
<1>3. CASE n # 0
  <2>1. n \in Nat \ {0} /\ me \in Addr /\ s \in Addr /\ WellFormed(s, M)
    BY <1>3, LevelsShape DEF WellFormed, Neighbourly
  <2>2. ASSUME NEW K, Good(K)
        PROVE  /\ WellFormed(me, K) /\ n \in 1..(Len(K) - 1) /\ ReadsFrom(At(K, n), s, y)
               /\ \A J : Elected(me, K, J, s, y, n) => Good(J)
    <3>1. WellFormed(me, K) /\ n \in 1..(Len(K) - 1) /\ ReadsFrom(At(K, n), s, y)
      BY <2>1, <2>2, LevelsShape DEF Elected, Handled, WellFormed
    <3>2. ASSUME NEW J, Elected(me, K, J, s, y, n) PROVE Good(J)
      <4>1. Handled(me, L, J, s, y, n)
        BY <2>1, <2>2, <3>2, HandledTwice DEF Elected
      <4> QED
        BY <2>2, <3>2, <4>1 DEF Elected
    <3> QED
      BY <3>1, <3>2
  <2>3. ASSUME NEW K, Good(K) PROVE Good(Unelect(K, n))
    <3>1. Elected(me, K, Unelect(K, n), s, y, n)
      BY <2>1, <2>2, <2>3, UnelectOK
    <3> QED
      BY <2>2, <2>3, <3>1
  <2>4. Good(L1)
    BY <1>1, <2>3
  <2>5. Good(L2)
    <3> HIDE DEF L1
    <3> QED
      BY <2>3, <2>4
  <2>6. Good(L3)
    <3> HIDE DEF L2
    <3>1. CASE L3 = L2 \/ L3 = Unelect(L2, n)
      BY <2>3, <2>5, <3>1
    <3>2. CASE ~(L3 = L2 \/ L3 = Unelect(L2, n))
      <4>1. /\ y.rep # None /\ IsCandidate(L2, n, y.rep) /\ L3 = AdoptRep(L2, s, M, n)
        BY <3>2 DEF ConsiderSendersRep
      <4>2. Elected(me, L2, L3, s, y, n)
        BY <2>1, <2>2, <2>5, <4>1, AdoptRepOK
      <4> QED
        BY <2>2, <2>5, <4>2
    <3> QED
      BY <3>1, <3>2
  <2>7. Good(L4)
    <3> HIDE DEF L3
    <3>1. Elected(me, L3, L4, s, y, n)
      BY <2>1, <2>2, <2>6, ShortenRepRouteOK
    <3> QED
      BY <2>2, <2>6, <3>1
  <2>8. HandleRepElection(L, s, M, n) = L4
    BY <1>3 DEF HandleRepElection
  <2> QED
    BY <2>7, <2>8
<1> QED
  BY <1>2, <1>3

-----------------------------------------------------------------------------
(* The loop of MarshalFrom.  Its iteration k handles level k, which both sides *)
(* run.                                                                        *)

\* The next hops of level x are in H and its values in V.
Drawn(me, H, V, x) ==
  /\ x.rep_next_hop \in H \cup {None, me} /\ x.rep_value \in V
  /\ \A p \in PeersOf(x) : x.peers[p].next_hop \in H /\ x.peers[p].value \in V

AllDrawn(me, H, V, L) == \A m \in 0..(Len(L) - 1) : Drawn(me, H, V, At(L, m))

\* Every next hop of K is one of L or s, and every value is one of L or 0.
Sourced(me, L, K, s) ==
  \A H, V : s \in H /\ 0 \in V /\ AllDrawn(me, H, V, L) => AllDrawn(me, H, V, K)

\* What a change of level m since the loop began with L has left above it: at
\* most one level, which is as TryToStartNewLevel made it until the loop has
\* come past it.  Nobody has elected itself in the loop, hence None for me.
Restarting(L, K, s, M, k) ==
  \A m \in 0..(Len(L) - 1) :
    m < Len(K) /\ Changed(At(L, m), At(K, m)) =>
      /\ Len(K) <= m + 2
      /\ Len(K) = m + 2 => /\ JustStarted(None, s, M, m + 1, At(K, m + 1))
                           /\ m + 1 >= k => At(K, m + 1) = NewLevel(m + 1)

\* Before iteration k the levels below k read no null peer, and level 0 is what
\* the first iteration made of it.
LoopInv(me, L, K, s, M, k) ==
  /\ WellFormed(me, K)
  /\ k = 0 => K = L
  /\ k > 0 => At(K, 0) = At(NeighbourHeard(L, s, M), 0)
  /\ \A m \in 0..(k - 1) : m < Len(K) => ReadsFrom(At(K, m), s, At(M, m))
  /\ Sourced(me, L, K, s)
  /\ Restarting(L, K, s, M, k)

\* What level n is drawn from when it is derived from a level.
LEMMA DerivedDrawn ==
  ASSUME NEW x, NEW z, NEW s, Derived(x, z, s),
         NEW me, NEW H, NEW V, s \in H, 0 \in V, Drawn(me, H, V, x)
  PROVE  Drawn(me, H, V, z)
<1>1. ASSUME NEW p \in PeersOf(z) PROVE z.peers[p].next_hop \in H /\ z.peers[p].value \in V
  <2>1. DerivedPeer(x.peers, z.peers, s, p)
    BY DEF Derived
  <2>2. p \in DOMAIN x.peers => x.peers[p].next_hop \in H /\ x.peers[p].value \in V
    BY DEF Drawn, PeersOf
  <2> QED
    BY <2>1, <2>2 DEF DerivedPeer
<1>2. z.rep_next_hop \in H \cup {None, me} /\ z.rep_value \in V
  BY DEF Derived, Drawn
<1> QED
  BY <1>1, <1>2 DEF Drawn

\* Handling level n brings in no other next hop than s and no other value than 0.
LEMMA HandledSourced ==
  ASSUME NEW me, NEW L, NEW K, NEW s, NEW y, NEW n \in Nat, n < Len(L),
         WellFormed(me, L), Handled(me, L, K, s, y, n)
  PROVE  Sourced(me, L, K, s)
<1> SUFFICES ASSUME NEW H, NEW V, s \in H, 0 \in V, AllDrawn(me, H, V, L),
                    NEW m \in 0..(Len(K) - 1)
             PROVE  Drawn(me, H, V, At(K, m))
  BY DEF Sourced, AllDrawn
<1>1. Len(L) \in Nat /\ Len(K) \in Nat
  BY LevelsShape DEF Handled, WellFormed
<1>2. CASE m = n
  <2>1. Drawn(me, H, V, At(L, n)) /\ Derived(At(L, n), At(K, n), s)
    BY <1>1 DEF AllDrawn, Handled
  <2> QED
    BY <1>2, <2>1, DerivedDrawn
<1>3. CASE m # n
  <2>1. At(K, m) = At(L, m) /\ m \in 0..(Len(L) - 1)
    BY <1>1, <1>3 DEF Handled, SameBut
  <2> QED
    BY <2>1 DEF AllDrawn
<1> QED
  BY <1>2, <1>3

\* Nor does starting a level.
LEMMA GrownSourced ==
  ASSUME NEW me, NEW K, WellFormed(me, K), NEW J, Grown(K, J), NEW s
  PROVE  Sourced(me, K, J, s)
<1> SUFFICES ASSUME NEW H, NEW V, s \in H, 0 \in V, AllDrawn(me, H, V, K),
                    NEW m \in 0..(Len(J) - 1)
             PROVE  Drawn(me, H, V, At(J, m))
  BY DEF Sourced, AllDrawn
<1>1. Len(K) \in Nat
  BY LevelsShape DEF WellFormed
<1>2. CASE m \in 0..(Len(K) - 1)
  <2>1. At(J, m) = At(K, m)
    BY <1>2 DEF Grown
  <2> QED
    BY <1>2, <2>1 DEF AllDrawn
<1>3. CASE m \notin 0..(Len(K) - 1)
  <2>1. At(J, m) = NewLevel(Len(K))
    BY <1>1, <1>3 DEF Grown
  <2> DEFINE x == NewLevel(Len(K))
  <2>2. PeersOf(x) = {} /\ x.rep_next_hop = None /\ x.rep_value = 0
    BY <1>1, NewLevelOK
  <2> HIDE DEF x
  <2> QED
    BY <2>1, <2>2 DEF Drawn, x
<1> QED
  BY <1>2, <1>3

\* What one iteration of the loop makes of the levels: level k is the last, or
\* the last but for a new one; or nothing that the levels above k depend on has
\* changed, and one more has been started at most.
Iterated(L, J, k) ==
  \/ Len(J) = k + 1
  \/ Len(J) = k + 2 /\ At(J, k + 1) = NewLevel(k + 1)
  \/ /\ ~Changed(At(L, k), At(J, k))
     /\ \A m \in 0..(Len(L) - 1) : m # k => At(J, m) = At(L, m)
     /\ \/ Len(J) = Len(L)
        \/ Len(J) = Len(L) + 1 /\ At(J, Len(L)) = NewLevel(Len(L))

\* The three steps of an iteration, one after the other.
LEMMA IteratedOK ==
  ASSUME NEW me, NEW L, NEW K1, NEW K2, NEW J, NEW s, NEW y, NEW k \in Nat,
         WellFormed(me, L), k < Len(L), Handled(me, L, K1, s, y, k), Grown(K1, K2),
         Handled(me, K2, J, s, y, k)
  PROVE  Iterated(L, J, k)
<1>1. Len(L) \in Nat /\ Len(K1) \in Nat /\ Len(J) \in Nat /\ k < Len(K1)
  BY LevelsShape DEF Handled, WellFormed
<1>2. CASE Len(J) = k + 1
  BY <1>2 DEF Iterated
<1>3. CASE SameBut(K2, J, k) /\ Len(K1) = k + 1
  <2>1. CASE K2 = K1
    BY <1>3, <2>1 DEF SameBut, Iterated
  <2>2. CASE Len(K2) = Len(K1) + 1 /\ At(K2, Len(K1)) = NewLevel(Len(K1))
    <3>1. Len(J) = k + 2 /\ At(J, k + 1) = At(K2, k + 1)
      BY <1>1, <1>3, <2>2 DEF SameBut
    <3> QED
      BY <1>3, <2>2, <3>1 DEF Iterated
  <2> QED
    BY <2>1, <2>2 DEF Grown
<1>4. CASE SameBut(K2, J, k) /\ SameBut(L, K1, k)
  <2>1. At(K2, k) = At(K1, k)
    BY <1>1 DEF Grown
  <2>2. ~Changed(At(L, k), At(J, k))
    BY <1>4, <2>1 DEF SameBut, Changed
  <2>3. ASSUME NEW m \in 0..(Len(L) - 1), m # k PROVE At(J, m) = At(L, m)
    <3>1. At(K1, m) = At(L, m) /\ m \in 0..(Len(K1) - 1)
      BY <1>4, <2>3 DEF SameBut
    <3>2. At(K2, m) = At(K1, m) /\ m \in 0..(Len(K2) - 1)
      BY <1>1, <3>1 DEF Grown
    <3>3. At(J, m) = At(K2, m)
      BY <1>4, <2>3, <3>2 DEF SameBut
    <3> QED
      BY <3>1, <3>2, <3>3
  <2>4. \/ Len(J) = Len(L)
        \/ Len(J) = Len(L) + 1 /\ At(J, Len(L)) = NewLevel(Len(L))
    <3>1. CASE K2 = K1
      BY <1>4, <3>1 DEF SameBut
    <3>2. CASE Len(K2) = Len(K1) + 1 /\ At(K2, Len(K1)) = NewLevel(Len(K1))
      <4>1. Len(K1) = Len(L) /\ Len(L) \in 0..(Len(K2) - 1) /\ Len(L) # k
        BY <1>1, <1>4, <3>2 DEF SameBut
      <4>2. At(J, Len(L)) = At(K2, Len(L))
        BY <1>4, <4>1 DEF SameBut
      <4> QED
        BY <1>4, <3>2, <4>1, <4>2 DEF SameBut
    <3> QED
      BY <3>1, <3>2 DEF Grown
  <2> QED
    BY <2>2, <2>3, <2>4 DEF Iterated
<1> QED
  BY <1>2, <1>3, <1>4 DEF Handled

\* A level that has just been started is no older than the packet.
LEMMA NewLevelStarted ==
  ASSUME NEW n \in Nat, NEW s, NEW M
  PROVE  JustStarted(None, s, M, n, NewLevel(n))
  BY NewLevelOK DEF JustStarted

\* Level k has just been started: it stays the last, and no older than the packet.
Stays(L, J, s, M, k) ==
  k > 0 /\ Len(L) = k + 1 /\ At(L, k) = NewLevel(k)
  => Len(J) = k + 1 /\ JustStarted(None, s, M, k, At(J, k))

\* HandleRepElection gives a level that has just been started the sender's
\* representative, or none.
LEMMA NewLevelElected ==
  ASSUME NEW L \in Seq(AnyLevel), NEW s \in Addr, NEW M, NEW k \in Nat \ {0}, k < Len(M),
         Len(L) = k + 1, At(L, k) = NewLevel(k)
  PROVE  LET J == HandleRepElection(L, s, M, k)
         IN  Len(J) = k + 1 /\ JustStarted(None, s, M, k, At(J, k))
<1> DEFINE new == NewLevel(k)
           K == ConsiderSendersRep(L, s, M, k)
           J == ShortenRepRoute(K, s, M, k)
           x == [new EXCEPT !.rep = At(M, k).rep, !.rep_next_hop = s,
                            !.rep_dist = At(M, k).rep_dist + 1, !.peers = NoPeers]
           Adopted(z) == /\ z.rep = At(M, k).rep /\ z.rep_next_hop = s
                         /\ PeersOf(z) = {}
<1>1. s # None /\ new.rep = None /\ new.rep_next_hop = None
  BY AddrAssumption DEF None, NewLevel
<1>2. HandleRepElection(L, s, M, k) = J
  BY <1>1 DEF HandleRepElection, RepVacated
<1>3. JustStarted(None, s, M, k, new)
  BY NewLevelStarted
<1>4. CASE K = L
  <2>1. J = L
    BY <1>1, <1>4 DEF ShortenRepRoute
  <2> QED
    BY <1>2, <1>3, <2>1
<1>5. CASE K # L
  <2>1. K = AdoptRep(L, s, M, k)
    BY <1>1, <1>5 DEF ConsiderSendersRep
  <2>2. SetMaxLevel(L, k) = L
    BY DEF SetMaxLevel
  <2>3. K = [L EXCEPT ![k + 1] = x]
    BY <2>1, <2>2 DEF AdoptRep, At
  <2>4. Adopted(x)
    BY DEF NewLevel, NoPeers, PeersOf
  <2> HIDE DEF x, K
  <2>5. k + 1 \in DOMAIN L
    OBVIOUS
  <2>6. Len(K) = k + 1 /\ DOMAIN K = DOMAIN L /\ K[k + 1] = x
    BY <2>3, <2>5
  <2>7. Len(J) = k + 1 /\ Adopted(At(J, k))
    <3>1. CASE J = K
      BY <2>4, <2>6, <3>1 DEF At
    <3>2. CASE J # K
      <4> DEFINE y == [x EXCEPT !.rep_next_hop = s, !.rep_dist = At(M, k).rep_dist + 1]
      <4>1. J = [K EXCEPT ![k + 1] = y]
        BY <2>6, <3>2 DEF ShortenRepRoute, At
      <4>2. Adopted(y)
        BY <2>4 DEF x, NewLevel, PeersOf
      <4> HIDE DEF y, J
      <4>3. J[k + 1] = y /\ Len(J) = k + 1
        BY <2>3, <2>5, <2>6, <4>1
      <4> QED
        BY <4>2, <4>3 DEF At
    <3> QED
      BY <3>1, <3>2
  <2> HIDE DEF J
  <2> QED
    BY <1>2, <2>7 DEF JustStarted
<1> QED
  BY <1>4, <1>5

\* A change of a level below k has left at most level k above it.
LEMMA RestartingOn ==
  ASSUME NEW me, NEW L, WellFormed(me, L), NEW K, WellFormed(me, K), NEW J, WellFormed(me, J),
         NEW s, NEW M, NEW k \in Nat, k < Len(K), Restarting(L, K, s, M, k),
         Iterated(K, J, k), Stays(K, J, s, M, k), \A m \in 0..(k - 1) : At(J, m) = At(K, m)
  PROVE  Restarting(L, J, s, M, k + 1)
<1>1. Len(L) \in Nat /\ Len(K) \in Nat /\ Len(J) \in Nat
  BY LevelsShape DEF WellFormed
<1> SUFFICES ASSUME NEW m \in 0..(Len(L) - 1), m < Len(J), Changed(At(L, m), At(J, m))
             PROVE  /\ Len(J) <= m + 2
                    /\ Len(J) = m + 2 => /\ JustStarted(None, s, M, m + 1, At(J, m + 1))
                                         /\ m + 1 >= k + 1 => At(J, m + 1) = NewLevel(m + 1)
  BY DEF Restarting
<1>2. ASSUME NEW n \in Nat
      PROVE  JustStarted(None, s, M, n, NewLevel(n)) /\ PeersOf(NewLevel(n)) = {}
  BY NewLevelOK, NewLevelStarted
<1>3. CASE m < k
  <2>1. Changed(At(L, m), At(K, m)) /\ m < Len(K)
    BY <1>1, <1>3
  <2>2. Len(K) <= m + 2 /\ (Len(K) = m + 2 /\ m + 1 >= k => At(K, m + 1) = NewLevel(m + 1))
    BY <2>1 DEF Restarting
  <2>3. Len(K) = k + 1 /\ m + 1 = k /\ At(K, k) = NewLevel(k) /\ k > 0
    BY <1>1, <1>3, <2>2
  <2>4. Len(J) = k + 1 /\ JustStarted(None, s, M, k, At(J, k))
    BY <2>3 DEF Stays
  <2> QED
    BY <2>3, <2>4
<1>4. CASE m >= k /\ Len(J) = k + 1
  BY <1>1, <1>4
<1>5. CASE m >= k /\ Len(J) = k + 2 /\ At(J, k + 1) = NewLevel(k + 1)
  <2>1. Len(J) <= m + 2 /\ (Len(J) = m + 2 => m + 1 = k + 1)
    BY <1>1, <1>5
  <2>2. JustStarted(None, s, M, k + 1, NewLevel(k + 1))
    BY <1>2
  <2> QED
    BY <1>5, <2>1, <2>2
<1>6. CASE /\ m >= k /\ ~Changed(At(K, k), At(J, k))
           /\ \A i \in 0..(Len(K) - 1) : i # k => At(J, i) = At(K, i)
           /\ \/ Len(J) = Len(K)
              \/ Len(J) = Len(K) + 1 /\ At(J, Len(K)) = NewLevel(Len(K))
  <2>1. CASE m = Len(K)
    BY <1>1, <1>6, <2>1
  <2>2. CASE m < Len(K)
    <3>1. Changed(At(L, m), At(K, m))
      BY <1>1, <1>6, <2>2 DEF Changed
    <3>2. Len(K) <= m + 2 /\ (Len(K) = m + 2 => At(K, m + 1) = NewLevel(m + 1))
      BY <1>1, <1>6, <2>2, <3>1 DEF Restarting
    <3>3. JustStarted(None, s, M, m + 1, NewLevel(m + 1)) /\ PeersOf(NewLevel(m + 1)) = {}
      BY <1>2
    <3>4. CASE Len(K) = m + 2
      <4>1. At(J, m + 1) = NewLevel(m + 1)
        BY <1>1, <1>6, <3>2, <3>4
      <4>2. Len(J) = Len(K)
        <5>1. CASE Len(J) = Len(K) + 1
          <6>1. m + 2 \in 1..(Len(J) - 1)
            BY <1>1, <3>4, <5>1
          <6>2. PeersOf(J[m + 2]) # {}
            BY <6>1 DEF WellFormed, LadderOf
          <6> QED
            BY <3>3, <4>1, <6>2 DEF At
        <5> QED
          BY <1>6, <5>1
      <4> QED
        BY <1>1, <3>3, <3>4, <4>1, <4>2
    <3>5. CASE Len(K) = m + 1
      <4>1. Len(J) = m + 2 => At(J, m + 1) = NewLevel(m + 1)
        BY <1>1, <1>6, <3>5
      <4> QED
        BY <1>1, <1>6, <3>3, <3>5, <4>1
    <3> QED
      BY <1>1, <2>2, <3>2, <3>4, <3>5
  <2> QED
    BY <1>1, <1>6, <2>1, <2>2
<1> QED
  BY <1>1, <1>3, <1>4, <1>5, <1>6 DEF Iterated

\* One iteration of the loop of MarshalFrom.
LEMMA LevelReceivedOK ==
  ASSUME NEW me, NEW L0, WellFormed(me, L0), NEW L, NEW s, NEW M, Neighbourly(me, s, M),
         NEW k \in 0..(Len(M) - 1), LoopInv(me, L0, L, s, M, k)
  PROVE  LoopInv(me, L0, LevelReceived(me, L, s, M, k), s, M, k + 1)
<1>1. /\ WellFormed(me, L) /\ Len(L) \in Nat \ {0} /\ k \in Nat /\ k < Len(M)
      /\ Len(L0) \in Nat \ {0}
  BY LevelsShape DEF LoopInv, WellFormed, Neighbourly
<1>2. CASE k >= Len(L)
  <2>1. LevelReceived(me, L, s, M, k) = L
    BY <1>2 DEF LevelReceived
  <2>2. Restarting(L0, L, s, M, k + 1)
    BY <1>1 DEF LoopInv, Restarting
  <2> QED
    BY <1>1, <1>2, <2>1, <2>2 DEF LoopInv
<1>3. CASE k < Len(L)
  <2> DEFINE K1 == ProcessTopologyChanges(me, L, s, M, k)
             K2 == TryToStartNewLevel(K1)
             J == HandleRepElection(K2, s, M, k)
             y == At(M, k)
  <2>1. Handled(me, L, K1, s, y, k)
    BY <1>1, <1>3, ProcessTopologyChangesOK
  <2>2. /\ WellFormed(me, K1) /\ Len(K1) \in Nat \ {0} /\ k < Len(K1)
        /\ ReadsFrom(At(K1, k), s, y)
    BY <2>1, LevelsShape DEF Handled, WellFormed
  <2>3. WellFormed(me, K2) /\ Grown(K1, K2)
    BY <2>2, TryToStartNewLevelOK
  <2>4. k \in 0..(Len(K2) - 1) /\ \A m \in 0..k : At(K2, m) = At(K1, m)
    BY <1>1, <2>2, <2>3 DEF Grown
  <2>5. LevelReceived(me, L, s, M, k) = J
    BY <1>1, <1>3, <2>4 DEF LevelReceived
  <2>6. Stays(L, J, s, M, k) /\ (k = 0 => J = K2)
    <3>1. CASE k = 0
      BY <3>1 DEF Stays, HandleRepElection
    <3>2. CASE k > 0 /\ Len(L) = k + 1 /\ At(L, k) = NewLevel(k)
      <4>1. At(L, k).rep = None
        BY <3>2, NewLevelOK
      <4>2. K1 = L /\ K2 = L
        BY <3>2, <4>1 DEF ProcessTopologyChanges, TryToStartNewLevel, Top, At
      <4>3. s \in Addr /\ L \in Seq(AnyLevel) /\ k \in Nat \ {0}
        BY <1>1, <3>2, LevelsShape DEF Neighbourly, WellFormed
      <4>4. Len(J) = k + 1 /\ JustStarted(None, s, M, k, At(J, k))
        BY <1>1, <3>2, <4>2, <4>3, NewLevelElected
      <4> QED
        BY <3>2, <4>4 DEF Stays
    <3> QED
      BY <1>1, <3>1, <3>2 DEF Stays
  <2>7. k = 0 => K1 = NeighbourHeard(L0, s, M)
    BY DEF ProcessTopologyChanges, LoopInv
  <2> HIDE DEF K1, K2
  <2>8. Handled(me, K2, J, s, y, k)
    BY <1>1, <2>2, <2>3, <2>4, HandleRepElectionOK DEF Elected
  <2> HIDE DEF J
  <2>9. /\ WellFormed(me, J) /\ Len(J) \in Nat \ {0} /\ k < Len(J)
        /\ \A m \in 0..(k - 1) : At(J, m) = At(L, m)
    BY <1>1, <2>1, <2>4, <2>8, LevelsShape DEF Handled, WellFormed
  <2>10. ASSUME NEW m \in 0..k PROVE ReadsFrom(At(J, m), s, At(M, m))
    <3>1. CASE m = k
      BY <2>8, <3>1 DEF Handled
    <3>2. CASE m < k
      BY <1>1, <1>3, <2>9, <3>2 DEF LoopInv
    <3> QED
      BY <1>1, <3>1, <3>2
  <2>11. At(J, 0) = At(NeighbourHeard(L0, s, M), 0)
    <3>1. CASE k = 0
      BY <2>4, <2>6, <2>7, <3>1
    <3>2. CASE k # 0
      BY <1>1, <2>9, <3>2 DEF LoopInv
    <3> QED
      BY <3>1, <3>2
  <2>12. Sourced(me, L0, J, s)
    <3>1. Sourced(me, L, K1, s)
      BY <1>1, <1>3, <2>1, HandledSourced
    <3>2. Sourced(me, K1, K2, s)
      BY <2>2, <2>3, GrownSourced
    <3>3. Sourced(me, K2, J, s)
      BY <1>1, <2>3, <2>4, <2>8, HandledSourced
    <3> QED
      BY <3>1, <3>2, <3>3 DEF Sourced, LoopInv
  <2>13. Restarting(L0, J, s, M, k + 1)
    <3>1. Iterated(L, J, k)
      BY <1>1, <1>3, <2>1, <2>3, <2>8, IteratedOK
    <3>2. Restarting(L0, L, s, M, k)
      BY DEF LoopInv
    <3> QED
      BY <1>1, <1>3, <2>6, <2>9, <3>1, <3>2, RestartingOn
  <2>14. LoopInv(me, L0, J, s, M, k + 1)
    BY <1>1, <2>9, <2>10, <2>11, <2>12, <2>13 DEF LoopInv
  <2> QED
    BY <2>5, <2>14
<1> QED
  BY <1>1, <1>2, <1>3

\* The invariant holds before the first iteration.
LEMMA LoopStarts ==
  ASSUME NEW me, NEW L, WellFormed(me, L), NEW s, NEW M
  PROVE  LoopInv(me, L, L, s, M, 0)
  BY DEF LoopInv, Sourced, Restarting, Changed

\* The loop of MarshalFrom.
LEMMA LevelsReceivedOK ==
  ASSUME NEW me, NEW L, WellFormed(me, L), NEW s, NEW M, Neighbourly(me, s, M)
  PROVE  LoopInv(me, L, LevelsReceived(me, L, s, M), s, M, Len(M))
<1> DEFINE N == Len(M)
           S == {K \in Seq(AnyLevel) : WellFormed(me, K)}
           g == [q \in (0..(N - 1)) \X S |->
                   IF LoopInv(me, L, q[2], s, M, q[1])
                   THEN LevelReceived(me, q[2], s, M, q[1]) ELSE L]
           Loop(h) == h = [k \in 0..N |->
                             IF k = 0 THEN L ELSE LevelReceived(me, h[k - 1], s, M, k - 1)]
           after == CHOOSE h : Loop(h)
<1>1. N \in Nat \ {0}
  BY LevelsShape DEF Neighbourly, WellFormed
<1>2. \A K : WellFormed(me, K) => K \in S
  BY LevelsShape DEF WellFormed
<1>3. L \in S
  BY <1>2
<1>4. g \in [(0..(N - 1)) \X S -> S]
  <2>1. ASSUME NEW q \in (0..(N - 1)) \X S PROVE g[q] \in S
    <3>1. CASE LoopInv(me, L, q[2], s, M, q[1])
      <4>1. LoopInv(me, L, LevelReceived(me, q[2], s, M, q[1]), s, M, q[1] + 1)
        BY <3>1, LevelReceivedOK
      <4>2. LevelReceived(me, q[2], s, M, q[1]) \in S
        BY <1>2, <4>1 DEF LoopInv
      <4> QED
        BY <3>1, <4>2
    <3>2. CASE ~LoopInv(me, L, q[2], s, M, q[1])
      BY <1>3, <3>2
    <3> QED
      BY <3>1, <3>2
  <2> HIDE DEF S
  <2> QED
    BY <2>1
<1> HIDE DEF S, g
<1>5. PICK h \in [0..N -> S] :
        h[0] = L /\ \A k \in 1..N : h[k] = g[<<k - 1, h[k - 1]>>]
  <2>1. g \in Steps(N, S)
    BY <1>4 DEF Steps
  <2>2. Iterations(N, S, L, g) # {}
    BY <1>1, <1>3, <2>1, FiniteRecursion
  <2> QED
    BY <2>2 DEF Iterations
<1> DEFINE Inv(f) == {k \in Nat : k <= N => LoopInv(me, L, f[k], s, M, k)}
<1>6. Nat \subseteq Inv(h)
  <2>1. h[0] = L
    BY <1>1, <1>5
  <2>2. 0 \in Inv(h)
    BY <2>1, LoopStarts
  <2>3. ASSUME NEW k \in Nat, k \in Inv(h) PROVE k + 1 \in Inv(h)
    <3> SUFFICES ASSUME k + 1 <= N PROVE LoopInv(me, L, h[k + 1], s, M, k + 1)
      OBVIOUS
    <3>1. k \in 0..(N - 1) /\ k + 1 \in 0..N /\ k + 1 # 0 /\ (k + 1) - 1 = k /\ k \in 0..N
      BY <1>1
    <3>2. LoopInv(me, L, h[k], s, M, k) /\ h[k] \in S
      BY <1>1, <2>3, <3>1
    <3>3. h[k + 1] = g[<<k, h[k]>>]
      BY <1>5, <3>1
    <3>4. <<k, h[k]>> \in (0..(N - 1)) \X S
      BY <3>1, <3>2
    <3>5. g[<<k, h[k]>>] = LevelReceived(me, h[k], s, M, k)
      BY <3>2, <3>4 DEF g
    <3>6. LoopInv(me, L, LevelReceived(me, h[k], s, M, k), s, M, k + 1)
      BY <3>1, <3>2, LevelReceivedOK
    <3> QED
      BY <3>3, <3>5, <3>6
  <2> HIDE DEF Inv
  <2> QED
    BY <2>2, <2>3, SetInduct
<1>7. Loop(h)
  <2>1. ASSUME NEW k \in 0..N, k # 0
        PROVE  h[k] = LevelReceived(me, h[k - 1], s, M, k - 1)
    <3>1. k - 1 \in 0..(N - 1) /\ k - 1 \in 0..N /\ k - 1 \in Nat
      BY <1>1, <2>1
    <3>2. LoopInv(me, L, h[k - 1], s, M, k - 1) /\ h[k - 1] \in S
      BY <1>1, <1>6, <3>1
    <3>3. <<k - 1, h[k - 1]>> \in (0..(N - 1)) \X S
      BY <3>1, <3>2
    <3>4. g[<<k - 1, h[k - 1]>>] = LevelReceived(me, h[k - 1], s, M, k - 1)
      BY <3>2, <3>3 DEF g
    <3>5. h[k] = g[<<k - 1, h[k - 1]>>]
      BY <1>5, <2>1
    <3> QED
      BY <3>4, <3>5
  <2>2. h[0] = L
    BY <1>1, <1>5
  <2> DEFINE Stage(k) == IF k = 0 THEN L ELSE LevelReceived(me, h[k - 1], s, M, k - 1)
  <2>3. \A k \in 0..N : h[k] = Stage(k)
    BY <2>1, <2>2
  <2>4. h = [k \in 0..N |-> h[k]]
    OBVIOUS
  <2> QED
    BY <2>3, <2>4
<1>8. Loop(after)
  BY <1>7
<1>9. LevelsReceived(me, L, s, M) = after[N]
  BY DEF LevelsReceived
<1> HIDE DEF after
<1>10. Nat \subseteq Inv(after)
  <2>1. after[0] = L
    BY <1>1, <1>8
  <2>2. 0 \in Inv(after)
    BY <2>1, LoopStarts
  <2>3. ASSUME NEW k \in Nat, k \in Inv(after) PROVE k + 1 \in Inv(after)
    <3> SUFFICES ASSUME k + 1 <= N PROVE LoopInv(me, L, after[k + 1], s, M, k + 1)
      OBVIOUS
    <3>1. k \in 0..(N - 1) /\ k + 1 \in 0..N /\ k + 1 # 0 /\ (k + 1) - 1 = k
      BY <1>1
    <3>2. LoopInv(me, L, after[k], s, M, k)
      BY <1>1, <2>3, <3>1
    <3>3. after[k + 1] = LevelReceived(me, after[k], s, M, k)
      BY <1>8, <3>1
    <3> QED
      BY <3>1, <3>2, <3>3, LevelReceivedOK
  <2> HIDE DEF Inv
  <2> QED
    BY <2>2, <2>3, SetInduct
<1> QED
  BY <1>1, <1>9, <1>10

-----------------------------------------------------------------------------
(* What MarshalFrom does after the loop. *)

\* No level of K that both sides run reads a null peer, level 0 is what
\* NeighbourHeard made of it, and the rest of what the loop showed holds.
ReadsOK(me, L, K, s, M) ==
  /\ WellFormed(me, K)
  /\ At(K, 0) = At(NeighbourHeard(L, s, M), 0)
  /\ \A n \in 0..(Len(M) - 1) : n < Len(K) => ReadsNoNull(K, s, M, n)
  /\ Sourced(me, L, K, s)
  /\ RestartedAbove(None, L, K, s, M)

\* Two ways to say that level n reads no null peer.
LEMMA ReadsFromNoNull ==
  ASSUME NEW K, NEW s, NEW M, NEW n
  PROVE  ReadsNoNull(K, s, M, n) <=> ReadsFrom(At(K, n), s, At(M, n))
  BY DEF ReadsNoNull, ReadFromSendersPeers, ReadsFrom, Via

\* The levels that the loop leaves are restarted above every change.
LEMMA RestartingAbove ==
  ASSUME NEW me, NEW L, WellFormed(me, L), NEW K, WellFormed(me, K), NEW s, NEW M, NEW k,
         Restarting(L, K, s, M, k)
  PROVE  RestartedAbove(None, L, K, s, M)
<1>1. Len(L) \in Nat /\ Len(K) \in Nat
  BY LevelsShape DEF WellFormed
<1> SUFFICES ASSUME NEW i \in 1..Len(L), i <= Len(K),
                    L[i].rep # K[i].rep \/ Degree(L[i]) # Degree(K[i])
             PROVE  /\ Len(K) <= i + 1
                    /\ Len(K) = i + 1 => JustStarted(None, s, M, i, K[i + 1])
  BY DEF RestartedAbove
<1> DEFINE m == i - 1
<1>2. m \in 0..(Len(L) - 1) /\ m < Len(K) /\ m + 1 = i /\ m + 2 = i + 1
  BY <1>1
<1>3. Changed(At(L, m), At(K, m))
  BY <1>2 DEF Changed, At
<1> HIDE DEF m
<1>4. /\ Len(K) <= m + 2
      /\ Len(K) = m + 2 => JustStarted(None, s, M, m + 1, At(K, m + 1))
  BY <1>2, <1>3 DEF Restarting
<1> QED
  BY <1>2, <1>4 DEF At

\* A level that the sender does not run and that loses something, with nothing
\* left above it, has not just been started.
LEMMA RestartedThen ==
  ASSUME NEW me, NEW L, WellFormed(me, L), NEW K, WellFormed(me, K),
         NEW s, NEW M, Len(M) \in Nat, Restarting(L, K, s, M, Len(M)),
         NEW J, NEW y, NEW n \in Len(M)..(Len(K) - 1), Elected(me, K, J, s, y, n),
         At(K, n) # NewLevel(n)
  PROVE  RestartedAbove(None, L, J, s, M)
<1>1. /\ Len(L) \in Nat /\ Len(K) \in Nat /\ Len(J) \in Nat /\ n < Len(J) /\ n \in Nat
      /\ n < Len(K) /\ n >= Len(M)
  BY LevelsShape DEF Elected, Handled, WellFormed
<1>2. RestartedAbove(None, L, K, s, M)
  BY RestartingAbove
<1> SUFFICES ASSUME NEW i \in 1..Len(L), i <= Len(J),
                    L[i].rep # J[i].rep \/ Degree(L[i]) # Degree(J[i])
             PROVE  /\ Len(J) <= i + 1
                    /\ Len(J) = i + 1 => JustStarted(None, s, M, i, J[i + 1])
  BY DEF RestartedAbove
<1>3. ASSUME NEW m \in 1..Len(J), m # n + 1, m <= n + 1 \/ SameBut(K, J, n)
      PROVE  J[m] = K[m]
  <2>1. (m - 1) + 1 = m /\ m - 1 # n
    BY <1>1, <1>3
  <2>2. At(J, m - 1) = At(K, m - 1)
    <3>1. CASE m <= n + 1
      <4>1. m - 1 \in 0..(n - 1)
        BY <1>1, <1>3, <3>1
      <4> QED
        BY <4>1 DEF Elected, Handled
    <3>2. CASE SameBut(K, J, n)
      <4>1. m - 1 \in 0..(Len(K) - 1)
        BY <1>1, <3>2 DEF SameBut
      <4> QED
        BY <2>1, <3>2, <4>1 DEF SameBut
    <3> QED
      BY <1>3, <3>1, <3>2
  <2> QED
    BY <2>1, <2>2 DEF At
\* Where K has changed there is no level n above.
<1>4. ASSUME i <= Len(K), L[i].rep # K[i].rep \/ Degree(L[i]) # Degree(K[i])
      PROVE  i # n /\ Len(K) <= i + 1 /\ (Len(K) = i + 1 => JustStarted(None, s, M, i, K[i + 1]))
  <2>1. Len(K) <= i + 1 /\ (Len(K) = i + 1 => JustStarted(None, s, M, i, K[i + 1]))
    BY <1>2, <1>4 DEF RestartedAbove
  <2>2. ASSUME i = n PROVE FALSE
    <3>1. i - 1 \in 0..(Len(L) - 1) /\ i - 1 < Len(K) /\ (i - 1) + 1 = n /\ (i - 1) + 2 = Len(K)
      <4>1. Len(K) <= i + 1 /\ i < Len(K)
        BY <1>1, <2>1, <2>2
      <4>2. i \in Nat /\ 1 <= i /\ i <= Len(L) /\ Len(L) \in Nat /\ Len(K) \in Nat
        BY <1>1
      <4> QED
        BY <2>2, <4>1, <4>2
    <3>2. Changed(At(L, i - 1), At(K, i - 1))
      BY <1>4, <2>2, <3>1 DEF Changed, At
    <3>3. At(K, (i - 1) + 1) = NewLevel((i - 1) + 1)
      BY <1>1, <3>1, <3>2 DEF Restarting
    <3> QED
      BY <3>1, <3>3
  <2> QED
    BY <2>1, <2>2
<1>5. CASE Len(J) = n + 1
  <2>1. CASE i = n + 1
    BY <1>1, <1>5, <2>1
  <2>2. CASE i # n + 1
    <3>1. J[i] = K[i] /\ i <= Len(K) /\ i <= n
      BY <1>1, <1>3, <1>5, <2>2
    <3>2. i # n /\ Len(K) <= i + 1
      BY <1>4, <3>1
    <3> QED
      BY <1>1, <3>1, <3>2
  <2> QED
    BY <2>1, <2>2
<1>6. CASE SameBut(K, J, n)
  <2>1. Len(J) = Len(K) /\ J[n + 1].rep = K[n + 1].rep /\ Degree(J[n + 1]) = Degree(K[n + 1])
    BY <1>6 DEF SameBut, Changed, At
  <2>2. J[i].rep = K[i].rep /\ Degree(J[i]) = Degree(K[i])
    BY <1>3, <1>6, <2>1
  <2>3. i # n /\ Len(K) <= i + 1 /\ (Len(K) = i + 1 => JustStarted(None, s, M, i, K[i + 1]))
    BY <1>1, <1>4, <2>1, <2>2
  <2>4. Len(J) = i + 1 => J[i + 1] = K[i + 1]
    <3> SUFFICES ASSUME Len(J) = i + 1 PROVE J[i + 1] = K[i + 1]
      OBVIOUS
    <3>1. i + 1 \in 1..Len(J) /\ i + 1 # n + 1
      BY <1>1, <2>3
    <3> QED
      BY <1>3, <1>6, <3>1
  <2> QED
    BY <2>1, <2>3, <2>4
<1> QED
  BY <1>5, <1>6 DEF Elected, Handled

\* TrimVacatedLeadersAndPeers touches only levels the sender does not run.
LEMMA TrimOK ==
  ASSUME NEW me \in Addr, NEW L0, WellFormed(me, L0), NEW L, NEW s, NEW M, Neighbourly(me, s, M),
         LoopInv(me, L0, L, s, M, Len(M))
  PROVE  ReadsOK(me, L0, TrimVacatedLeadersAndPeers(L, s, M), s, M)
<1> DEFINE repLost(n) == At(L, n).rep # None /\ At(L, n).rep_next_hop = s
           hit == {n \in Len(M)..(Len(L) - 1) : repLost(n) \/ Via(L, n, s) # {}}
           first == CHOOSE n \in hit : \A i \in hit : n <= i
           K == TrimVacatedLeadersAndPeers(L, s, M)
           y == NewLevel(0)
<1>1. WellFormed(me, L) /\ Len(L) \in Nat /\ Len(M) \in Nat \ {0}
  BY LevelsShape DEF LoopInv, WellFormed, Neighbourly
<1>2. ASSUME NEW J, \/ J = L
                    \/ \E n \in Len(M)..(Len(L) - 1) :
                         Elected(me, L, J, s, y, n) /\ At(L, n) # NewLevel(n)
      PROVE  ReadsOK(me, L0, J, s, M)
  <2>0. RestartedAbove(None, L0, L, s, M)
    BY <1>1, RestartingAbove DEF LoopInv
  <2>1. CASE J = L
    BY <1>1, <2>0, <2>1, ReadsFromNoNull DEF LoopInv, ReadsOK
  <2>2. CASE \E n \in Len(M)..(Len(L) - 1) :
               Elected(me, L, J, s, y, n) /\ At(L, n) # NewLevel(n)
    <3>1. PICK n \in Len(M)..(Len(L) - 1) :
            Elected(me, L, J, s, y, n) /\ At(L, n) # NewLevel(n)
      BY <2>2
    <3>2. ASSUME NEW m \in 0..(Len(M) - 1) PROVE ReadsNoNull(J, s, M, m)
      <4>1. At(J, m) = At(L, m) /\ ReadsFrom(At(L, m), s, At(M, m))
        BY <1>1, <3>1 DEF Elected, Handled, LoopInv
      <4> QED
        BY <4>1, ReadsFromNoNull
    <3>3. At(J, 0) = At(NeighbourHeard(L0, s, M), 0)
      BY <1>1, <3>1 DEF Elected, Handled, LoopInv
    <3>4. n \in Nat /\ n < Len(L) /\ n \in 0..(Len(L) - 1)
      BY <1>1
    <3>5. RestartedAbove(None, L0, J, s, M)
      BY <1>1, <3>1, RestartedThen DEF LoopInv
    <3>6. Sourced(me, L, J, s)
      BY <1>1, <3>1, <3>4, HandledSourced DEF Elected
    <3>7. Sourced(me, L0, J, s)
      BY <3>6 DEF LoopInv, Sourced
    <3> QED
      BY <3>1, <3>2, <3>3, <3>5, <3>7 DEF ReadsOK, Elected, Handled
  <2> QED
    BY <1>2, <2>1, <2>2
<1>3. CASE hit = {}
  BY <1>2, <1>3 DEF TrimVacatedLeadersAndPeers
<1>4. CASE hit # {}
  <2>1. first \in hit
    <3>1. hit \subseteq Nat
      BY <1>1
    <3> HIDE DEF hit
    <3> QED
      BY <1>4, <3>1, LeastNat
  <2>2. K = IF repLost(first) THEN Unelect(L, first)
            ELSE RemovePeers(L, first, Via(L, first, s))
    BY <1>4 DEF TrimVacatedLeadersAndPeers
  <2>3. /\ first \in Len(M)..(Len(L) - 1) /\ first \in 1..(Len(L) - 1)
        /\ first \in 0..(Len(L) - 1)
        /\ repLost(first) \/ Via(L, first, s) # {}
        /\ At(L, first) # NewLevel(first)
    <3> HIDE DEF first
    <3>1. first \in Len(M)..(Len(L) - 1) /\ (repLost(first) \/ Via(L, first, s) # {})
      BY <2>1
    <3>2. first \in Nat
      BY <1>1, <3>1
    <3>3. At(L, first) # NewLevel(first)
      BY <3>1, <3>2, NewLevelOK DEF Via
    <3> QED
      BY <1>1, <3>1, <3>3
  <2> HIDE DEF first, K
  <2>4. CASE repLost(first)
    <3>1. Elected(me, L, Unelect(L, first), s, y, first)
      BY <1>1, <2>3, UnelectOK
    <3> QED
      BY <1>2, <2>2, <2>3, <2>4, <3>1 DEF K
  <2>5. CASE ~repLost(first)
    <3>1. PeersOf(At(L, first)) # {}
      BY <2>3, <2>5 DEF Via
    <3>2. At(L, first).rep # None
      BY <1>1, <2>3, <3>1, FitsAt DEF Fits
    <3>3. y.rep = None
      BY DEF NewLevel
    <3>4. Elected(me, L, RemovePeers(L, first, Via(L, first, s)), s, y, first)
      BY <1>1, <2>3, <3>2, <3>3, RemovePeersOK DEF Elected
    <3> QED
      BY <1>2, <2>2, <2>3, <2>5, <3>4 DEF K
  <2> QED
    BY <2>4, <2>5
<1> QED
  BY <1>3, <1>4

\* What a node hears makes UpdatePeerValues read no null peer.
LEMMA BeforeValuesOK ==
  ASSUME NEW me, NEW L, WellFormed(me, L), NEW s, NEW M, Neighbourly(me, s, M)
  PROVE  ReadsOK(me, L, BeforeValues(me, L, s, M), s, M)
  BY LevelsReceivedOK, TrimOK DEF BeforeValues, Neighbourly

-----------------------------------------------------------------------------
(* The values. *)

\* Level z has the representative, the peers and the routes to them of x.
SameRoutes(x, z) ==
  /\ z.level = x.level /\ z.rep = x.rep /\ PeersOf(z) = PeersOf(x)
  /\ \A p \in PeersOf(x) : /\ z.peers[p].next_hop = x.peers[p].next_hop
                           /\ z.peers[p].dist = x.peers[p].dist
                           /\ z.peers[p].degree = x.peers[p].degree

\* Levels x and z differ in values and distances to representatives only, and
\* not in the value of a level without a representative.
SameLevel(x, z) ==
  /\ SameRoutes(x, z) /\ z.rep_next_hop = x.rep_next_hop
  /\ x.rep = None => z.rep_value = x.rep_value

SameLevels(L, K) == Len(K) = Len(L) /\ \A i \in 1..Len(L) : SameLevel(L[i], K[i])

LevelValuesIn(V, x) == x.rep_value \in V /\ \A p \in PeersOf(x) : x.peers[p].value \in V

\* Levels with the routes of well-formed ones are well-formed.
LEMMA SameWellFormed ==
  ASSUME NEW me, NEW L, WellFormed(me, L), NEW K \in [1..Len(L) -> AnyLevel],
         \A i \in 1..Len(L) : /\ SameRoutes(L[i], K[i])
                              /\ K[i].rep = None => K[i].rep_next_hop = L[i].rep_next_hop
  PROVE  WellFormed(me, K) /\ Len(K) = Len(L)
<1>1. Len(L) \in Nat \ {0} /\ IsLevels(L)
  BY LevelsShape DEF WellFormed
<1>2. K \in Seq(AnyLevel) /\ Len(K) = Len(L)
  BY <1>1, SeqDef, LenProperties
<1>3. ASSUME NEW n \in 0..(Len(K) - 1) PROVE Fits(me, At(K, n - 1), n, At(K, n))
  <2>1. Fits(me, At(L, n - 1), n, At(L, n)) /\ n + 1 \in 1..Len(L)
    BY <1>1, <1>2, FitsAt
  <2>2. n > 0 => At(K, n - 1).rep = At(L, n - 1).rep /\ PeersOf(At(K, n - 1)) = PeersOf(At(L, n - 1))
    <3>1. n > 0 => (n - 1) + 1 \in 1..Len(L)
      BY <1>1, <1>2
    <3> QED
      BY <3>1 DEF At, SameRoutes
  <2>3. /\ At(K, n) \in AnyLevel /\ SameRoutes(At(L, n), At(K, n))
        /\ At(K, n).rep = None => At(K, n).rep_next_hop = At(L, n).rep_next_hop
    BY <2>1 DEF At
  <2>4. Reached(At(K, n))
    BY <2>1, <2>3 DEF Fits, SameRoutes, Reached, MaxPeerDistance
  <2>5. /\ At(K, n).level = At(L, n).level /\ At(K, n).rep = At(L, n).rep
        /\ PeersOf(At(K, n)) = PeersOf(At(L, n))
    BY <2>3 DEF SameRoutes
  <2> QED
    BY <2>1, <2>2, <2>3, <2>4, <2>5 DEF Fits
<1> QED
  BY <1>1, <1>2, <1>3, FitsWellFormed

\* The level that UpdatePeerValues makes of mine and of the sender's.
LEMMA UpdatedLevelOK ==
  ASSUME NEW mine \in AnyLevel, NEW his \in AnyLevel, NEW s, ReadsFrom(mine, s, his)
  PROVE  LET x == UpdatedLevel(mine, his, s)
         IN  /\ x \in AnyLevel /\ SameRoutes(mine, x) /\ x.rep_next_hop = mine.rep_next_hop
             /\ mine.rep_next_hop # s => x.rep_value = mine.rep_value
             /\ \A V : LevelValuesIn(V, mine) /\ LevelValuesIn(V, his) => LevelValuesIn(V, x)
<1> DEFINE group == mine.rep = his.rep
           value(p) == IF group THEN his.peers[p].value ELSE his.rep_value
           v == IF group /\ mine.rep_next_hop = s THEN his.rep_value ELSE mine.rep_value
           D == DOMAIN mine.peers
           P == [p \in D |-> IF mine.peers[p].next_hop = s
                            THEN [mine.peers[p] EXCEPT !.value = value(p)]
                            ELSE mine.peers[p]]
           x == [mine EXCEPT !.rep_value = v, !.peers = P]
<1>1. UpdatedLevel(mine, his, s) = x
  BY DEF UpdatedLevel
<1>2. /\ mine.peers \in [D -> LubyPeer] /\ D = PeersOf(mine)
      /\ his.peers \in [PeersOf(his) -> LubyPeer]
      /\ his.rep_value \in Int /\ mine.rep_value \in Int
  BY LevelFields DEF PeersOf
<1>3. ASSUME NEW p \in D
      PROVE  /\ P[p] \in LubyPeer
             /\ P[p].next_hop = mine.peers[p].next_hop
             /\ P[p].dist = mine.peers[p].dist /\ P[p].degree = mine.peers[p].degree
             /\ \A V : LevelValuesIn(V, mine) /\ LevelValuesIn(V, his) => P[p].value \in V
  <2>1. CASE mine.peers[p].next_hop = s
    <3>1. group => p \in PeersOf(his)
      BY <1>2, <2>1 DEF ReadsFrom
    <3>2. group => his.peers[p] \in LubyPeer
      BY <1>2, <3>1
    <3>3. value(p) \in Int
      BY <1>2, <3>2 DEF LubyPeer
    <3>4. mine.peers[p] \in LubyPeer
      BY <1>2
    <3> DEFINE w == value(p)
    <3>5. P[p] = [mine.peers[p] EXCEPT !.value = w]
      BY <2>1
    <3>6. \A V : LevelValuesIn(V, his) => w \in V
      BY <3>1 DEF LevelValuesIn
    <3>7. w \in Int
      BY <3>3
    <3> HIDE DEF w, P
    <3>8. /\ P[p] \in LubyPeer /\ P[p].value = w
          /\ P[p].next_hop = mine.peers[p].next_hop
          /\ P[p].dist = mine.peers[p].dist /\ P[p].degree = mine.peers[p].degree
      BY <3>4, <3>5, <3>7 DEF LubyPeer
    <3> QED
      BY <3>6, <3>8
  <2>2. CASE mine.peers[p].next_hop # s
    <3>1. P[p] = mine.peers[p]
      BY <2>2
    <3> HIDE DEF P
    <3> QED
      BY <1>2, <3>1 DEF LevelValuesIn
  <2> QED
    BY <2>1, <2>2
<1>4. P \in [D -> LubyPeer] /\ v \in Int
  BY <1>2, <1>3
<1>5. PICK E \in SUBSET Addr : mine \in Level(E)
  BY DEF AnyLevel
<1>6. E = D
  BY <1>5 DEF Level
<1> HIDE DEF P, v
<1>7. x \in Level(E)
  BY <1>4, <1>5, <1>6 DEF Level
<1>8. x \in AnyLevel
  BY <1>7 DEF AnyLevel
<1>9. /\ x.level = mine.level /\ x.rep = mine.rep /\ x.peers = P /\ x.rep_value = v
      /\ x.rep_next_hop = mine.rep_next_hop /\ PeersOf(x) = PeersOf(mine)
  BY <1>5, <1>6, <1>7 DEF Level, PeersOf
<1>10. /\ \A V : LevelValuesIn(V, mine) /\ LevelValuesIn(V, his) => v \in V
       /\ mine.rep_next_hop # s => v = mine.rep_value
  BY DEF LevelValuesIn, v
<1> HIDE DEF x
<1>11. SameRoutes(mine, x)
  BY <1>2, <1>3, <1>9 DEF SameRoutes
<1>12. ASSUME NEW V, LevelValuesIn(V, mine), LevelValuesIn(V, his) PROVE LevelValuesIn(V, x)
  BY <1>2, <1>3, <1>9, <1>10, <1>12 DEF LevelValuesIn
<1> QED
  BY <1>1, <1>8, <1>9, <1>10, <1>11, <1>12 DEF x

\* UpdatePeerValues changes values only, and takes them from the packet.
LEMMA UpdatePeerValuesOK ==
  ASSUME NEW me, NEW L0, NEW L, NEW s, NEW M, Neighbourly(me, s, M), ReadsOK(me, L0, L, s, M)
  PROVE  /\ WellFormed(me, UpdatePeerValues(L, s, M))
         /\ SameLevels(L, UpdatePeerValues(L, s, M))
         /\ \A V : ValuesIn(V, L) /\ ValuesIn(V, M) => ValuesIn(V, UpdatePeerValues(L, s, M))
<1> DEFINE K == UpdatePeerValues(L, s, M)
<1>1. /\ Len(L) \in Nat \ {0} /\ Len(M) \in Nat /\ WellFormed(me, L)
      /\ \A i \in 1..Len(L) : L[i] \in AnyLevel
      /\ \A i \in 1..Len(M) : M[i] \in AnyLevel
  BY LevelsShape DEF ReadsOK, WellFormed, Neighbourly
<1>2. ASSUME NEW i \in 1..Len(L)
      PROVE  /\ K[i] \in AnyLevel /\ SameRoutes(L[i], K[i])
             /\ K[i].rep_next_hop = L[i].rep_next_hop
             /\ L[i].rep = None => K[i].rep_value = L[i].rep_value
             /\ \A V : ValuesIn(V, L) /\ ValuesIn(V, M) => LevelValuesIn(V, K[i])
  <2>1. CASE i <= Len(M)
    <3>1. i \in 1..Len(M) /\ i - 1 \in 0..(Len(M) - 1) /\ i - 1 < Len(L) /\ (i - 1) + 1 = i
      BY <1>1, <2>1
    <3>2. ReadsFrom(L[i], s, M[i])
      BY <3>1, ReadsFromNoNull DEF ReadsOK, At
    <3>3. K[i] = UpdatedLevel(L[i], M[i], s)
      BY <2>1 DEF UpdatePeerValues
    <3> HIDE DEF K
    <3>4. /\ K[i] \in AnyLevel /\ SameRoutes(L[i], K[i])
          /\ K[i].rep_next_hop = L[i].rep_next_hop
          /\ L[i].rep_next_hop # s => K[i].rep_value = L[i].rep_value
          /\ \A V : LevelValuesIn(V, L[i]) /\ LevelValuesIn(V, M[i]) => LevelValuesIn(V, K[i])
      BY <1>1, <3>1, <3>2, <3>3, UpdatedLevelOK
    <3>5. \A V : ValuesIn(V, L) /\ ValuesIn(V, M) => LevelValuesIn(V, L[i]) /\ LevelValuesIn(V, M[i])
      BY <3>1 DEF ValuesIn, LevelValuesIn
    <3>6. L[i].rep = None => L[i].rep_next_hop # s
      BY <1>1, AddrAssumption DEF WellFormed, NoRepNoPeersOf, Neighbourly, None
    <3> QED
      BY <3>4, <3>5, <3>6
  <2>2. CASE ~(i <= Len(M))
    <3>1. K[i] = L[i]
      BY <2>2 DEF UpdatePeerValues
    <3> HIDE DEF K
    <3> QED
      BY <1>1, <3>1 DEF SameRoutes, ValuesIn, LevelValuesIn
  <2> QED
    BY <2>1, <2>2
<1>3. K \in [1..Len(L) -> AnyLevel]
  <2>1. K = [i \in 1..Len(L) |-> K[i]]
    BY DEF UpdatePeerValues
  <2> HIDE DEF K
  <2> QED
    BY <1>2, <2>1
<1> HIDE DEF K
<1>4. WellFormed(me, K) /\ Len(K) = Len(L)
  BY <1>1, <1>2, <1>3, SameWellFormed
<1>5. SameLevels(L, K)
  BY <1>2, <1>4 DEF SameLevels, SameLevel
<1>6. ASSUME NEW V, ValuesIn(V, L), ValuesIn(V, M) PROVE ValuesIn(V, K)
  BY <1>2, <1>4, <1>6 DEF ValuesIn, LevelValuesIn
<1> QED
  BY <1>4, <1>5, <1>6 DEF K

\* Every value that RecalculateLevelValues takes the median of is there, and
\* the median lies between them.
LEMMA ValuesBelowMedian ==
  ASSUME NEW me, NEW v \in Int, NEW lev \in AnyLevel
  PROVE  /\ MedianOf(ValuesBelow(me, v, lev)) \in Int
         /\ \A lo, hi \in Int :
              v \in lo..hi /\ LevelValuesIn(lo..hi, lev)
              => MedianOf(ValuesBelow(me, v, lev)) \in lo..hi
<1> DEFINE D == PeersOf(lev) \cup {me}
           f == [p \in D |-> IF p = me THEN v ELSE lev.peers[p].value]
<1>1. PeersOf(lev) \subseteq Addr /\ lev.peers \in [PeersOf(lev) -> LubyPeer]
  BY LevelFields
<1>2. IsFiniteSet(D) /\ D # {}
  <2>1. IsFiniteSet(PeersOf(lev))
    BY <1>1, AddrAssumption, FS_Subset
  <2> QED
    BY <2>1, FS_AddElement
<1>3. f \in [D -> Int]
  <2>1. ASSUME NEW p \in PeersOf(lev) PROVE lev.peers[p].value \in Int
    <3>1. lev.peers[p] \in LubyPeer
      BY <1>1
    <3> QED
      BY <3>1 DEF LubyPeer
  <2> QED
    BY <2>1
<1>4. ValuesBelow(me, v, lev) = f
  BY DEF ValuesBelow
<1>5. ASSUME NEW V, v \in V, LevelValuesIn(V, lev) PROVE f \in [D -> V]
  BY <1>5 DEF LevelValuesIn
<1> HIDE DEF D, f
<1>6. MedianOf(f) \in Int
  BY <1>2, <1>3, MedianType
<1>7. ASSUME NEW lo \in Int, NEW hi \in Int, v \in lo..hi, LevelValuesIn(lo..hi, lev)
      PROVE  MedianOf(f) \in lo..hi
  <2>1. f \in [D -> lo..hi]
    BY <1>5, <1>7
  <2> QED
    BY <1>2, <2>1, MedianBetween
<1> QED
  BY <1>4, <1>6, <1>7

\* What RecalculateLevelValues computes for each level, from the lowest up.
RecalculatedValue(me, L, f, n) ==
  IF n > 0 /\ At(L, n).rep = me
  THEN MedianOf(ValuesBelow(me, f[n - 1], At(L, n - 1)))
  ELSE At(L, n).rep_value

\* Such values exist, and RecalculateLevelValues assigns them.
LEMMA RecalculatedValues ==
  ASSUME NEW me, NEW L, WellFormed(me, L)
  PROVE  \E f : /\ \A n \in 0..(Len(L) - 1) : /\ f[n] \in Int
                                             /\ f[n] = RecalculatedValue(me, L, f, n)
               /\ RecalculateLevelValues(me, L)
                    = [i \in 1..Len(L) |-> [L[i] EXCEPT !.rep_value = f[i - 1]]]
<1> DEFINE N == Len(L) - 1
           Assigned(f, n) == IF n > 0 /\ At(L, n).rep = me
                             THEN MedianOf(ValuesBelow(me, f[n - 1], At(L, n - 1)))
                             ELSE At(L, n).rep_value
           Loop(f) == f = [n \in 0..N |-> Assigned(f, n)]
           value == CHOOSE f : Loop(f)
           g == [q \in (0..(N - 1)) \X Int |->
                   IF At(L, q[1] + 1).rep = me
                   THEN MedianOf(ValuesBelow(me, q[2], At(L, q[1])))
                   ELSE At(L, q[1] + 1).rep_value]
<1>1. Len(L) \in Nat \ {0} /\ N \in Nat /\ \A i \in 1..Len(L) : L[i] \in AnyLevel
  BY LevelsShape DEF WellFormed
<1>2. \A n \in 0..N : At(L, n) \in AnyLevel /\ At(L, n).rep_value \in Int
  <2>1. \A n \in 0..N : At(L, n) \in AnyLevel
    BY <1>1 DEF At
  <2> QED
    BY <2>1, LevelFields
<1>3. g \in Steps(N, Int)
  <2>1. ASSUME NEW q \in (0..(N - 1)) \X Int PROVE g[q] \in Int
    <3>1. /\ q[1] \in 0..N /\ q[1] + 1 \in 0..N /\ q[2] \in Int
      BY <1>1
    <3> QED
      BY <1>2, <3>1, ValuesBelowMedian
  <2>2. g = [q \in (0..(N - 1)) \X Int |-> g[q]]
    OBVIOUS
  <2> HIDE DEF g
  <2> QED
    BY <2>1, <2>2 DEF Steps
<1>4. \E h \in [0..N -> Int] : Loop(h)
  <2> DEFINE x == At(L, 0).rep_value
  <2>1. x \in Int
    BY <1>1, <1>2
  <2> HIDE DEF N, g, x
  <2>2. Iterations(N, Int, x, g) # {}
    BY <1>1, <1>3, <2>1, FiniteRecursion
  <2>3. PICK h \in [0..N -> Int] : h[0] = x /\ \A k \in 1..N : h[k] = g[<<k - 1, h[k - 1]>>]
    BY <2>2 DEF Iterations
  <2>4. ASSUME NEW n \in 0..N PROVE h[n] = Assigned(h, n)
    <3>1. CASE n = 0
      BY <2>3, <3>1 DEF x
    <3>2. CASE n # 0
      <4>1. n \in 1..N /\ n - 1 \in 0..(N - 1) /\ n - 1 \in 0..N /\ (n - 1) + 1 = n /\ n > 0
        BY <1>1, <3>2
      <4>2. <<n - 1, h[n - 1]>> \in (0..(N - 1)) \X Int
        BY <4>1
      <4>3. g[<<n - 1, h[n - 1]>>] = Assigned(h, n)
        BY <4>1, <4>2 DEF g
      <4> QED
        BY <2>3, <4>1, <4>3
    <3> QED
      BY <3>1, <3>2
  <2> HIDE DEF Assigned
  <2>5. h = [n \in 0..N |-> Assigned(h, n)]
    BY <2>4
  <2> QED
    BY <2>5
<1>5. Loop(value)
  <2> HIDE DEF Loop
  <2> QED
    BY <1>4
<1>6. RecalculateLevelValues(me, L) = [i \in 1..Len(L) |-> [L[i] EXCEPT !.rep_value = value[i - 1]]]
  BY DEF RecalculateLevelValues
<1> HIDE DEF value
<1>7. \A n \in 0..N : value[n] \in Int
  <2> DEFINE T == {n \in Nat : n <= N => value[n] \in Int}
  <2>1. 0 \in T
    BY <1>1, <1>2, <1>5
  <2>2. ASSUME NEW n \in Nat, n \in T PROVE n + 1 \in T
    <3> SUFFICES ASSUME n + 1 <= N PROVE value[n + 1] \in Int
      OBVIOUS
    <3>1. n \in 0..N /\ n + 1 \in 0..N /\ (n + 1) - 1 = n /\ value[n] \in Int
      BY <1>1, <2>2
    <3>2. value[n + 1] = Assigned(value, n + 1)
      BY <1>5, <3>1
    <3>3. MedianOf(ValuesBelow(me, value[n], At(L, n))) \in Int
      BY <1>2, <3>1, ValuesBelowMedian
    <3> QED
      BY <1>2, <3>1, <3>2, <3>3
  <2> HIDE DEF T
  <2>3. Nat \subseteq T
    BY <2>1, <2>2, SetInduct
  <2> QED
    BY <1>1, <2>3 DEF T
<1>8. \A n \in 0..N : value[n] = RecalculatedValue(me, L, value, n)
  BY <1>5 DEF RecalculatedValue
<1> HIDE DEF Loop, Assigned
<1> QED
  BY <1>6, <1>7, <1>8

\* The values stay where those of the level are.
LEMMA RecalculatedBetween ==
  ASSUME NEW me, NEW L, WellFormed(me, L), NEW f,
         \A n \in 0..(Len(L) - 1) : f[n] \in Int /\ f[n] = RecalculatedValue(me, L, f, n),
         NEW lo \in Int, NEW hi \in Int, ValuesIn(lo..hi, L)
  PROVE  \A n \in 0..(Len(L) - 1) : f[n] \in lo..hi
<1> DEFINE T == {n \in Nat : n <= Len(L) - 1 => f[n] \in lo..hi}
<1>1. Len(L) \in Nat \ {0}
  BY LevelsShape DEF WellFormed
<1>2. ASSUME NEW n \in 0..(Len(L) - 1)
      PROVE At(L, n) \in AnyLevel /\ LevelValuesIn(lo..hi, At(L, n))
  <2>1. n + 1 \in 1..Len(L)
    BY <1>1
  <2> QED
    BY <2>1, LevelsShape DEF At, WellFormed, ValuesIn, LevelValuesIn
<1>3. 0 \in T
  <2>1. 0 \in 0..(Len(L) - 1)
    BY <1>1
  <2>2. f[0] = At(L, 0).rep_value
    BY <2>1 DEF RecalculatedValue
  <2> QED
    BY <1>2, <2>1, <2>2 DEF LevelValuesIn
<1>4. ASSUME NEW n \in Nat, n \in T PROVE n + 1 \in T
  <2> SUFFICES ASSUME n + 1 <= Len(L) - 1 PROVE f[n + 1] \in lo..hi
    OBVIOUS
  <2>1. n \in 0..(Len(L) - 1) /\ n + 1 \in 0..(Len(L) - 1) /\ (n + 1) - 1 = n /\ f[n] \in lo..hi
    BY <1>1, <1>4
  <2>2. MedianOf(ValuesBelow(me, f[n], At(L, n))) \in lo..hi
    BY <1>2, <2>1, ValuesBelowMedian
  <2>3. At(L, n + 1).rep_value \in lo..hi
    BY <1>2, <2>1 DEF LevelValuesIn
  <2>4. f[n + 1] = RecalculatedValue(me, L, f, n + 1)
    BY <2>1
  <2> QED
    BY <2>1, <2>2, <2>3, <2>4 DEF RecalculatedValue
<1> HIDE DEF T
<1>5. Nat \subseteq T
  BY <1>3, <1>4, SetInduct
<1> QED
  BY <1>1, <1>5 DEF T

\* RecalculateLevelValues changes values only, and never leaves their range.
LEMMA RecalculateLevelValuesOK ==
  ASSUME NEW me \in Addr, NEW L, WellFormed(me, L)
  PROVE  /\ WellFormed(me, RecalculateLevelValues(me, L))
         /\ SameLevels(L, RecalculateLevelValues(me, L))
         /\ \A lo, hi \in Int : ValuesIn(lo..hi, L)
                                => ValuesIn(lo..hi, RecalculateLevelValues(me, L))
<1> DEFINE K == RecalculateLevelValues(me, L)
<1>1. Len(L) \in Nat \ {0} /\ \A i \in 1..Len(L) : L[i] \in AnyLevel
  BY LevelsShape DEF WellFormed
<1>2. PICK value : /\ \A n \in 0..(Len(L) - 1) : /\ value[n] \in Int
                                                /\ value[n] = RecalculatedValue(me, L, value, n)
                   /\ K = [i \in 1..Len(L) |-> [L[i] EXCEPT !.rep_value = value[i - 1]]]
  BY RecalculatedValues
<1>3. ASSUME NEW i \in 1..Len(L)
      PROVE  /\ K[i] \in AnyLevel /\ SameRoutes(L[i], K[i])
             /\ K[i].rep_next_hop = L[i].rep_next_hop
             /\ K[i].peers = L[i].peers /\ K[i].rep_value = value[i - 1]
             /\ L[i].rep = None => K[i].rep_value = L[i].rep_value
  <2> DEFINE v == value[i - 1]
             x == [L[i] EXCEPT !.rep_value = v]
  <2>1. v \in Int
    BY <1>1, <1>2
  <2>2. K[i] = x
    BY <1>2
  <2>3. PICK E \in SUBSET Addr : L[i] \in Level(E)
    BY <1>1 DEF AnyLevel
  <2>8. L[i].rep = None => v = L[i].rep_value
    <3>1. i - 1 \in 0..(Len(L) - 1) /\ At(L, i - 1) = L[i] /\ me # None
      BY <1>1, AddrAssumption DEF At, None
    <3>2. value[i - 1] = RecalculatedValue(me, L, value, i - 1)
      BY <1>2, <3>1
    <3> QED
      BY <3>1, <3>2 DEF RecalculatedValue
  <2> HIDE DEF v, K
  <2>4. x \in Level(E)
    BY <2>1, <2>3 DEF Level
  <2>5. x \in AnyLevel
    BY <2>4 DEF AnyLevel
  <2>6. /\ x.level = L[i].level /\ x.rep = L[i].rep /\ x.peers = L[i].peers
        /\ x.rep_next_hop = L[i].rep_next_hop /\ x.rep_value = v
    BY <2>3 DEF Level
  <2>7. SameRoutes(L[i], x)
    BY <2>6 DEF SameRoutes, PeersOf
  <2> HIDE DEF x
  <2> QED
    BY <2>2, <2>5, <2>6, <2>7, <2>8 DEF v
<1>4. K \in [1..Len(L) -> AnyLevel]
  <2> HIDE DEF K
  <2>1. K = [i \in 1..Len(L) |-> K[i]]
    BY <1>2
  <2> QED
    BY <1>3, <2>1
<1> HIDE DEF K
<1>5. WellFormed(me, K) /\ Len(K) = Len(L)
  BY <1>3, <1>4, SameWellFormed
<1>6. SameLevels(L, K)
  BY <1>3, <1>5 DEF SameLevels, SameLevel
<1>7. ASSUME NEW lo \in Int, NEW hi \in Int, ValuesIn(lo..hi, L) PROVE ValuesIn(lo..hi, K)
  <2>1. \A n \in 0..(Len(L) - 1) : value[n] \in lo..hi
    BY <1>2, <1>7, RecalculatedBetween
  <2>2. ASSUME NEW i \in 1..Len(K)
        PROVE  K[i].rep_value \in lo..hi /\ \A p \in PeersOf(K[i]) : K[i].peers[p].value \in lo..hi
    <3>1. i - 1 \in 0..(Len(L) - 1) /\ i \in 1..Len(L)
      BY <1>1, <1>5
    <3> QED
      BY <1>3, <1>7, <2>1, <3>1 DEF ValuesIn, PeersOf
  <2> QED
    BY <2>2 DEF ValuesIn
<1> QED
  BY <1>5, <1>6, <1>7 DEF K

\* K is L with me as the representative of its last level, which is not level 0.
SelfElected(me, L, K) ==
  /\ Len(K) = Len(L) /\ Len(L) > 1
  /\ \A i \in 1..(Len(L) - 1) : K[i] = L[i]
  /\ Top(L).rep = None /\ Top(K).rep = me /\ Top(K).rep_next_hop = me
  /\ Top(K).rep_value = Top(L).rep_value /\ PeersOf(Top(K)) = {}

\* A node elects itself only above a level it represents and that has peers.
LEMMA TryToBecomeRepOK ==
  ASSUME NEW me \in Addr, NEW L, WellFormed(me, L), NEW lucky
  PROVE  /\ WellFormed(me, TryToBecomeRep(me, L, lucky))
         /\ \/ TryToBecomeRep(me, L, lucky) = L
            \/ SelfElected(me, L, TryToBecomeRep(me, L, lucky))
<1> DEFINE n == Len(L) - 1
           x == [Top(L) EXCEPT !.rep = me, !.rep_next_hop = me, !.rep_dist = 0, !.peers = NoPeers]
<1>1. /\ IsLevels(L) /\ n \in 0..(Len(L) - 1) /\ n \in Nat /\ n + 1 = Len(L)
      /\ Top(L) = At(L, n)
  BY LevelsShape DEF WellFormed, Top, At
<1>2. Fits(me, At(L, n - 1), n, Top(L)) /\ Top(L) \in AnyLevel /\ Top(L).level = n
  BY <1>1, FitsAt DEF Fits
<1>3. me # None
  BY AddrAssumption DEF None
<1>4. SUFFICES ASSUME CanBecomeRep(me, L)
               PROVE  WellFormed(me, BecomeRep(me, L)) /\ SelfElected(me, L, BecomeRep(me, L))
  BY DEF TryToBecomeRep
<1>5. n > 0 /\ L[n].rep = me /\ PeersOf(L[n]) # {} /\ At(L, n - 1) = L[n]
  <2>1. n # 0
    BY <1>2, <1>3, <1>4 DEF CanBecomeRep, Fits
  <2> QED
    BY <1>1, <1>2, <1>4, <2>1 DEF CanBecomeRep, At
<1>6. /\ x \in AnyLevel /\ x.level = n /\ x.rep = me /\ x.rep_next_hop = me
      /\ x.rep_value = Top(L).rep_value /\ PeersOf(x) = {}
  <2>1. ASSUME NEW z \in AnyLevel
        PROVE  LET w == [z EXCEPT !.rep = me, !.rep_next_hop = me, !.rep_dist = 0, !.peers = NoPeers]
               IN  /\ w \in AnyLevel /\ w.level = z.level
                   /\ w.rep = me /\ w.rep_next_hop = me /\ w.rep_value = z.rep_value
                   /\ PeersOf(w) = {}
    BY LevelWithRep
  <2> QED
    BY <1>2, <2>1
<1>7. BecomeRep(me, L) = [SetMaxLevel(L, n) EXCEPT ![n + 1] = x]
  <2>1. SetMaxLevel(L, n) = L
    BY <1>1 DEF SetMaxLevel
  <2> QED
    BY <1>1, <2>1 DEF BecomeRep, Top
<1> HIDE DEF x
<1>8. BecomeRep(me, L) = Cut(L, n, x)
  BY <1>1, <1>7, SetMaxLevelExcept
<1>9. Fits(me, At(L, n - 1), n, x)
  BY <1>3, <1>5, <1>6 DEF Fits, Reached
<1>10. WellFormed(me, BecomeRep(me, L))
  <2> HIDE DEF n
  <2> QED
    BY <1>1, <1>8, <1>9, CutWellFormed
<1>11. SelfElected(me, L, BecomeRep(me, L))
  <2> DEFINE K == Cut(L, n, x)
  <2>1. Len(K) = Len(L) /\ At(K, n) = x
    BY <1>1, <1>6, CutShape
  <2>2. \A i \in 1..n : K[i] = L[i]
    <3> HIDE DEF n
    <3> QED
      BY <1>1 DEF Cut
  <2> HIDE DEF K
  <2>3. Top(K) = x
    BY <1>1, <2>1 DEF Top, At
  <2>4. SelfElected(me, L, K)
    BY <1>1, <1>4, <1>5, <1>6, <2>1, <2>2, <2>3 DEF SelfElected, CanBecomeRep
  <2> QED
    BY <1>8, <2>4 DEF K
<1> QED
  BY <1>10, <1>11

-----------------------------------------------------------------------------
(* The handler as a whole.                                                    *)

\* Levels with the routes of levels with the routes.
LEMMA SameTwice ==
  ASSUME NEW L, NEW K, NEW J, SameLevels(L, K), SameLevels(K, J)
  PROVE  SameLevels(L, J)
<1>1. ASSUME NEW i \in 1..Len(L) PROVE SameLevel(L[i], J[i])
  <2>1. SameLevel(L[i], K[i]) /\ SameLevel(K[i], J[i])
    BY DEF SameLevels
  <2> QED
    BY <2>1 DEF SameLevel, SameRoutes
<1> QED
  BY <1>1 DEF SameLevels

\* The handler in three stages: J before UpdatePeerValues, K before
\* TryToBecomeRep and R at the end.
Stages(me, L, packet, J, K, R) ==
  /\ ReadsOK(me, L, J, packet.sender, packet.levels)
  /\ WellFormed(me, K) /\ SameLevels(J, K)
  /\ \A lo, hi \in Int :
       ValuesIn(lo..hi, J) /\ ValuesIn(lo..hi, packet.levels) => ValuesIn(lo..hi, K)
  /\ WellFormed(me, R) /\ (R = K \/ SelfElected(me, K, R))

\* The handler passes through these stages.
LEMMA ReceivedInStages ==
  ASSUME NEW me, NEW L, WellFormed(me, L), NEW packet,
         Neighbourly(me, packet.sender, packet.levels), NEW lucky
  PROVE  \E J, K : Stages(me, L, packet, J, K, Received(me, L, packet, lucky))
<1> DEFINE s == packet.sender
           M == packet.levels
           J == BeforeValues(me, L, s, M)
           I == UpdatePeerValues(J, s, M)
           K == RecalculateLevelValues(me, I)
           R == TryToBecomeRep(me, K, lucky)
<1>1. me \in Addr
  BY DEF Neighbourly
<1>2. Received(me, L, packet, lucky) = R
  BY DEF Received
<1>3. ReadsOK(me, L, J, s, M)
  BY BeforeValuesOK
<1> HIDE DEF J
<1>4. /\ WellFormed(me, I) /\ SameLevels(J, I)
      /\ \A V : ValuesIn(V, J) /\ ValuesIn(V, M) => ValuesIn(V, I)
  BY <1>3, UpdatePeerValuesOK
<1> HIDE DEF I
<1>5. /\ WellFormed(me, K) /\ SameLevels(I, K)
      /\ \A lo, hi \in Int : ValuesIn(lo..hi, I) => ValuesIn(lo..hi, K)
  BY <1>1, <1>4, RecalculateLevelValuesOK
<1> HIDE DEF K
<1>6. WellFormed(me, R) /\ (R = K \/ SelfElected(me, K, R))
  BY <1>1, <1>5, TryToBecomeRepOK
<1> HIDE DEF R
<1>7. SameLevels(J, K)
  BY <1>4, <1>5, SameTwice
<1>8. Stages(me, L, packet, J, K, R)
  BY <1>3, <1>4, <1>5, <1>6, <1>7 DEF Stages
<1> QED
  BY <1>2, <1>8

\* The handler of a packet keeps a node's levels well-formed.
THEOREM ReceivedOK ==
  ASSUME NEW me, NEW L, WellFormed(me, L), NEW packet,
         Neighbourly(me, packet.sender, packet.levels), NEW lucky
  PROVE  WellFormed(me, Received(me, L, packet, lucky))
  BY ReceivedInStages DEF Stages

\* So does its way over the wire.
LEMMA PacketOK ==
  ASSUME NEW me, NEW L, WellFormed(me, L)
  PROVE  /\ Packet(L).sender = me /\ WellFormed(me, Packet(L).levels)
         /\ \A V : ValuesIn(V, L) => ValuesIn(V, Packet(L).levels)
<1> DEFINE K == [i \in 1..Len(L) |-> OnWire(L[i])]
<1>1. /\ Len(L) \in Nat \ {0} /\ L[1].rep = me /\ NoRepNoPeersOf(L)
      /\ \A i \in 1..Len(L) : L[i] \in AnyLevel
  BY LevelsShape DEF WellFormed
<1>2. ASSUME NEW i \in 1..Len(L)
      PROVE  /\ K[i] \in AnyLevel /\ SameRoutes(L[i], K[i]) /\ K[i].rep = L[i].rep
             /\ K[i].rep_next_hop = None
             /\ K[i].peers = L[i].peers /\ K[i].rep_value = L[i].rep_value
  <2>1. PICK E \in SUBSET Addr : L[i] \in Level(E)
    BY <1>1 DEF AnyLevel
  <2> DEFINE x == OnWire(L[i])
  <2>2. x \in Level(E)
    BY <2>1 DEF Level, OnWire
  <2>3. x \in AnyLevel
    BY <2>2 DEF AnyLevel
  <2>4. /\ x.level = L[i].level /\ x.rep = L[i].rep /\ x.rep_next_hop = None
        /\ x.peers = L[i].peers /\ x.rep_value = L[i].rep_value
    BY <2>1 DEF Level, OnWire
  <2>5. K[i] = x
    OBVIOUS
  <2> HIDE DEF x, K
  <2> QED
    BY <2>3, <2>4, <2>5 DEF SameRoutes, PeersOf
<1>3. \A i \in 1..Len(L) : K[i].rep = None => K[i].rep_next_hop = L[i].rep_next_hop
  BY <1>1, <1>2 DEF NoRepNoPeersOf
<1>4. K \in [1..Len(L) -> AnyLevel]
  BY <1>2
<1>5. Packet(L) = [sender |-> At(L, 0).rep, levels |-> K]
  BY DEF Packet
<1> HIDE DEF K
<1>6. WellFormed(me, K) /\ Len(K) = Len(L)
  BY <1>2, <1>3, <1>4, SameWellFormed
<1>7. ASSUME NEW V, ValuesIn(V, L) PROVE ValuesIn(V, K)
  BY <1>2, <1>6, <1>7 DEF ValuesIn, PeersOf
<1> QED
  BY <1>1, <1>5, <1>6, <1>7 DEF At

\* A node starts well-formed.
LEMMA StartedOK ==
  ASSUME NEW me \in Addr, NEW v \in Int
  PROVE  /\ WellFormed(me, Started(me, v)) /\ NextHopIsNeighbourOf(me, Started(me, v))
         /\ \A V : v \in V => ValuesIn(V, Started(me, v))
<1> DEFINE x == [NewLevel(0) EXCEPT !.rep = me, !.rep_value = v]
<1>1. NoPeers \in [{} -> LubyPeer]
  BY DEF NoPeers
<1>2. x \in Level({})
  BY <1>1 DEF NewLevel, Level
<1>3. /\ x \in AnyLevel /\ x.level = 0 /\ x.rep = me /\ PeersOf(x) = {}
      /\ x.rep_next_hop = None /\ x.rep_value = v
  BY <1>2 DEF AnyLevel, NewLevel, PeersOf, NoPeers
<1> DEFINE L == <<x>>
<1>4. Started(me, v) = L
  BY DEF Started
<1> HIDE DEF x
<1>5. me # None
  BY AddrAssumption DEF None
<1>6. L \in Seq(AnyLevel) /\ Len(L) = 1 /\ At(L, 0) = x /\ L[1] = x
  BY <1>3 DEF At
<1> HIDE DEF L
<1>7. \A n \in 0..(Len(L) - 1) : Fits(me, At(L, n - 1), n, At(L, n))
  BY <1>3, <1>5, <1>6 DEF Fits, Reached
<1>8. Len(L) > 0
  BY <1>6
<1>9. WellFormed(me, L)
  BY <1>6, <1>7, <1>8, FitsWellFormed
<1>10. NextHopIsNeighbourOf(me, L) /\ \A V : v \in V => ValuesIn(V, L)
  BY <1>3, <1>6 DEF NextHopIsNeighbourOf, ValuesIn
<1> QED
  BY <1>4, <1>9, <1>10

-----------------------------------------------------------------------------
(* What the handler makes of level 0: nothing after NeighbourHeard changes the *)
(* neighbours or their degrees.                                                *)

\* What is known of the neighbours' degrees after s has told its degree.
HeardOf(heard, s, degree) ==
  [p \in DOMAIN heard \cup {s} |-> IF p = s THEN degree ELSE heard[p]]

\* The degrees of level 0 after a packet from s that tells a degree.
LEMMA HeardDegrees ==
  ASSUME NEW me, NEW L, WellFormed(me, L), NEW s, NEW M, Neighbourly(me, s, M)
  PROVE  Degree(At(NeighbourHeard(L, s, M), 0))
           = HeardOf(Degree(At(L, 0)), s, NumPeers(At(M, 0)))
<1> DEFINE mine == At(L, 0).peers
           degree == NumPeers(At(M, 0))
           entry == [degree |-> degree, value |-> 0, next_hop |-> s, dist |-> 1]
<1>1. 0 \in 0..(Len(L) - 1) /\ IsLevels(L)
  BY LevelsShape DEF WellFormed
<1>2. At(L, 0) \in AnyLevel
  BY <1>1, FitsAt DEF Fits
<1>3. /\ mine \in [DOMAIN mine -> LubyPeer]
      /\ \A p \in DOMAIN mine : mine[p] \in LubyPeer
      /\ Degree(At(L, 0)) = [p \in DOMAIN mine |-> mine[p].degree]
  BY <1>2, LevelFields DEF PeersOf, Degree
<1>4. \A P : At(WithPeers(SetMaxLevel(L, 0), 0, P), 0).peers = P
  BY <1>1, PeersReplaced
<1>5. CASE s \notin DOMAIN mine
  <2> DEFINE P == [p \in DOMAIN mine \cup {s} |-> IF p = s THEN entry ELSE mine[p]]
  <2>1. NeighbourHeard(L, s, M) = WithPeers(SetMaxLevel(L, 0), 0, P)
    BY <1>5 DEF NeighbourHeard
  <2>2. At(NeighbourHeard(L, s, M), 0).peers = P
    <3> HIDE DEF P
    <3> QED
      BY <1>4, <2>1
  <2> QED
    BY <1>3, <2>2 DEF Degree, PeersOf, HeardOf
<1>6. CASE s \in DOMAIN mine /\ mine[s].degree # degree
  <2> DEFINE P == [mine EXCEPT ![s].degree = degree]
  <2>1. NeighbourHeard(L, s, M) = WithPeers(SetMaxLevel(L, 0), 0, P)
    BY <1>6 DEF NeighbourHeard
  <2>2. At(NeighbourHeard(L, s, M), 0).peers = P
    <3> HIDE DEF P
    <3> QED
      BY <1>4, <2>1
  <2>3. \A p \in DOMAIN mine : P[p].degree = IF p = s THEN degree ELSE mine[p].degree
    BY <1>3 DEF LubyPeer
  <2>4. DOMAIN P = DOMAIN mine /\ DOMAIN mine = DOMAIN mine \cup {s}
    BY <1>6
  <2> QED
    BY <1>3, <2>2, <2>3, <2>4 DEF Degree, PeersOf, HeardOf
<1>7. CASE s \in DOMAIN mine /\ mine[s].degree = degree
  <2>1. NeighbourHeard(L, s, M) = L
    BY <1>7 DEF NeighbourHeard
  <2>2. DOMAIN mine = DOMAIN mine \cup {s}
    BY <1>7
  <2> QED
    BY <1>3, <1>7, <2>1, <2>2 DEF Degree, PeersOf, HeardOf
<1> QED
  BY <1>5, <1>6, <1>7

\* Levels with the same routes have the same degrees.
LEMMA SameDegrees ==
  ASSUME NEW x, NEW z, SameRoutes(x, z)
  PROVE  Degree(z) = Degree(x) /\ z.rep = x.rep /\ PeersOf(z) = PeersOf(x)
  BY DEF SameRoutes, Degree

\* Level 0 after a packet: the degrees are those of NeighbourHeard.
THEOREM ReceivedDegrees ==
  ASSUME NEW me, NEW L, WellFormed(me, L), NEW packet,
         Neighbourly(me, packet.sender, packet.levels), NEW lucky
  PROVE  Degree(At(Received(me, L, packet, lucky), 0))
           = HeardOf(Degree(At(L, 0)), packet.sender, NumPeers(At(packet.levels, 0)))
<1> DEFINE R == Received(me, L, packet, lucky)
<1>1. PICK J, K : Stages(me, L, packet, J, K, R)
  BY ReceivedInStages
<1> HIDE DEF R
<1>2. 1 \in 1..Len(J) /\ Len(J) = Len(K) /\ Len(K) \in Nat \ {0}
  BY <1>1, LevelsShape DEF Stages, ReadsOK, WellFormed, SameLevels
<1>3. Degree(K[1]) = Degree(J[1])
  BY <1>1, <1>2, SameDegrees DEF Stages, SameLevels, SameLevel
<1>4. R[1] = K[1]
  BY <1>1, <1>2 DEF Stages, SelfElected
<1>5. Degree(At(J, 0)) = HeardOf(Degree(At(L, 0)), packet.sender, NumPeers(At(packet.levels, 0)))
  <2>1. At(J, 0) = At(NeighbourHeard(L, packet.sender, packet.levels), 0)
    BY <1>1 DEF Stages, ReadsOK
  <2> QED
    BY <2>1, HeardDegrees
<1> QED
  BY <1>3, <1>4, <1>5 DEF At, R

-----------------------------------------------------------------------------
(* What the handler makes of routes and values, and what it restarts.         *)

\* What the levels before UpdatePeerValues are drawn from.
LEMMA BeforeValuesDrawn ==
  ASSUME NEW me, NEW L, WellFormed(me, L), NEW s, NEW M, Neighbourly(me, s, M),
         NEW J, ReadsOK(me, L, J, s, M),
         NEW H, NEW V, s \in H, 0 \in V, ValuesIn(V, L),
         \A i \in 1..Len(L) : /\ L[i].rep_next_hop \in H \cup {None, me}
                              /\ \A p \in PeersOf(L[i]) : L[i].peers[p].next_hop \in H
  PROVE  \A i \in 1..Len(J) : Drawn(me, H, V, J[i])
<1>1. Len(L) \in Nat /\ Len(J) \in Nat
  BY LevelsShape DEF ReadsOK, WellFormed
<1>2. ASSUME NEW m \in 0..(Len(L) - 1) PROVE Drawn(me, H, V, At(L, m))
  <2>1. m + 1 \in 1..Len(L)
    BY <1>1
  <2> QED
    BY <2>1 DEF At, Drawn, ValuesIn
<1>3. AllDrawn(me, H, V, J)
  BY <1>2 DEF ReadsOK, Sourced, AllDrawn
<1>4. ASSUME NEW i \in 1..Len(J) PROVE Drawn(me, H, V, J[i])
  <2>1. i - 1 \in 0..(Len(J) - 1) /\ (i - 1) + 1 = i
    BY <1>1
  <2> QED
    BY <1>3, <2>1 DEF AllDrawn, At
<1> QED
  BY <1>4

\* Every route of a node leaves through a neighbour, also after a packet.
THEOREM ReceivedHops ==
  ASSUME NEW me, NEW L, WellFormed(me, L), NEW packet,
         Neighbourly(me, packet.sender, packet.levels), NEW lucky,
         NextHopIsNeighbourOf(me, L)
  PROVE  NextHopIsNeighbourOf(me, Received(me, L, packet, lucky))
<1> DEFINE R == Received(me, L, packet, lucky)
           s == packet.sender
           M == packet.levels
           H == PeersOf(L[1]) \cup {s}
<1>1. PICK J, K : Stages(me, L, packet, J, K, R)
  BY ReceivedInStages
<1>2. PeersOf(R[1]) = H
  <2>1. Degree(At(R, 0)) = HeardOf(Degree(At(L, 0)), s, NumPeers(At(M, 0)))
    BY ReceivedDegrees
  <2>2. DOMAIN Degree(At(R, 0)) = DOMAIN Degree(At(L, 0)) \cup {s}
    BY <2>1 DEF HeardOf
  <2> HIDE DEF R
  <2> QED
    BY <2>2 DEF Degree, At
<1> HIDE DEF R
<1>3. /\ WellFormed(me, L) /\ Len(L) \in Nat \ {0} /\ Len(J) \in Nat /\ Len(K) = Len(J)
      /\ \A i \in 1..Len(L) : L[i] \in AnyLevel
  BY <1>1, LevelsShape DEF Stages, ReadsOK, WellFormed, SameLevels
<1>4. ValuesIn(Int, L)
  <2>1. ASSUME NEW i \in 1..Len(L)
        PROVE  L[i].rep_value \in Int /\ \A p \in PeersOf(L[i]) : L[i].peers[p].value \in Int
    <3>1. L[i].rep_value \in Int /\ L[i].peers \in [PeersOf(L[i]) -> LubyPeer]
      BY <1>3, LevelFields
    <3> QED
      BY <3>1 DEF LubyPeer
  <2> QED
    BY <2>1 DEF ValuesIn
<1>5. \A i \in 1..Len(J) : Drawn(me, H, Int, J[i])
  <2>1. \A i \in 1..Len(L) : /\ L[i].rep_next_hop \in H \cup {None, me}
                             /\ \A p \in PeersOf(L[i]) : L[i].peers[p].next_hop \in H
    BY DEF NextHopIsNeighbourOf
  <2>2. ReadsOK(me, L, J, s, M) /\ s \in H /\ 0 \in Int
    BY <1>1 DEF Stages
  <2> HIDE DEF H, s, M
  <2> QED
    BY <1>4, <2>1, <2>2, BeforeValuesDrawn DEF s, M
<1> HIDE DEF H
<1>6. ASSUME NEW i \in 1..Len(K)
      PROVE  /\ K[i].rep_next_hop \in H \cup {None, me}
             /\ \A p \in PeersOf(K[i]) : K[i].peers[p].next_hop \in H
  <2>1. SameLevel(J[i], K[i]) /\ Drawn(me, H, Int, J[i])
    BY <1>1, <1>3, <1>5 DEF Stages, SameLevels
  <2> QED
    BY <2>1 DEF SameLevel, SameRoutes, Drawn
<1>7. ASSUME NEW i \in 1..Len(R)
      PROVE  /\ R[i].rep_next_hop \in H \cup {None, me}
             /\ \A p \in PeersOf(R[i]) : R[i].peers[p].next_hop \in H
  <2>1. CASE R = K
    BY <1>6, <2>1
  <2>2. CASE SelfElected(me, K, R) /\ i = Len(K)
    BY <2>2 DEF SelfElected, Top
  <2>3. CASE SelfElected(me, K, R) /\ i # Len(K)
    <3>1. i \in 1..(Len(K) - 1) /\ i \in 1..Len(K)
      BY <1>3, <2>3 DEF SelfElected
    <3> QED
      BY <1>6, <2>3, <3>1 DEF SelfElected
  <2> QED
    BY <1>1, <2>1, <2>2, <2>3 DEF Stages
<1> QED
  BY <1>2, <1>7 DEF NextHopIsNeighbourOf, R

\* The values of a node stay in the range of its own and the sender's, which
\* includes the 0 that levels start from.
THEOREM ReceivedValues ==
  ASSUME NEW me, NEW L, WellFormed(me, L), NEW packet,
         Neighbourly(me, packet.sender, packet.levels), NEW lucky,
         NEW lo \in Int, NEW hi \in Int, 0 \in lo..hi,
         ValuesIn(lo..hi, L), ValuesIn(lo..hi, packet.levels)
  PROVE  ValuesIn(lo..hi, Received(me, L, packet, lucky))
<1> DEFINE R == Received(me, L, packet, lucky)
<1>1. PICK J, K : Stages(me, L, packet, J, K, R)
  BY ReceivedInStages
<1> HIDE DEF R
<1>2. /\ Len(K) \in Nat /\ \A i \in 1..Len(L) : L[i] \in AnyLevel
  BY <1>1, LevelsShape DEF Stages, WellFormed
<1>3. ValuesIn(lo..hi, J)
  <2>1. ASSUME NEW i \in 1..Len(L)
        PROVE  /\ L[i].rep_next_hop \in Addr \cup {None, me}
               /\ \A p \in PeersOf(L[i]) : L[i].peers[p].next_hop \in Addr
    <3>1. L[i].rep_next_hop \in Addr \cup {None} /\ L[i].peers \in [PeersOf(L[i]) -> LubyPeer]
      BY <1>2, LevelFields
    <3> QED
      BY <3>1 DEF LubyPeer
  <2>2. ReadsOK(me, L, J, packet.sender, packet.levels) /\ packet.sender \in Addr
    BY <1>1 DEF Stages, Neighbourly
  <2>3. \A i \in 1..Len(J) : Drawn(me, Addr, lo..hi, J[i])
    BY <2>1, <2>2, BeforeValuesDrawn
  <2> QED
    BY <2>3 DEF ValuesIn, Drawn
<1>4. ValuesIn(lo..hi, K)
  BY <1>1, <1>3 DEF Stages
<1>5. CASE SelfElected(me, K, R)
  <2>1. ASSUME NEW i \in 1..Len(R)
        PROVE  R[i].rep_value \in lo..hi /\ \A p \in PeersOf(R[i]) : R[i].peers[p].value \in lo..hi
    <3>1. CASE i = Len(K)
      <4>1. Len(K) \in 1..Len(K)
        BY <1>2, <1>5 DEF SelfElected
      <4> QED
        BY <1>4, <1>5, <3>1, <4>1 DEF SelfElected, Top, ValuesIn
    <3>2. CASE i # Len(K)
      <4>1. i \in 1..(Len(K) - 1) /\ i \in 1..Len(K)
        BY <1>2, <1>5, <3>2 DEF SelfElected
      <4> QED
        BY <1>4, <1>5, <4>1 DEF SelfElected, ValuesIn
    <3> QED
      BY <3>1, <3>2
  <2> QED
    BY <2>1 DEF ValuesIn, R
<1> QED
  BY <1>1, <1>4, <1>5 DEF Stages, R

\* A packet that changes what an election depends on leaves no level above but
\* one that has just been started.
THEOREM ReceivedRestarts ==
  ASSUME NEW me, NEW L, WellFormed(me, L), NEW packet,
         Neighbourly(me, packet.sender, packet.levels), NEW lucky
  PROVE  RestartedAbove(me, L, Received(me, L, packet, lucky), packet.sender, packet.levels)
<1> DEFINE s == packet.sender
           M == packet.levels
           R == Received(me, L, packet, lucky)
<1>1. PICK J, K : Stages(me, L, packet, J, K, R)
  BY ReceivedInStages
<1> HIDE DEF R
<1>2. Len(L) \in Nat /\ Len(J) \in Nat /\ Len(K) = Len(J)
  BY <1>1, LevelsShape DEF Stages, ReadsOK, WellFormed, SameLevels
<1>3. RestartedAbove(None, L, J, s, M)
  BY <1>1 DEF Stages, ReadsOK
<1>4. ASSUME NEW i \in 1..Len(J)
      PROVE  /\ K[i].rep = J[i].rep /\ Degree(K[i]) = Degree(J[i]) /\ PeersOf(K[i]) = PeersOf(J[i])
             /\ K[i].rep_next_hop = J[i].rep_next_hop
             /\ J[i].rep = None => K[i].rep_value = J[i].rep_value
  <2>1. SameLevel(J[i], K[i])
    BY <1>1 DEF Stages, SameLevels
  <2> QED
    BY <2>1, SameDegrees DEF SameLevel
<1>5. ASSUME NEW i \in 1..Len(L), i <= Len(K),
             L[i].rep # K[i].rep \/ Degree(L[i]) # Degree(K[i])
      PROVE  Len(K) <= i + 1 /\ (Len(K) = i + 1 => JustStarted(None, s, M, i, K[i + 1]))
  <2>1. i \in 1..Len(J) /\ i <= Len(J)
    BY <1>2, <1>5
  <2>2. L[i].rep # J[i].rep \/ Degree(L[i]) # Degree(J[i])
    BY <1>4, <1>5, <2>1
  <2>3. Len(J) <= i + 1 /\ (Len(J) = i + 1 => JustStarted(None, s, M, i, J[i + 1]))
    BY <1>3, <2>1, <2>2 DEF RestartedAbove
  <2>4. ASSUME Len(J) = i + 1 PROVE JustStarted(None, s, M, i, K[i + 1])
    <3>1. i + 1 \in 1..Len(J)
      BY <1>2, <2>4
    <3>2. JustStarted(None, s, M, i, J[i + 1])
      BY <2>3, <2>4
    <3> QED
      BY <1>4, <3>1, <3>2 DEF JustStarted
  <2> QED
    BY <1>2, <2>3, <2>4
<1>6. ASSUME NEW n, NEW lev, JustStarted(None, s, M, n, lev) PROVE JustStarted(me, s, M, n, lev)
  BY <1>6 DEF JustStarted
<1>7. CASE R = K
  BY <1>5, <1>6, <1>7 DEF RestartedAbove, R
<1>8. CASE SelfElected(me, K, R)
  <2>1. ASSUME NEW i \in 1..Len(L), i <= Len(R),
               L[i].rep # R[i].rep \/ Degree(L[i]) # Degree(R[i])
        PROVE  Len(R) <= i + 1 /\ (Len(R) = i + 1 => JustStarted(me, s, M, i, R[i + 1]))
    <3>1. Len(R) = Len(K)
      BY <1>8 DEF SelfElected
    <3>2. CASE i = Len(K)
      BY <1>2, <3>1, <3>2
    <3>3. CASE i # Len(K)
      <4>1. i \in 1..(Len(K) - 1) /\ i <= Len(K)
        BY <1>2, <2>1, <3>1, <3>3
      <4>2. R[i] = K[i]
        BY <1>8, <4>1 DEF SelfElected
      <4>3. Len(K) <= i + 1 /\ (Len(K) = i + 1 => JustStarted(None, s, M, i, K[i + 1]))
        BY <1>5, <2>1, <4>1, <4>2
      <4>4. ASSUME Len(R) = i + 1 PROVE JustStarted(me, s, M, i, R[i + 1])
        <5>1. K[i + 1] = Top(K) /\ R[i + 1] = Top(R) /\ i + 1 \in 1..Len(K)
          BY <1>2, <3>1, <4>4 DEF Top
        <5>2. Top(K).rep = None /\ Top(K).rep_next_hop = None
          BY <1>1, <1>8, <5>1 DEF SelfElected, Stages, WellFormed, NoRepNoPeersOf
        <5>3. s # None
          BY AddrAssumption DEF Neighbourly, None
        <5>4. Top(K).rep_value = 0
          BY <3>1, <4>3, <4>4, <5>1, <5>2, <5>3 DEF JustStarted
        <5> QED
          BY <1>8, <5>1, <5>4 DEF SelfElected, JustStarted
      <4> QED
        BY <3>1, <4>3, <4>4
    <3> QED
      BY <3>2, <3>3
  <2> QED
    BY <2>1 DEF RestartedAbove, R
<1> QED
  BY <1>1, <1>7, <1>8 DEF Stages
=============================================================================
