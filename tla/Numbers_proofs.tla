---------------------------- MODULE Numbers_proofs ----------------------------
(***************************************************************************)
(* What the other proofs need to know of numbers: induction for a set of   *)
(* numbers, functions defined by recursion on an interval, elements at an  *)
(* index of what is sorted, and the median of LubyMIS.                     *)
(***************************************************************************)
EXTENDS Median, FiniteSetTheorems, TLAPS, WellFoundedInduction

\* A non-empty set of natural numbers has a least element.
LEMMA LeastNat ==
  ASSUME NEW T, T \subseteq Nat, T # {}
  PROVE  \E x \in T : \A y \in T : x <= y
<1> DEFINE R == OpToRel(<, Nat)
<1>1. R = {p \in Nat \X Nat : p[1] < p[2]}
  BY DEF OpToRel
<1>2. IsWellFoundedOn(R, Nat)
  BY NatLessThanWellFounded
<1> HIDE DEF R
<1>3. PICK x \in T : \A y \in T : <<y, x>> \notin R
  BY <1>2, WFMin
<1>4. \A y \in T : ~(y < x)
  BY <1>1, <1>3
<1> QED
  BY <1>4

\* Induction: a set that has 0 and, with each number, the next one has all.
LEMMA SetInduct ==
  ASSUME NEW S, 0 \in S, \A k \in Nat : k \in S => k + 1 \in S
  PROVE  Nat \subseteq S
<1> DEFINE T == Nat \ S
<1> SUFFICES ASSUME T # {} PROVE FALSE
  OBVIOUS
<1>1. PICK x \in T : \A y \in T : x <= y
  BY LeastNat, T \subseteq Nat
<1>2. x # 0
  BY <1>1
<1>3. x - 1 \in Nat /\ x - 1 \notin T
  BY <1>1, <1>2
<1> QED
  BY <1>1, <1>3

\* A non-empty set of natural numbers that has a bound has a greatest element.
LEMMA GreatestNat ==
  ASSUME NEW T, T \subseteq Nat, T # {}, NEW b \in Nat, \A x \in T : x <= b
  PROVE  \E x \in T : \A y \in T : y <= x
<1> DEFINE U == {c \in Nat : \A x \in T : x <= c}
<1>1. PICK c \in U : \A d \in U : c <= d
  BY LeastNat, b \in U, U \subseteq Nat
<1>2. CASE c \in T
  BY <1>1, <1>2
<1>3. CASE c \notin T
  <2>1. PICK x \in T : x \in Nat
    OBVIOUS
  <2>2. c - 1 \in Nat /\ \A y \in T : y <= c - 1
    BY <1>1, <1>3, <2>1
  <2>3. c - 1 \in U
    BY <2>2
  <2> QED
    BY <1>1, <2>3
<1> QED
  BY <1>2, <1>3

\* The N steps of a loop that keeps its variable in S, and what the variable
\* is before each iteration when it starts with x.
Steps(N, S) == [(0..(N - 1)) \X S -> S]
Iterations(N, S, x, g) == {h \in [0..N -> S] :
                       h[0] = x /\ \A k \in 1..N : h[k] = g[<<k - 1, h[k - 1]>>]}

\* For every bound of a recursion, a function that follows it exists.
LEMMA FiniteRecursion ==
  ASSUME NEW N \in Nat, NEW S, NEW x \in S, NEW g \in Steps(N, S)
  PROVE  Iterations(N, S, x, g) # {}
<1> USE DEF Steps
<1> DEFINE Follows(h, n) ==
             h[0] = x /\ \A k \in 1..n : h[k] = g[<<k - 1, h[k - 1]>>]
           Good == {n \in Nat : n <= N => \E h \in [0..n -> S] : Follows(h, n)}
<1>1. 0 \in Good
  <2> DEFINE h == [k \in 0..0 |-> x]
  <2>1. h \in [0..0 -> S] /\ Follows(h, 0)
    OBVIOUS
  <2> QED
    BY <2>1
<1>2. ASSUME NEW n \in Nat, n \in Good PROVE n + 1 \in Good
  <2> SUFFICES ASSUME n + 1 <= N
               PROVE  \E h \in [0..(n + 1) -> S] : Follows(h, n + 1)
    OBVIOUS
  <2>1. PICK f \in [0..n -> S] : Follows(f, n)
    BY <1>2
  <2> DEFINE h == [k \in 0..(n + 1) |-> IF k = n + 1 THEN g[<<n, f[n]>>] ELSE f[k]]
  <2>2. g[<<n, f[n]>>] \in S
    <3>1. n \in 0..(N - 1) /\ f[n] \in S
      OBVIOUS
    <3>2. <<n, f[n]>> \in (0..(N - 1)) \X S
      BY <3>1
    <3> QED
      BY <3>2
  <2>3. h \in [0..(n + 1) -> S]
    BY <2>2
  <2>4. \A k \in 0..n : h[k] = f[k]
    OBVIOUS
  <2>5. h[n + 1] = g[<<n, f[n]>>]
    OBVIOUS
  <2> HIDE DEF h
  <2>6. Follows(h, n + 1)
    <3>1. h[0] = x
      BY <2>1, <2>4
    <3>2. ASSUME NEW k \in 1..(n + 1) PROVE h[k] = g[<<k - 1, h[k - 1]>>]
      <4>1. CASE k = n + 1
        <5>1. k - 1 = n /\ n \in 0..n
          BY <4>1
        <5>2. h[n] = f[n]
          BY <2>4, <5>1
        <5> QED
          BY <4>1, <2>5, <5>1, <5>2
      <4>2. CASE k \in 1..n
        BY <4>2, <2>1, <2>4
      <4> QED
        BY <4>1, <4>2
    <3> QED
      BY <3>1, <3>2
  <2> QED
    BY <2>3, <2>6
<1> HIDE DEF Good
<1>3. N \in Good
  BY <1>1, <1>2, SetInduct
<1>4. PICK h \in [0..N -> S] : Follows(h, N)
  BY <1>3 DEF Good
<1> QED
  BY <1>4 DEF Iterations

\* The same without a bound.
EndlessSteps(S) == [Nat \X S -> S]
EndlessIterations(S, x, g) == {h \in [Nat -> S] :
                           h[0] = x /\ \A k \in Nat : h[k + 1] = g[<<k, h[k]>>]}

\* For every recursion on the natural numbers, a function that follows it exists.
LEMMA NatRecursion ==
  ASSUME NEW S, NEW x \in S, NEW g \in EndlessSteps(S)
  PROVE  EndlessIterations(S, x, g) # {}
<1> USE DEF EndlessSteps
<1> DEFINE part(N) == [q \in (0..(N - 1)) \X S |-> g[q]]
           r(N) == CHOOSE f \in Iterations(N, S, x, part(N)) : TRUE
           h == [k \in Nat |-> r(k)[k]]
<1>1. ASSUME NEW N \in Nat
      PROVE  /\ r(N) \in [0..N -> S] /\ r(N)[0] = x
             /\ \A k \in 0..(N - 1) : r(N)[k + 1] = g[<<k, r(N)[k]>>]
  <2>1. part(N) \in Steps(N, S)
    BY DEF Steps
  <2>2. r(N) \in Iterations(N, S, x, part(N))
    <3> HIDE DEF part
    <3> QED
      BY <2>1, FiniteRecursion
  <2>3. r(N) \in [0..N -> S] /\ r(N)[0] = x
        /\ \A k \in 1..N : r(N)[k] = part(N)[<<k - 1, r(N)[k - 1]>>]
    <3> HIDE DEF part, r
    <3> QED
      BY <2>2 DEF Iterations
  <2> HIDE DEF r
  <2>4. ASSUME NEW k \in 0..(N - 1) PROVE r(N)[k + 1] = g[<<k, r(N)[k]>>]
    <3>1. k + 1 \in 1..N /\ (k + 1) - 1 = k /\ k \in 0..N
      OBVIOUS
    <3>2. <<k, r(N)[k]>> \in (0..(N - 1)) \X S
      BY <2>3, <3>1
    <3> QED
      BY <2>3, <3>1, <3>2
  <2> QED
    BY <2>3, <2>4
<1> HIDE DEF r
<1> DEFINE T == {k \in Nat : \A N \in Nat : k <= N => r(N)[k] = h[k]}
<1>2. 0 \in T
  BY <1>1
<1>3. ASSUME NEW k \in Nat, k \in T PROVE k + 1 \in T
  <2> SUFFICES ASSUME NEW N \in Nat, k + 1 <= N PROVE r(N)[k + 1] = h[k + 1]
    OBVIOUS
  <2>1. r(N)[k + 1] = g[<<k, r(N)[k]>>] /\ r(N)[k] = h[k]
    BY <1>1, <1>3
  <2>2. r(k + 1)[k + 1] = g[<<k, r(k + 1)[k]>>] /\ r(k + 1)[k] = h[k]
    BY <1>1, <1>3
  <2> QED
    BY <2>1, <2>2
<1> HIDE DEF T
<1>4. Nat \subseteq T
  BY <1>2, <1>3, SetInduct
<1>5. h \in [Nat -> S] /\ h[0] = x
  BY <1>1
<1>6. ASSUME NEW k \in Nat PROVE h[k + 1] = g[<<k, h[k]>>]
  <2>1. r(k + 1)[k] = h[k]
    BY <1>4 DEF T
  <2>2. r(k + 1)[k + 1] = g[<<k, r(k + 1)[k]>>]
    BY <1>1
  <2> QED
    BY <2>1, <2>2
<1> HIDE DEF h
<1> QED
  BY <1>5, <1>6 DEF EndlessIterations

-----------------------------------------------------------------------------
AtMost(f, D, v) == {i \in D : f[i] <= v}
Below(f, D, v) == {i \in D : f[i] < v}

\* A set that loses an element gets smaller.
LEMMA StrictSubset ==
  ASSUME NEW D, IsFiniteSet(D), NEW A \in SUBSET D, NEW B \in SUBSET A, B # A
  PROVE  Cardinality(A) \in Nat /\ Cardinality(B) \in Nat /\ Cardinality(B) < Cardinality(A)
<1>1. IsFiniteSet(A) /\ IsFiniteSet(B)
  BY FS_Subset
<1>2. Cardinality(A) \in Nat /\ Cardinality(B) \in Nat
  BY <1>1, FS_CardinalityType
<1>3. Cardinality(B) <= Cardinality(A) /\ Cardinality(B) # Cardinality(A)
  BY <1>1, FS_Subset
<1> QED
  BY <1>2, <1>3

\* Finitely many values have a largest one.
LEMMA LargestValue ==
  ASSUME NEW D, IsFiniteSet(D), NEW f \in [D -> Int], NEW A \in SUBSET D, A # {}
  PROVE  \E i \in A : \A j \in A : f[j] <= f[i]
<1> DEFINE c(i) == Cardinality(AtMost(f, D, f[i]))
           T == {c(i) : i \in A}
<1>1. \A i \in A : c(i) \in Nat /\ c(i) <= Cardinality(D)
  BY FS_Subset, FS_CardinalityType DEF AtMost
<1>2. Cardinality(D) \in Nat
  BY FS_CardinalityType
<1>3. PICK m \in T : \A y \in T : y <= m
  <2>1. T \subseteq Nat /\ T # {} /\ \A y \in T : y <= Cardinality(D)
    BY <1>1
  <2> HIDE DEF T
  <2> QED
    BY <1>2, <2>1, GreatestNat
<1>4. PICK i \in A : m = c(i)
  BY <1>3
<1>5. ASSUME NEW j \in A, f[i] < f[j] PROVE FALSE
  <2>1. AtMost(f, D, f[i]) \subseteq AtMost(f, D, f[j])
    BY <1>5 DEF AtMost
  <2>2. j \in AtMost(f, D, f[j]) /\ j \notin AtMost(f, D, f[i])
    BY <1>5 DEF AtMost
  <2>3. AtMost(f, D, f[j]) \in SUBSET D
    BY DEF AtMost
  <2>4. c(i) < c(j)
    BY <2>1, <2>2, <2>3, StrictSubset
  <2> QED
    BY <1>1, <1>3, <1>4, <2>4
<1> QED
  BY <1>5

\* There is an element at every index of the sorted vector.
LEMMA SortedAtExists ==
  ASSUME NEW D, IsFiniteSet(D), NEW f \in [D -> Int],
         NEW k \in Nat, k < Cardinality(D)
  PROVE  \E v \in {f[i] : i \in D} :
           /\ Cardinality(Below(f, D, v)) <= k
           /\ Cardinality(AtMost(f, D, v)) > k
<1> DEFINE c(i) == Cardinality(AtMost(f, D, f[i]))
           J == {i \in D : c(i) > k}
           T == {c(i) : i \in J}
<1>1. \A i \in D : c(i) \in Nat
  BY FS_Subset, FS_CardinalityType DEF AtMost
<1>2. J # {}
  <2>1. D # {}
    BY FS_EmptySet
  <2>2. PICK i \in D : \A j \in D : f[j] <= f[i]
    BY <2>1, LargestValue
  <2>3. AtMost(f, D, f[i]) = D
    BY <2>2 DEF AtMost
  <2> QED
    BY <2>3
<1>3. PICK m \in T : \A y \in T : m <= y
  <2>1. T \subseteq Nat /\ T # {}
    BY <1>1, <1>2
  <2> HIDE DEF T
  <2> QED
    BY <2>1, LeastNat
<1>4. PICK i \in J : m = c(i)
  BY <1>3
<1>5. Cardinality(Below(f, D, f[i])) <= k
  <2> DEFINE A == Below(f, D, f[i])
  <2>1. A \in SUBSET D /\ AtMost(f, D, f[i]) \in SUBSET D
    BY DEF Below, AtMost
  <2>2. Cardinality(A) \in Nat
    BY <2>1, FS_Subset, FS_CardinalityType
  <2> SUFFICES ASSUME Cardinality(A) > k PROVE FALSE
    BY <2>2
  <2>3. A # {}
    BY FS_EmptySet, <2>2
  <2>4. PICK j \in A : \A l \in A : f[l] <= f[j]
    BY <2>1, <2>3, LargestValue
  <2>5. j \in D /\ f[j] < f[i]
    BY <2>4 DEF Below
  <2>6. A \subseteq AtMost(f, D, f[j]) /\ AtMost(f, D, f[j]) \in SUBSET D
    BY <2>1, <2>4 DEF AtMost
  <2>7. Cardinality(A) <= c(j)
    <3>1. IsFiniteSet(AtMost(f, D, f[j]))
      BY <2>6, FS_Subset
    <3> HIDE DEF A
    <3> QED
      BY <2>6, <3>1, FS_Subset
  <2>8. c(j) > k
    BY <1>1, <2>2, <2>5, <2>7
  <2>9. c(j) < c(i)
    <3>1. AtMost(f, D, f[j]) \subseteq AtMost(f, D, f[i])
      BY <2>5 DEF AtMost
    <3>2. i \in AtMost(f, D, f[i]) /\ i \notin AtMost(f, D, f[j])
      BY <2>5 DEF AtMost
    <3> QED
      BY <2>1, <3>1, <3>2, StrictSubset
  <2>10. c(j) \in T
    BY <2>5, <2>8
  <2> QED
    BY <1>1, <1>3, <1>4, <2>5, <2>9, <2>10
<1> QED
  BY <1>4, <1>5

\* The element that the code reads at index k of the sorted vector is one of
\* the values.
LEMMA SortedAtType ==
  ASSUME NEW D, IsFiniteSet(D), NEW f \in [D -> Int],
         NEW k \in Nat, k < Cardinality(D)
  PROVE  SortedAt(f, k) \in {f[i] : i \in D}
<1>1. DOMAIN f = D
  OBVIOUS
<1>2. PICK v \in {f[i] : i \in D} :
        /\ Cardinality(Below(f, D, v)) <= k
        /\ Cardinality(AtMost(f, D, v)) > k
  BY SortedAtExists
<1>3. \E w \in {f[i] : i \in DOMAIN f} :
        /\ Cardinality({i \in DOMAIN f : f[i] < w}) <= k
        /\ Cardinality({i \in DOMAIN f : f[i] <= w}) > k
  BY <1>1, <1>2 DEF Below, AtMost
<1> QED
  BY <1>1, <1>3 DEF SortedAt

\* A loop over a set of numbers meets all of them, each once and in their order.
LEMMA AscendingShape ==
  ASSUME NEW S \in SUBSET Int, IsFiniteSet(S)
  PROVE  /\ Ascending(S) \in [1..Cardinality(S) -> S]
         /\ \A j, k \in 1..Cardinality(S) : j < k => Ascending(S)[j] < Ascending(S)[k]
         /\ \A x \in S : \E k \in 1..Cardinality(S) : Ascending(S)[k] = x
<1> DEFINE N == Cardinality(S)
           id == [x \in S |-> x]
           A == Ascending(S)
           low(v) == {x \in S : x < v}
           rank(v) == Cardinality(low(v))
<1>1. /\ N \in Nat /\ id \in [S -> Int] /\ DOMAIN id = S /\ {id[x] : x \in S} = S
      /\ \A x \in S : id[x] = x /\ x \in Int
  BY FS_CardinalityType
<1>2. A = [k \in 1..N |-> SortedAt(id, k - 1)]
  BY DEF Ascending
<1> HIDE DEF id, A
<1>3. ASSUME NEW v \in S
      PROVE  /\ low(v) \in SUBSET S /\ IsFiniteSet(low(v)) /\ rank(v) \in Nat
             /\ v \notin low(v) /\ Below(id, S, v) = low(v) /\ AtMost(id, S, v) = low(v) \cup {v}
  <2>1. low(v) \in SUBSET S /\ v \notin low(v)
    BY <1>1
  <2>2. Below(id, S, v) = low(v)
    BY <1>1 DEF Below
  <2>3. AtMost(id, S, v) = low(v) \cup {v}
    BY <1>1 DEF AtMost
  <2>4. IsFiniteSet(low(v)) /\ rank(v) \in Nat
    BY <2>1, FS_Subset, FS_CardinalityType
  <2> QED
    BY <2>1, <2>2, <2>3, <2>4
<1>4. ASSUME NEW v \in S, NEW w \in S, v < w PROVE rank(v) < rank(w)
  <2>1. low(v) \subseteq low(w) /\ v \in low(w) /\ v \notin low(v)
    BY <1>1, <1>4
  <2> HIDE DEF low
  <2> QED
    BY <1>3, <2>1, StrictSubset
<1> HIDE DEF low
<1>5. ASSUME NEW k \in 1..N PROVE A[k] \in S /\ rank(A[k]) = k - 1
  <2>1. k - 1 \in Nat /\ k - 1 < N /\ A[k] = SortedAt(id, k - 1)
    BY <1>1, <1>2
  <2>2. \E v \in {id[x] : x \in S} : /\ Cardinality(Below(id, S, v)) <= k - 1
                                   /\ Cardinality(AtMost(id, S, v)) > k - 1
    BY <1>1, <2>1, SortedAtExists
  <2>3. /\ A[k] \in S /\ Cardinality(Below(id, S, A[k])) <= k - 1
        /\ Cardinality(AtMost(id, S, A[k])) > k - 1
    <3>1. A[k] = CHOOSE v \in {id[x] : x \in DOMAIN id} :
                       /\ Cardinality(Below(id, DOMAIN id, v)) <= k - 1
                       /\ Cardinality(AtMost(id, DOMAIN id, v)) > k - 1
      BY <2>1 DEF SortedAt, Below, AtMost
    <3>2. \E v \in {id[x] : x \in DOMAIN id} :
                       /\ Cardinality(Below(id, DOMAIN id, v)) <= k - 1
                       /\ Cardinality(AtMost(id, DOMAIN id, v)) > k - 1
      BY <1>1, <2>2
    <3>3. /\ A[k] \in {id[x] : x \in DOMAIN id}
          /\ Cardinality(Below(id, DOMAIN id, A[k])) <= k - 1
          /\ Cardinality(AtMost(id, DOMAIN id, A[k])) > k - 1
      BY <3>1, <3>2, Zenon
    <3> QED
      BY <1>1, <3>3
  <2>4. Cardinality(AtMost(id, S, A[k])) = rank(A[k]) + 1
    BY <1>3, <2>3, FS_AddElement
  <2> QED
    BY <1>1, <1>3, <2>1, <2>3, <2>4
<1>6. A \in [1..N -> S]
  BY <1>2, <1>5
<1>7. ASSUME NEW j \in 1..N, NEW k \in 1..N, j < k PROVE A[j] < A[k]
  <2>1. /\ A[j] \in S /\ A[k] \in S /\ A[j] \in Int /\ A[k] \in Int
        /\ rank(A[j]) = j - 1 /\ rank(A[k]) = k - 1
    BY <1>1, <1>5
  <2>2. A[j] # A[k]
    BY <1>7, <2>1
  <2>3. ASSUME A[k] < A[j] PROVE FALSE
    <3>1. rank(A[k]) < rank(A[j])
      BY <1>4, <2>1, <2>3
    <3> QED
      BY <1>7, <2>1, <3>1
  <2> QED
    BY <2>1, <2>2, <2>3
<1>8. ASSUME NEW x \in S PROVE \E k \in 1..N : A[k] = x
  <2> DEFINE k == rank(x) + 1
  <2>1. k \in 1..N /\ k - 1 = rank(x)
    <3>1. rank(x) < N
      BY <1>3, StrictSubset
    <3> QED
      BY <1>1, <1>3, <3>1
  <2>2. A[k] \in S /\ rank(A[k]) = rank(x)
    BY <1>5, <2>1
  <2>3. ~(A[k] < x) /\ ~(x < A[k]) /\ A[k] \in Int /\ x \in Int
    BY <1>1, <1>3, <1>4, <2>2
  <2> QED
    BY <2>1, <2>3
<1> QED
  BY <1>6, <1>7, <1>8 DEF A

\* LubyMIS::RecalculateLevelValues: the median of at least one value lies
\* between any bounds the values lie between.
THEOREM MedianBetween ==
  ASSUME NEW D, IsFiniteSet(D), D # {}, NEW lo \in Int, NEW hi \in Int,
         NEW f \in [D -> lo..hi]
  PROVE  MedianOf(f) \in lo..hi
<1> DEFINE size == Cardinality(D)
<1>1. size \in Nat /\ size > 0 /\ DOMAIN f = D /\ f \in [D -> Int]
  BY FS_CardinalityType, FS_EmptySet
<1>2. ASSUME NEW k \in Nat, k < size PROVE SortedAt(f, k) \in lo..hi
  BY <1>1, <1>2, SortedAtType
<1> HIDE DEF size
<1>3. CASE size % 2 = 1
  <2>1. size \div 2 \in Nat /\ size \div 2 < size
    BY <1>1
  <2>2. MedianOf(f) = SortedAt(f, size \div 2)
    BY <1>1, <1>3 DEF MedianOf, size
  <2> QED
    BY <1>2, <2>1, <2>2
<1>4. CASE size % 2 # 1
  <2>1. /\ size \div 2 \in Nat /\ size \div 2 < size
        /\ size \div 2 - 1 \in Nat /\ size \div 2 - 1 < size
    BY <1>1, <1>4
  <2> DEFINE a == SortedAt(f, size \div 2 - 1)
             b == SortedAt(f, size \div 2)
  <2>2. a \in lo..hi /\ b \in lo..hi
    BY <1>2, <2>1
  <2>3. MedianOf(f) = (a + b) \div 2
    BY <1>1, <1>4 DEF MedianOf, size
  <2> HIDE DEF a, b
  <2>4. (a + b) \div 2 \in lo..hi
    BY <2>2
  <2> QED
    BY <2>3, <2>4
<1> QED
  BY <1>3, <1>4

\* The median of at least one integer is an integer.
COROLLARY MedianType ==
  ASSUME NEW D, IsFiniteSet(D), D # {}, NEW f \in [D -> Int]
  PROVE  MedianOf(f) \in Int
<1> DEFINE size == Cardinality(D)
<1>1. size \in Nat /\ size > 0 /\ DOMAIN f = D
  BY FS_CardinalityType, FS_EmptySet
<1>2. ASSUME NEW k \in Nat, k < size PROVE SortedAt(f, k) \in Int
  BY <1>1, <1>2, SortedAtType
<1> HIDE DEF size
<1>3. CASE size % 2 = 1
  BY <1>1, <1>2, <1>3 DEF MedianOf, size
<1>4. CASE size % 2 # 1
  BY <1>1, <1>2, <1>4 DEF MedianOf, size
<1> QED
  BY <1>3, <1>4
=============================================================================
