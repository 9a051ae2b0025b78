-------------------------------- MODULE Median --------------------------------
(***************************************************************************)
(* The median LubyMIS::RecalculateLevelValues takes of a vector of values. *)
(* The code sorts the vector and reads the element at an index; here the   *)
(* element at index k of the sorted vector is the value that at most k     *)
(* elements are smaller than and more than k elements are not larger than. *)
(* Values are doubles in the code; here they are integers, scaled so that  *)
(* the halving of a sum is exact.                                          *)
(***************************************************************************)
EXTENDS Integers, FiniteSets

SortedAt(f, k) ==
  CHOOSE v \in {f[i] : i \in DOMAIN f} :
    /\ Cardinality({i \in DOMAIN f : f[i] < v}) <= k
    /\ Cardinality({i \in DOMAIN f : f[i] <= v}) > k

\* The elements of a set of numbers in the order of their size: what a loop over
\* them, or over the keys of a std::map, meets.
Ascending(S) == [k \in 1..Cardinality(S) |-> SortedAt([x \in S |-> x], k - 1)]

\* Faulty variant of MedianOf: the middle values are added, not averaged.
MedianNotHalved(f) ==
  LET size == Cardinality(DOMAIN f)
  IN  IF size % 2 = 1
      THEN SortedAt(f, size \div 2)
      ELSE SortedAt(f, size \div 2 - 1) + SortedAt(f, size \div 2)

MedianOf(f) ==
  LET size == Cardinality(DOMAIN f)
  IN  IF size % 2 = 1
      THEN SortedAt(f, size \div 2)
      ELSE (SortedAt(f, size \div 2 - 1) + SortedAt(f, size \div 2)) \div 2
=============================================================================
