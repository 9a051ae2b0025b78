--------------------------- MODULE UdpGossip_proofs ---------------------------
(***************************************************************************)
(* The life of the application, for every network, every duration of the   *)
(* simulation and whatever the data is that the nodes gossip; and, when it *)
(* is a LubyMIS, that the program implements LubyGossip.                   *)
(***************************************************************************)
EXTENDS UdpLuby, Numbers_proofs, FiniteSetTheorems, SequenceTheorems

IsSeq(q) == \E S : q \in Seq(S)

\* The sequence q became r when x was put into place k; r became q when what
\* is at place k was taken out.
Inserted(q, k, x, r) ==
  /\ IsSeq(q) /\ IsSeq(r)
  /\ Len(q) \in Nat /\ Len(r) = Len(q) + 1 /\ k \in 1..Len(r)
  /\ r[k] = x
  /\ \A i \in 1..(k - 1) : r[i] = q[i]
  /\ \A i \in k..Len(q) : r[i + 1] = q[i]

\* The three ways in which a queue changes.
LEMMA InsertAtInserts ==
  ASSUME NEW q, IsSeq(q), NEW k \in 1..(Len(q) + 1), NEW x
  PROVE  Inserted(q, k, x, InsertAt(q, k, x))
<1>1. PICK S : q \in Seq(S)
  BY DEF IsSeq
<1> DEFINE T == S \cup {x}
           left == SubSeq(q, 1, k - 1)
           right == SubSeq(q, k, Len(q))
<1>2. q \in Seq(T) /\ Len(q) \in Nat /\ \A i \in 1..Len(q) : q[i] \in T
  BY <1>1, SeqMonotonic, ElementOfSeq, LenProperties
<1>3. left \in Seq(T) /\ Len(left) = k - 1 /\ \A i \in 1..(k - 1) : left[i] = q[i]
  <2>1. \A i \in 1..(k - 1) : q[i] \in T
    BY <1>2
  <2> QED
    BY <1>2, <2>1, SubSeqProperties
<1>4. /\ right \in Seq(T) /\ Len(right) = Len(q) - k + 1
      /\ \A i \in 1..(Len(q) - k + 1) : right[i] = q[k + i - 1]
  <2>1. \A i \in k..Len(q) : q[i] \in T
    BY <1>2
  <2> QED
    BY <1>2, <2>1, SubSeqProperties
<1>5. <<x>> \in Seq(T) /\ Len(<<x>>) = 1 /\ <<x>>[1] = x
  OBVIOUS
<1> HIDE DEF left, right, T
<1>6. /\ left \o <<x>> \in Seq(T) /\ Len(left \o <<x>>) = k
      /\ \A i \in 1..k : (left \o <<x>>)[i] = IF i <= k - 1 THEN q[i] ELSE x
  BY <1>2, <1>3, <1>5, ConcatProperties
<1> DEFINE front == left \o <<x>>
<1> HIDE DEF front
<1>7. /\ front \o right \in Seq(T) /\ Len(front \o right) = Len(q) + 1
      /\ \A i \in 1..(Len(q) + 1) :
           (front \o right)[i] = IF i <= k THEN front[i] ELSE q[i - 1]
  <2>1. front \in Seq(T) /\ Len(front) = k
    BY <1>6 DEF front
  <2>2. /\ front \o right \in Seq(T) /\ Len(front \o right) = k + (Len(q) - k + 1)
        /\ \A i \in 1..(k + (Len(q) - k + 1)) :
             (front \o right)[i] = IF i <= k THEN front[i] ELSE right[i - k]
    <3>1. /\ front \o right \in Seq(T) /\ Len(front \o right) = Len(front) + Len(right)
          /\ \A i \in 1..(Len(front) + Len(right)) :
               (front \o right)[i] = IF i <= Len(front) THEN front[i] ELSE right[i - Len(front)]
      BY <1>4, <2>1, ConcatProperties
    <3> QED
      BY <1>4, <2>1, <3>1
  <2>3. ASSUME NEW i \in (k + 1)..(Len(q) + 1) PROVE right[i - k] = q[i - 1]
    <3>1. i - k \in 1..(Len(q) - k + 1) /\ k + (i - k) - 1 = i - 1
      BY <1>2
    <3> QED
      BY <1>4, <3>1
  <2>4. k + (Len(q) - k + 1) = Len(q) + 1
    BY <1>2
  <2> QED
    BY <1>2, <2>2, <2>3, <2>4
<1>8. InsertAt(q, k, x) = front \o right
  BY DEF InsertAt, front, left, right
<1>9. front[k] = x /\ \A i \in 1..(k - 1) : front[i] = q[i]
  BY <1>6 DEF front
<1> DEFINE r == front \o right
<1> HIDE DEF r
<1>10. IsSeq(r) /\ Len(r) = Len(q) + 1 /\ k \in 1..Len(r) /\ r[k] = x
  BY <1>2, <1>7, <1>9 DEF IsSeq, r
<1>11. \A i \in 1..(k - 1) : r[i] = q[i]
  BY <1>2, <1>7, <1>9 DEF r
<1>12. ASSUME NEW i \in k..Len(q) PROVE r[i + 1] = q[i]
  <2>1. i + 1 \in 1..(Len(q) + 1) /\ ~(i + 1 <= k) /\ (i + 1) - 1 = i
    BY <1>2
  <2> QED
    BY <1>7, <2>1 DEF r
<1> QED
  BY <1>2, <1>8, <1>10, <1>11, <1>12 DEF Inserted, r

\* Taking out undoes an insertion.
LEMMA RemoveAtInserts ==
  ASSUME NEW q, IsSeq(q), NEW k \in 1..Len(q)
  PROVE  Inserted(RemoveAt(q, k), k, q[k], q)
<1>1. PICK S : q \in Seq(S)
  BY DEF IsSeq
<1> DEFINE left == SubSeq(q, 1, k - 1)
           right == SubSeq(q, k + 1, Len(q))
<1>2. Len(q) \in Nat /\ \A i \in 1..Len(q) : q[i] \in S
  BY <1>1, ElementOfSeq, LenProperties
<1>3. left \in Seq(S) /\ Len(left) = k - 1 /\ \A i \in 1..(k - 1) : left[i] = q[i]
  <2>1. \A i \in 1..(k - 1) : q[i] \in S
    BY <1>2
  <2> QED
    BY <1>2, <2>1, SubSeqProperties
<1>4. /\ right \in Seq(S) /\ Len(right) = Len(q) - k
      /\ \A i \in 1..(Len(q) - k) : right[i] = q[k + i]
  <2>1. \A i \in (k + 1)..Len(q) : q[i] \in S
    BY <1>2
  <2> QED
    BY <1>2, <2>1, SubSeqProperties
<1> HIDE DEF left, right
<1>5. /\ left \o right \in Seq(S) /\ Len(left \o right) = Len(q) - 1
      /\ \A i \in 1..(Len(q) - 1) : (left \o right)[i] = IF i <= k - 1 THEN q[i] ELSE q[i + 1]
  <2>1. /\ left \o right \in Seq(S) /\ Len(left \o right) = Len(q) - 1
        /\ \A i \in 1..(Len(q) - 1) :
             (left \o right)[i] = IF i <= k - 1 THEN left[i] ELSE right[i - (k - 1)]
    <3>1. /\ left \o right \in Seq(S) /\ Len(left \o right) = Len(left) + Len(right)
          /\ \A i \in 1..(Len(left) + Len(right)) :
               (left \o right)[i] = IF i <= Len(left) THEN left[i] ELSE right[i - Len(left)]
      BY <1>3, <1>4, ConcatProperties
    <3>2. Len(left) = k - 1 /\ Len(left) + Len(right) = Len(q) - 1
      BY <1>2, <1>3, <1>4
    <3> QED
      BY <3>1, <3>2
  <2>2. ASSUME NEW i \in 1..(Len(q) - 1), ~(i <= k - 1) PROVE right[i - (k - 1)] = q[i + 1]
    <3>1. i - (k - 1) \in 1..(Len(q) - k) /\ k + (i - (k - 1)) = i + 1
      BY <1>2, <2>2
    <3> QED
      BY <1>4, <3>1
  <2> QED
    BY <1>2, <1>3, <2>1, <2>2
<1> DEFINE r == left \o right
<1>6. RemoveAt(q, k) = r
  BY DEF RemoveAt, left, right
<1> HIDE DEF r
<1>7. Len(r) \in Nat /\ Len(q) = Len(r) + 1 /\ IsSeq(r)
  BY <1>2, <1>5 DEF IsSeq, r
<1>8. \A i \in 1..(k - 1) : q[i] = r[i]
  BY <1>2, <1>5 DEF r
<1>9. \A i \in k..Len(r) : q[i + 1] = r[i]
  BY <1>2, <1>5, <1>7 DEF r
<1> QED
  BY <1>6, <1>7, <1>8, <1>9 DEF Inserted

\* So does running the first event, which was in the first place.
LEMMA TailInserts ==
  ASSUME NEW q, IsSeq(q), q # <<>>
  PROVE  Inserted(Tail(q), 1, Head(q), q)
<1>1. PICK S : q \in Seq(S)
  BY DEF IsSeq
<1>2. /\ Tail(q) \in Seq(S) /\ Len(q) \in Nat \ {0} /\ Len(Tail(q)) = Len(q) - 1
      /\ \A i \in 1..(Len(q) - 1) : Tail(q)[i] = q[i + 1]
  BY <1>1, HeadTailProperties, EmptySeq
<1>3. Head(q) = q[1]
  BY <1>1
<1> QED
  BY <1>1, <1>2, <1>3 DEF Inserted, IsSeq

\* What it adds is x.
LEMMA InsertedElements ==
  ASSUME NEW q, NEW k, NEW x, NEW r, Inserted(q, k, x, r)
  PROVE  Range(r) = Range(q) \cup {x}
<1>1. DOMAIN q = 1..Len(q) /\ DOMAIN r = 1..Len(r)
  BY LenProperties DEF Inserted, IsSeq
<1>2. ASSUME NEW i \in 1..Len(r) PROVE r[i] \in Range(q) \cup {x}
  <2>1. CASE i < k
    BY <1>1, <2>1 DEF Inserted, Range
  <2>2. CASE i = k
    BY <2>2 DEF Inserted
  <2>3. CASE i > k
    <3>1. i - 1 \in k..Len(q) /\ i - 1 \in 1..Len(q) /\ (i - 1) + 1 = i
      BY <2>3 DEF Inserted
    <3>2. r[i] = q[i - 1]
      BY <3>1 DEF Inserted
    <3> QED
      BY <1>1, <3>1, <3>2 DEF Range
  <2> QED
    BY <2>1, <2>2, <2>3 DEF Inserted
<1>3. ASSUME NEW i \in 1..Len(q) PROVE q[i] \in Range(r)
  <2>1. CASE i < k
    <3>1. i \in 1..(k - 1) /\ i \in 1..Len(r)
      BY <2>1 DEF Inserted
    <3> QED
      BY <1>1, <3>1 DEF Inserted, Range
  <2>2. CASE i >= k
    <3>1. i \in k..Len(q) /\ i + 1 \in 1..Len(r)
      BY <2>2 DEF Inserted
    <3> QED
      BY <1>1, <3>1 DEF Inserted, Range
  <2> QED
    BY <2>1, <2>2 DEF Inserted
<1>4. x \in Range(r)
  BY <1>1 DEF Inserted, Range
<1> QED
  BY <1>1, <1>2, <1>3, <1>4 DEF Range
-----------------------------------------------------------------------------
(* The queue of events. *)

Is(x, run, a) == x.run = run /\ x.node = a
Occurs(q, run, a) == \E x \in Range(q) : Is(x, run, a)

NodeHandlers == {"StartApplication", "Send", "StopApplication"}

IsEvent(x) ==
  /\ x.at \in Nat /\ x.at >= Second
  /\ \/ x.run \in NodeHandlers /\ x.node \in Node
     \/ x.run = "HandleRead" /\ x.edge \in Edge

\* Nothing that a node has caused happens before all nodes have started, and a
\* node stops after it has started.
Later(x, start) ==
  x.run = "Send" \/ x.run = "HandleRead" \/ Is(x, "StopApplication", start.node)

\* A queue is in the order of time; a node starts, sends and stops at most once
\* in it; and starting comes first.
QueueOK(q) ==
  /\ IsSeq(q)
  /\ \A i \in 1..Len(q) : IsEvent(q[i])
  /\ \A i, j \in 1..Len(q) : i <= j => q[i].at <= q[j].at
  /\ \A i, j \in 1..Len(q) :
       q[i].run \in NodeHandlers /\ Is(q[j], q[i].run, q[i].node) => i = j
  /\ \A i \in 1..Len(q) : q[i].run = "StartApplication" =>
       q[i].at = Second /\ \A j \in 1..Len(q) : Later(q[j], q[i]) => i < j

\* Elements of a queue are found at a place.
LEMMA QueueElements ==
  ASSUME NEW q, IsSeq(q)
  PROVE  /\ Len(q) \in Nat /\ Range(q) = {q[i] : i \in 1..Len(q)}
<1>1. PICK S : q \in Seq(S)
  BY DEF IsSeq
<1>2. Len(q) \in Nat /\ DOMAIN q = 1..Len(q)
  BY <1>1, LenProperties
<1> QED
  BY <1>2 DEF Range

\* What is left when an event is taken out is a queue in which its handler does
\* not occur again.
LEMMA QueueWithout ==
  ASSUME NEW q, NEW k, NEW x, NEW r, Inserted(q, k, x, r), QueueOK(r)
  PROVE  /\ QueueOK(q) /\ IsEvent(x)
         /\ \A run \in NodeHandlers, a \in Node : Is(x, run, a) => ~Occurs(q, run, a)
<1> DEFINE p(i) == IF i < k THEN i ELSE i + 1
<1>1. ASSUME NEW i \in 1..Len(q)
      PROVE  p(i) \in 1..Len(r) /\ p(i) # k /\ q[i] = r[p(i)]
  BY DEF Inserted
<1>2. Len(q) \in Nat /\ \A i, j \in 1..Len(q) : /\ i <= j <=> p(i) <= p(j)
                                                /\ i < j <=> p(i) < p(j)
                                                /\ i = j <=> p(i) = p(j)
  BY DEF Inserted
<1>3. k \in 1..Len(r) /\ r[k] = x /\ IsSeq(q)
  BY DEF Inserted
<1> HIDE DEF p
<1>4. \A i \in 1..Len(q) : IsEvent(q[i])
  BY <1>1 DEF QueueOK
<1>5. \A i, j \in 1..Len(q) : i <= j => q[i].at <= q[j].at
  BY <1>1, <1>2 DEF QueueOK
<1>6. \A i, j \in 1..Len(q) :
        q[i].run \in NodeHandlers /\ Is(q[j], q[i].run, q[i].node) => i = j
  BY <1>1, <1>2 DEF QueueOK
<1>7. \A i \in 1..Len(q) : q[i].run = "StartApplication" =>
        q[i].at = Second /\ \A j \in 1..Len(q) : Later(q[j], q[i]) => i < j
  <2>1. \A i \in 1..Len(r) : r[i].run = "StartApplication" =>
          r[i].at = Second /\ \A j \in 1..Len(r) : Later(r[j], r[i]) => i < j
    BY DEF QueueOK
  <2>2. ASSUME NEW i \in 1..Len(q), q[i].run = "StartApplication"
        PROVE  /\ r[p(i)].at = Second /\ q[i].at = r[p(i)].at
               /\ \A j \in 1..Len(r) : Later(r[j], q[i]) => p(i) < j
    <3>1. p(i) \in 1..Len(r) /\ q[i] = r[p(i)]
      BY <1>1
    <3> QED
      BY <2>1, <2>2, <3>1, Zenon
  <2>3. ASSUME NEW i \in 1..Len(q), NEW j \in 1..Len(q), q[i].run = "StartApplication",
               Later(q[j], q[i])
        PROVE  i < j
    <3>1. p(j) \in 1..Len(r) /\ q[j] = r[p(j)]
      BY <1>1
    <3>2. p(i) < p(j)
      BY <2>2, <2>3, <3>1, Zenon
    <3> QED
      BY <1>2, <3>2, Zenon
  <2> QED
    BY <2>2, <2>3, Zenon
<1>8. ASSUME NEW run \in NodeHandlers, NEW a \in Node, Is(x, run, a), Occurs(q, run, a)
      PROVE  FALSE
  <2>1. PICK i \in 1..Len(q) : Is(q[i], run, a)
    BY <1>3, <1>8, QueueElements DEF Occurs
  <2>2. r[k].run \in NodeHandlers /\ Is(r[p(i)], r[k].run, r[k].node)
    BY <1>1, <1>3, <1>8, <2>1 DEF Is
  <2> QED
    BY <1>1, <1>3, <2>2 DEF QueueOK
<1> QED
  BY <1>3, <1>4, <1>5, <1>6, <1>7, <1>8 DEF QueueOK

\* The event that happens next.
LEMMA QueueHead ==
  ASSUME NEW q, QueueOK(q), q # <<>>
  PROVE  /\ QueueOK(Tail(q)) /\ IsEvent(Head(q)) /\ Range(q) = Range(Tail(q)) \cup {Head(q)}
         /\ \A run \in NodeHandlers, a \in Node : Is(Head(q), run, a) => ~Occurs(Tail(q), run, a)
         /\ \A x \in Range(q) : x.at >= Head(q).at
         /\ \A a \in Node : Occurs(Tail(q), "StartApplication", a) =>
              /\ Head(q).at = Second
              /\ Head(q).run \in {"StartApplication", "StopApplication"}
              /\ ~Is(Head(q), "StopApplication", a)
<1>1. IsSeq(q)
  BY DEF QueueOK
<1>2. Inserted(Tail(q), 1, Head(q), q)
  BY <1>1, TailInserts
<1>3. /\ QueueOK(Tail(q)) /\ IsEvent(Head(q)) /\ Range(q) = Range(Tail(q)) \cup {Head(q)}
      /\ \A run \in NodeHandlers, a \in Node : Is(Head(q), run, a) => ~Occurs(Tail(q), run, a)
  BY <1>2, QueueWithout, InsertedElements
<1>4. 1 \in 1..Len(q) /\ q[1] = Head(q) /\ Len(q) \in Nat
  BY <1>1, <1>2, QueueElements DEF Inserted
<1>5. \A x \in Range(q) : x.at >= Head(q).at
  <2>1. ASSUME NEW i \in 1..Len(q) PROVE q[i].at >= q[1].at
    <3>1. q[1].at <= q[i].at /\ q[1].at \in Nat /\ q[i].at \in Nat
      BY <1>4 DEF QueueOK, IsEvent
    <3> QED
      BY <3>1
  <2> QED
    BY <1>1, <1>4, <2>1, QueueElements
<1>6. ASSUME NEW a \in Node, Occurs(Tail(q), "StartApplication", a)
      PROVE  /\ Head(q).at = Second
             /\ Head(q).run \in {"StartApplication", "StopApplication"}
             /\ ~Is(Head(q), "StopApplication", a)
  <2>1. PICK i \in 1..Len(q) : Is(q[i], "StartApplication", a)
    BY <1>1, <1>3, <1>6, QueueElements DEF Occurs
  <2>2. q[i].at = Second /\ ~Later(q[1], q[i])
    BY <1>4, <2>1 DEF QueueOK, Is
  <2>3. q[1].at <= q[i].at /\ q[1].at \in Nat /\ q[1].at >= Second
    BY <1>4 DEF QueueOK, IsEvent
  <2>4. Second \in Nat
    BY TimeAssumption
  <2> QED
    BY <1>3, <1>4, <2>1, <2>2, <2>3, <2>4 DEF IsEvent, NodeHandlers, Later, Is
<1> QED
  BY <1>3, <1>5, <1>6

\* The place that Simulator::Schedule finds for an event.
LEMMA SchedulePlace ==
  ASSUME NEW q, IsSeq(q), NEW x
  PROVE  \E n \in 0..Len(q) : /\ Inserted(q, n + 1, x, Schedule(q, x))
                              /\ n = 0 \/ q[n].at <= x.at
                              /\ \A i \in 1..Len(q) : q[i].at <= x.at => i <= n
<1> DEFINE S == {0} \cup {i \in 1..Len(q) : q[i].at <= x.at}
<1>1. Len(q) \in Nat
  BY QueueElements
<1>2. PICK m \in S : \A y \in S : y <= m
  <2>1. S \subseteq Nat /\ S # {} /\ \A y \in S : y <= Len(q)
    BY <1>1
  <2> HIDE DEF S
  <2> QED
    BY <1>1, <2>1, GreatestNat
<1>3. Max(S) \in S /\ \A y \in S : Max(S) >= y
  <2>1. S \subseteq Nat
    BY <1>1
  <2>2. m \in S /\ \A y \in S : m >= y
    <3> HIDE DEF S
    <3> QED
      BY <1>2, <2>1
  <2> HIDE DEF S
  <2> QED
    BY <2>2 DEF Max
<1> DEFINE n == Max(S)
<1>4. Schedule(q, x) = InsertAt(q, 1 + n, x)
  BY DEF Schedule
<1>5. n \in S /\ \A y \in S : n >= y
  BY <1>3
<1> HIDE DEF n
<1>6. n \in 0..Len(q) /\ (n = 0 \/ q[n].at <= x.at)
  BY <1>1, <1>5
<1>7. ASSUME NEW i \in 1..Len(q), q[i].at <= x.at PROVE i <= n
  <2>1. i \in S
    BY <1>7
  <2>2. n >= i
    BY <1>5, <2>1
  <2> QED
    BY <1>6, <2>2
<1>8. Inserted(q, n + 1, x, Schedule(q, x))
  <2>1. 1 + n = n + 1 /\ n + 1 \in 1..(Len(q) + 1)
    BY <1>1, <1>6
  <2> QED
    BY <1>4, <2>1, InsertAtInserts
<1> QED
  BY <1>6, <1>7, <1>8

\* Simulator::Schedule puts an event behind all that happen no later.
LEMMA ScheduleInserts ==
  ASSUME NEW q, QueueOK(q), NEW x, IsEvent(x)
  PROVE  \E k : /\ Inserted(q, k, x, Schedule(q, x))
                /\ \A i \in 1..(k - 1) : q[i].at <= x.at
                /\ \A i \in k..Len(q) : q[i].at > x.at
<1>1. IsSeq(q) /\ Len(q) \in Nat
  BY QueueElements DEF QueueOK
<1>2. PICK n \in 0..Len(q) : /\ Inserted(q, n + 1, x, Schedule(q, x))
                             /\ n = 0 \/ q[n].at <= x.at
                             /\ \A i \in 1..Len(q) : q[i].at <= x.at => i <= n
  BY <1>1, SchedulePlace
<1>3. x.at \in Nat /\ \A i \in 1..Len(q) : q[i].at \in Nat
  BY DEF QueueOK, IsEvent
<1>4. ASSUME NEW i \in 1..((n + 1) - 1) PROVE q[i].at <= x.at
  <2>1. i \in 1..Len(q) /\ n \in 1..Len(q) /\ i <= n /\ q[n].at <= x.at
    BY <1>1, <1>2
  <2>2. q[i].at <= q[n].at
    BY <2>1 DEF QueueOK
  <2> QED
    BY <1>3, <2>1, <2>2
<1>5. \A i \in (n + 1)..Len(q) : q[i].at > x.at
  BY <1>1, <1>2, <1>3
<1> WITNESS n + 1
<1> QED
  BY <1>2, <1>4, <1>5

\* A new event leaves a queue in order if its handler is not to be called yet
\* and, unless it starts a node, whatever its time; starting a node comes before
\* all that may not come before it.
LEMMA QueueWith ==
  ASSUME NEW q, QueueOK(q), NEW x, IsEvent(x),
         x.run \in NodeHandlers => ~Occurs(q, x.run, x.node),
         x.run = "StartApplication" => x.at = Second /\ \A y \in Range(q) : ~Later(y, x)
  PROVE  QueueOK(Schedule(q, x)) /\ Range(Schedule(q, x)) = Range(q) \cup {x}
<1>1. PICK k : /\ Inserted(q, k, x, Schedule(q, x))
               /\ \A i \in 1..(k - 1) : q[i].at <= x.at
               /\ \A i \in k..Len(q) : q[i].at > x.at
  BY ScheduleInserts
<1> DEFINE r == Schedule(q, x)
           p(i) == IF i < k THEN i ELSE i - 1
<1> HIDE DEF r
<1>2. Range(r) = Range(q) \cup {x}
  BY <1>1, InsertedElements DEF r
<1>3. /\ Len(q) \in Nat /\ k \in 1..Len(r) /\ r[k] = x /\ IsSeq(r) /\ Len(r) = Len(q) + 1
      /\ \A i \in 1..Len(q) : q[i] \in Range(q)
  BY <1>1, QueueElements DEF Inserted, r
<1>4. ASSUME NEW i \in 1..Len(r), i # k
      PROVE  p(i) \in 1..Len(q) /\ r[i] = q[p(i)]
  <2>1. CASE i < k
    BY <1>1, <1>3, <2>1 DEF Inserted, r
  <2>2. CASE i > k
    <3>1. i - 1 \in k..Len(q) /\ (i - 1) + 1 = i /\ i - 1 \in 1..Len(q)
      BY <1>3, <2>2
    <3>2. r[(i - 1) + 1] = q[i - 1]
      BY <1>1, <3>1 DEF Inserted, r
    <3> QED
      BY <1>3, <2>2, <3>1, <3>2
  <2> QED
    BY <1>3, <1>4, <2>1, <2>2
<1>5. \A i, j \in 1..Len(r) : i # k /\ j # k => /\ i <= j <=> p(i) <= p(j)
                                                /\ i < j <=> p(i) < p(j)
                                                /\ i = j <=> p(i) = p(j)
  BY <1>3
<1>6. \A i \in 1..Len(r) : /\ i < k => r[i].at <= x.at
                           /\ i > k => r[i].at > x.at
  <2>1. ASSUME NEW i \in 1..Len(r), i < k PROVE r[i].at <= x.at
    BY <1>1, <1>3, <1>4, <2>1
  <2>2. ASSUME NEW i \in 1..Len(r), i > k PROVE r[i].at > x.at
    <3>1. p(i) \in k..Len(q) /\ r[i] = q[p(i)]
      BY <1>3, <1>4, <2>2
    <3> QED
      BY <1>1, <3>1
  <2> QED
    BY <2>1, <2>2
<1> HIDE DEF p
<1>7. \A i \in 1..Len(r) : IsEvent(r[i])
  BY <1>3, <1>4 DEF QueueOK
<1>8. ASSUME NEW i \in 1..Len(r), NEW j \in 1..Len(r), i <= j PROVE r[i].at <= r[j].at
  <2>1. r[i].at \in Nat /\ r[j].at \in Nat /\ x.at \in Nat
    BY <1>7 DEF IsEvent
  <2>2. CASE i # k /\ j # k
    BY <1>4, <1>5, <1>8, <2>2 DEF QueueOK
  <2>3. CASE i = k \/ j = k
    BY <1>3, <1>6, <1>8, <2>1, <2>3
  <2> QED
    BY <2>2, <2>3
<1>9. ASSUME NEW i \in 1..Len(r), NEW j \in 1..Len(r),
             r[i].run \in NodeHandlers, Is(r[j], r[i].run, r[i].node), i # j
      PROVE  FALSE
  <2>1. CASE i # k /\ j # k
    BY <1>4, <1>5, <1>9, <2>1 DEF QueueOK
  <2>2. CASE i = k
    <3>1. r[j] \in Range(q) /\ Is(r[j], x.run, x.node)
      BY <1>3, <1>4, <1>9, <2>2
    <3> QED
      BY <1>3, <1>9, <2>2, <3>1 DEF Occurs
  <2>3. CASE j = k
    <3>1. r[i] \in Range(q) /\ Is(r[i], x.run, x.node) /\ x.run \in NodeHandlers
      BY <1>3, <1>4, <1>9, <2>3 DEF Is
    <3> QED
      BY <3>1 DEF Occurs
  <2> QED
    BY <2>1, <2>2, <2>3
<1>10. ASSUME NEW i \in 1..Len(r), r[i].run = "StartApplication"
       PROVE  r[i].at = Second /\ \A j \in 1..Len(r) : Later(r[j], r[i]) => i < j
  <2>1. Second \in Nat /\ x.at \in Nat /\ x.at >= Second
    BY TimeAssumption DEF IsEvent
  <2>2. CASE i = k
    <3>1. x.run = "StartApplication" /\ r[i].at = Second /\ ~Later(x, x)
      BY <1>3, <1>10, <2>2 DEF Later, Is
    <3>2. ASSUME NEW j \in 1..Len(r), j # k PROVE ~Later(r[j], x)
      BY <1>3, <1>4, <3>1, <3>2
    <3> QED
      BY <1>3, <2>2, <3>1, <3>2
  <2>3. CASE i # k
    <3>1. r[i] = q[p(i)] /\ p(i) \in 1..Len(q)
      BY <1>4, <2>3
    <3>2. r[i].at = Second
      BY <1>10, <3>1 DEF QueueOK
    <3>3. i < k
      BY <1>3, <1>6, <2>1, <2>3, <3>2
    <3>4. ASSUME NEW j \in 1..Len(r), Later(r[j], r[i]) PROVE i < j
      <4>1. CASE j = k
        BY <3>3, <4>1
      <4>2. CASE j # k
        <5>1. p(i) < p(j)
          BY <1>4, <1>10, <3>1, <3>4, <4>2 DEF QueueOK
        <5> QED
          BY <1>5, <2>3, <4>2, <5>1
      <4> QED
        BY <4>1, <4>2
    <3> QED
      BY <3>2, <3>4
  <2> QED
    BY <2>2, <2>3
<1>11. QueueOK(r)
  BY <1>3, <1>7, <1>8, <1>9, <1>10 DEF QueueOK
<1> QED
  BY <1>2, <1>11 DEF r

\* Simulator::Cancel takes out the event it finds.
LEMMA QueueCancel ==
  ASSUME NEW q, QueueOK(q), NEW a \in Node, NEW id,
         Occurs(q, "Send", a), \A x \in Range(q) : Is(x, "Send", a) => x.id = id
  PROVE  \E x : /\ QueueOK(Cancel(q, a, id)) /\ Range(q) = Range(Cancel(q, a, id)) \cup {x}
                /\ Is(x, "Send", a) /\ ~Occurs(Cancel(q, a, id), "Send", a)
<1>1. IsSeq(q) /\ Range(q) = {q[i] : i \in 1..Len(q)}
  BY QueueElements DEF QueueOK
<1>2. PICK i \in Sends(q, a) : q[i].id = id
  BY <1>1 DEF Occurs, Sends, Is
<1> DEFINE k == CHOOSE j \in Sends(q, a) : q[j].id = id
           c == Cancel(q, a, id)
<1>3. k \in Sends(q, a)
  BY <1>2
<1>4. c = RemoveAt(q, k)
  BY <1>2 DEF Cancel, Pending
<1> HIDE DEF k, c
<1>5. k \in 1..Len(q) /\ Is(q[k], "Send", a)
  BY <1>3 DEF Sends, Is
<1>6. Inserted(c, k, q[k], q)
  BY <1>1, <1>4, <1>5, RemoveAtInserts
<1>7. QueueOK(c) /\ ~Occurs(c, "Send", a) /\ Range(q) = Range(c) \cup {q[k]}
  BY <1>5, <1>6, QueueWithout, InsertedElements DEF NodeHandlers
<1> QED
  BY <1>5, <1>7 DEF c

-----------------------------------------------------------------------------
(* What the nodes schedule when the simulation begins. *)

\* The two events of one node.
LEMMA StartAndStopOK ==
  ASSUME NEW q, QueueOK(q), NEW a \in Node, NEW secs \in Nat,
         \A x \in Range(q) : x.run \in {"StartApplication", "StopApplication"} /\ x.node # a
  PROVE  /\ QueueOK(StartAndStop(q, a, secs))
         /\ Range(StartAndStop(q, a, secs))
              = Range(q) \cup {[at |-> Second, run |-> "StartApplication", node |-> a],
                               [at |-> (secs + 1) * Second, run |-> "StopApplication", node |-> a]}
<1> DEFINE start == [at |-> Second, run |-> "StartApplication", node |-> a]
           stop == [at |-> (secs + 1) * Second, run |-> "StopApplication", node |-> a]
           r == Schedule(q, start)
<1>1. /\ start.at = Second /\ start.run = "StartApplication" /\ start.node = a
      /\ stop.at = (secs + 1) * Second /\ stop.run = "StopApplication" /\ stop.node = a
  OBVIOUS
<1>2. StartAndStop(q, a, secs) = Schedule(r, stop)
  BY DEF StartAndStop
<1> HIDE DEF start, stop
<1>3. Second \in Nat /\ (secs + 1) * Second \in Nat /\ (secs + 1) * Second >= Second
  <2>1. Second \in Nat /\ secs \in Nat
    BY TimeAssumption
  <2>2. secs * Second \in Nat /\ (secs + 1) * Second = secs * Second + Second
    BY <2>1
  <2> QED
    BY <2>1, <2>2
<1>4. IsEvent(start) /\ IsEvent(stop)
  BY <1>1, <1>3 DEF IsEvent, NodeHandlers
<1>5. QueueOK(r) /\ Range(r) = Range(q) \cup {start}
  <2>1. ~Occurs(q, start.run, start.node)
    BY <1>1 DEF Occurs, Is
  <2>2. \A y \in Range(q) : ~Later(y, start)
    BY <1>1 DEF Later, Is
  <2> QED
    BY <1>1, <1>4, <2>1, <2>2, QueueWith
<1> HIDE DEF r
<1>6. QueueOK(Schedule(r, stop)) /\ Range(Schedule(r, stop)) = Range(r) \cup {stop}
  <2>1. ~Occurs(r, stop.run, stop.node)
    BY <1>1, <1>5 DEF Occurs, Is
  <2> QED
    BY <1>1, <1>4, <1>5, <2>1, QueueWith
<1> QED
  BY <1>2, <1>5, <1>6 DEF start, stop

\* A sequence of elements of E.
LEMMA SeqOfElements ==
  ASSUME NEW q, IsSeq(q), NEW E, Range(q) \subseteq E
  PROVE  q \in Seq(E)
<1>1. PICK S : q \in Seq(S)
  BY DEF IsSeq
<1>2. q \in [1..Len(q) -> S] /\ Len(q) \in Nat
  BY <1>1, LenProperties
<1>3. q \in [1..Len(q) -> E]
  BY <1>2 DEF Range
<1> QED
  BY <1>2, <1>3, SeqDef

\* The recursion over the nodes has a value.
LEMMA InstalledIs ==
  ASSUME NEW secs \in Nat
  PROVE  /\ Cardinality(Node) \in Nat
         /\ Installed(secs)[0] = <<>>
         /\ \A n \in 1..Cardinality(Node) :
              Installed(secs)[n] = StartAndStop(Installed(secs)[n - 1], n, secs)
<1> DEFINE N == Cardinality(Node)
           E == [at : Nat, run : {"StartApplication", "StopApplication"}, node : Nat]
           step(q, n) == StartAndStop(q, n, secs)
           g == [p \in (0..(N - 1)) \X Seq(E) |-> step(p[2], p[1] + 1)]
<1>1. N \in Nat
  BY NodeAssumption, FS_CardinalityType
<1> HIDE DEF N
<1>2. ASSUME NEW q \in Seq(E), NEW x \in E PROVE Schedule(q, x) \in Seq(E)
  <2>1. IsSeq(q) /\ Range(q) \subseteq E
    <3> HIDE DEF E
    <3>1. q \in [1..Len(q) -> E] /\ DOMAIN q = 1..Len(q)
      BY LenProperties
    <3> QED
      BY <3>1 DEF IsSeq, Range
  <2>2. PICK k : Inserted(q, k, x, Schedule(q, x))
    BY <2>1, SchedulePlace
  <2>3. Range(Schedule(q, x)) = Range(q) \cup {x}
    BY <2>2, InsertedElements
  <2>4. IsSeq(Schedule(q, x)) /\ Range(Schedule(q, x)) \subseteq E
    BY <2>1, <2>2, <2>3 DEF Inserted
  <2> HIDE DEF E
  <2> QED
    BY <2>4, SeqOfElements
<1>3. ASSUME NEW q \in Seq(E), NEW n \in Nat PROVE step(q, n) \in Seq(E)
  <2> DEFINE start == [at |-> Second, run |-> "StartApplication", node |-> n]
             stop == [at |-> (secs + 1) * Second, run |-> "StopApplication", node |-> n]
  <2>1. start \in E /\ stop \in E
    <3> DEFINE end == (secs + 1) * Second
    <3>1. Second \in Nat /\ end \in Nat
      BY TimeAssumption
    <3> HIDE DEF end
    <3>2. [at |-> end, run |-> "StopApplication", node |-> n] \in E
      BY <3>1
    <3> QED
      BY <3>1, <3>2 DEF end
  <2>2. step(q, n) = Schedule(Schedule(q, start), stop)
    BY DEF StartAndStop
  <2> HIDE DEF start, stop, E, step
  <2> QED
    BY <1>2, <2>1, <2>2
<1> HIDE DEF E, step
<1>4. g \in Steps(N, Seq(E))
  <2>1. \A p \in (0..(N - 1)) \X Seq(E) : p[1] + 1 \in Nat /\ p[2] \in Seq(E)
    BY <1>1
  <2> QED
    BY <1>3, <2>1 DEF Steps
<1>5. Iterations(N, Seq(E), <<>>, g) # {}
  <2>1. <<>> \in Seq(E)
    BY EmptySeq
  <2> HIDE DEF g
  <2> QED
    BY <1>1, <1>4, <2>1, FiniteRecursion
<1>6. PICK h \in [0..N -> Seq(E)] : h[0] = <<>> /\ \A k \in 1..N : h[k] = step(h[k - 1], k)
  <2>1. PICK h \in [0..N -> Seq(E)] : h[0] = <<>> /\ \A k \in 1..N : h[k] = g[<<k - 1, h[k - 1]>>]
    BY <1>5 DEF Iterations
  <2>2. ASSUME NEW k \in 1..N PROVE g[<<k - 1, h[k - 1]>>] = step(h[k - 1], k)
    <3>1. k - 1 \in 0..(N - 1) /\ k - 1 \in 0..N /\ (k - 1) + 1 = k
      BY <1>1
    <3>2. <<k - 1, h[k - 1]>> \in (0..(N - 1)) \X Seq(E)
      BY <2>1, <3>1
    <3> QED
      BY <3>1, <3>2
  <2> QED
    BY <2>1, <2>2
<1>7. h = [n \in 0..N |-> IF n = 0 THEN <<>> ELSE step(h[n - 1], n)]
  BY <1>1, <1>6
<1>8. Installed(secs) = [n \in 0..N |-> IF n = 0 THEN <<>> ELSE step(Installed(secs)[n - 1], n)]
  BY <1>7 DEF Installed, N, step
<1> QED
  BY <1>1, <1>8 DEF N, step

\* What a queue has when the nodes 1..n have scheduled their start and stop.
InstalledUpTo(q, n) ==
  /\ QueueOK(q)
  /\ \A x \in Range(q) : x.run \in {"StartApplication", "StopApplication"} /\ x.node \in 1..n
  /\ \A a \in 1..n : Occurs(q, "StartApplication", a) /\ Occurs(q, "StopApplication", a)

\* Every node has scheduled one start and one stop when the simulator runs.
LEMMA InstalledOK ==
  ASSUME NEW secs \in Nat
  PROVE  InstalledUpTo(Installed(secs)[Cardinality(Node)], Cardinality(Node))
<1> DEFINE N == Cardinality(Node)
           Q == Installed(secs)
           Good == {n \in Nat : n <= N => InstalledUpTo(Q[n], n)}
<1>1. /\ N \in Nat /\ Q[0] = <<>>
      /\ \A n \in 1..N : Q[n] = StartAndStop(Q[n - 1], n, secs)
  BY InstalledIs
<1>2. Node = 1..N
  BY NodeAssumption
<1> HIDE DEF N, Q
<1>3. 0 \in Good
  <2>1. IsSeq(<<>>) /\ Len(<<>>) = 0
    BY EmptySeq DEF IsSeq
  <2>2. Range(<<>>) = {}
    BY <2>1, QueueElements
  <2>3. QueueOK(<<>>)
    BY <2>1 DEF QueueOK
  <2> QED
    BY <1>1, <2>2, <2>3 DEF InstalledUpTo
<1>4. ASSUME NEW n \in Nat, n \in Good PROVE n + 1 \in Good
  <2> SUFFICES ASSUME n + 1 <= N PROVE InstalledUpTo(Q[n + 1], n + 1)
    OBVIOUS
  <2> DEFINE start == [at |-> Second, run |-> "StartApplication", node |-> n + 1]
             stop == [at |-> (secs + 1) * Second, run |-> "StopApplication", node |-> n + 1]
  <2>1. InstalledUpTo(Q[n], n) /\ n + 1 \in Node /\ (n + 1) - 1 = n
    BY <1>1, <1>2, <1>4
  <2>2. Q[n + 1] = StartAndStop(Q[n], n + 1, secs)
    BY <1>1, <1>2, <2>1
  <2>3. \A x \in Range(Q[n]) :
           x.run \in {"StartApplication", "StopApplication"} /\ x.node # n + 1
    BY <2>1 DEF InstalledUpTo
  <2>4. QueueOK(Q[n + 1]) /\ Range(Q[n + 1]) = Range(Q[n]) \cup {start, stop}
    BY <2>1, <2>2, <2>3, StartAndStopOK DEF InstalledUpTo
  <2>5. Is(start, "StartApplication", n + 1) /\ Is(stop, "StopApplication", n + 1)
    BY DEF Is
  <2> HIDE DEF start, stop
  <2>6. \A x \in Range(Q[n + 1]) :
           x.run \in {"StartApplication", "StopApplication"} /\ x.node \in 1..(n + 1)
    BY <2>1, <2>4, <2>5 DEF InstalledUpTo, Is
  <2>7. ASSUME NEW a \in 1..(n + 1)
        PROVE  Occurs(Q[n + 1], "StartApplication", a) /\ Occurs(Q[n + 1], "StopApplication", a)
    <3>1. CASE a = n + 1
      BY <2>4, <2>5, <3>1 DEF Occurs
    <3>2. CASE a \in 1..n
      BY <2>1, <2>4, <3>2 DEF Occurs, InstalledUpTo
    <3> QED
      BY <3>1, <3>2
  <2> QED
    BY <2>4, <2>6, <2>7 DEF InstalledUpTo
<1> HIDE DEF Good
<1>5. N \in Good
  BY <1>1, <1>3, <1>4, SetInduct
<1> QED
  BY <1>1, <1>5 DEF Good, N, Q
-----------------------------------------------------------------------------
(* The inductive invariant. *)

\* The nodes that have started and are to stop.
Alive == {a \in Started : Occurs(events, "StopApplication", a)}

\* A node that has not started is to start and to stop, one that is alive has
\* one send ahead, and everything else a node holds follows from whether it is
\* alive.  That its timer and its sockets say the same is nowhere tested in the
\* code: it holds because StopApplication cancels the one and clears the others.
IInv ==
  /\ QueueOK(events)
  /\ now \in Nat /\ \A x \in Range(events) : x.at >= now
  /\ Started \subseteq Node /\ \A a \in Started : m_num_peers[a] = Cardinality(Peers(a))
  /\ \A a \in Node : /\ Occurs(events, "StartApplication", a) <=> a \notin Started
                     /\ a \notin Started => Occurs(events, "StopApplication", a)
                     /\ Occurs(events, "Send", a) <=> a \in Alive
  /\ DOMAIN m_sendEvent = Node
  /\ \A x \in Range(events) : x.run = "Send" => x.id = m_sendEvent[x.node]
  /\ m_recv_socket = Alive
  /\ m_send_sockets = [a \in Node |-> IF a \in Alive THEN Peers(a) ELSE {}]
  /\ DOMAIN unread = Edge
  /\ \A e \in Edge : unread[e] # <<>> => e[2] \in Started \ Alive

\* At first no node is alive and all have their start and stop ahead.
LEMMA InitIInv == Init => IInv
<1> SUFFICES ASSUME Init PROVE IInv
  OBVIOUS
<1>1. PICK secs \in SecsToRun : events = Installed(secs)[Cardinality(Node)]
  BY DEF Init
<1>2. InstalledUpTo(events, Cardinality(Node)) /\ Node = 1..Cardinality(Node)
  BY <1>1, TimeAssumption, NodeAssumption, InstalledOK
<1>3. \A x \in Range(events) : IsEvent(x)
  BY <1>2, QueueElements DEF InstalledUpTo, QueueOK
<1>4. now = 0 /\ \A x \in Range(events) : x.at >= now
  BY <1>3 DEF Init, IsEvent
<1>5. Started = {} /\ Alive = {}
  BY DEF Init, Started, Alive
<1>6. \A a \in Node : /\ Occurs(events, "StartApplication", a)
                      /\ Occurs(events, "StopApplication", a)
                      /\ ~Occurs(events, "Send", a)
  BY <1>2 DEF InstalledUpTo, Occurs, Is
<1>7. \A x \in Range(events) : x.run # "Send"
  BY <1>2 DEF InstalledUpTo
<1>8. m_recv_socket = {} /\ DOMAIN m_sendEvent = Node /\ m_send_sockets = [a \in Node |-> {}]
      /\ unread = [e \in Edge |-> <<>>]
  BY DEF Init
<1> QED
  BY <1>2, <1>4, <1>5, <1>6, <1>7, <1>8 DEF IInv, InstalledUpTo

\* What every handler finds.
LEMMA RunsNext ==
  ASSUME IInv, NEW handler, Runs(handler)
  PROVE  /\ Head(events).run = handler /\ IsEvent(Head(events)) /\ QueueOK(Tail(events))
         /\ Range(events) = Range(Tail(events)) \cup {Head(events)}
         /\ \A run \in NodeHandlers, a \in Node :
              Is(Head(events), run, a) => ~Occurs(Tail(events), run, a)
         /\ now' = Head(events).at /\ now' \in Nat /\ now' >= Second
         /\ \A x \in Range(Tail(events)) : x.at >= now'
         /\ \A a \in Node : Occurs(Tail(events), "StartApplication", a) =>
              /\ handler \in {"StartApplication", "StopApplication"}
              /\ ~Is(Head(events), "StopApplication", a)
<1>1. events # <<>> /\ Head(events).run = handler /\ now' = Head(events).at /\ QueueOK(events)
  BY DEF Runs, IInv
<1> QED
  BY <1>1, QueueHead DEF IsEvent

\* The timer is set.
LEMMA ScheduleTransmitOK ==
  ASSUME NEW q, QueueOK(q), NEW a \in Node, NEW dt \in Waits, ~Occurs(q, "Send", a),
         now' \in Nat, now' >= Second, DOMAIN m_sendEvent = Node, ScheduleTransmit(q, a, dt)
  PROVE  /\ QueueOK(events')
         /\ \E x : /\ Range(events') = Range(q) \cup {x}
                   /\ Is(x, "Send", a) /\ x.at \in Nat /\ x.at >= now' /\ x.id = m_sendEvent'[a]
         /\ DOMAIN m_sendEvent' = Node
         /\ \A b \in Node \ {a} : m_sendEvent'[b] = m_sendEvent[b]
<1> DEFINE id == NewId(q, a)
           x == [at |-> now' + dt, run |-> "Send", node |-> a, id |-> id]
<1>1. events' = Schedule(q, x) /\ m_sendEvent' = [m_sendEvent EXCEPT ![a] = id]
  BY DEF ScheduleTransmit
<1>2. x.at = now' + dt /\ x.run = "Send" /\ x.node = a /\ x.id = id
  OBVIOUS
<1> HIDE DEF x, id
<1>3. m_sendEvent'[a] = id
  BY <1>1
<1>4. /\ now' + dt \in Nat /\ now' + dt >= now' /\ now' + dt >= Second
  <2>1. dt \in Nat /\ Second \in Nat
    BY TimeAssumption
  <2>2. \A t \in Nat : t >= Second => t + dt \in Nat /\ t + dt >= t /\ t + dt >= Second
    BY <2>1
  <2> QED
    BY <2>2
<1>5. IsEvent(x)
  BY <1>2, <1>4 DEF IsEvent, NodeHandlers
<1>6. QueueOK(events') /\ Range(events') = Range(q) \cup {x}
  BY <1>1, <1>2, <1>5, QueueWith
<1>7. Is(x, "Send", a) /\ x.at \in Nat /\ x.at >= now' /\ x.id = m_sendEvent'[a]
  BY <1>2, <1>3, <1>4 DEF Is
<1> QED
  BY <1>1, <1>6, <1>7

\* A packet is put on a link.
LEMMA TransmittedOK ==
  ASSUME NEW q, QueueOK(q), NEW e \in Edge, NEW packet, NEW delay \in Delays,
         now' \in Nat, now' >= Second
  PROVE  /\ QueueOK(Transmitted(q, e, packet, delay))
         /\ \E x : /\ Range(Transmitted(q, e, packet, delay)) = Range(q) \cup {x}
                   /\ x.run = "HandleRead" /\ x.at \in Nat /\ x.at >= now'
<1> DEFINE x == [at |-> now' + delay, run |-> "HandleRead", edge |-> e, packet |-> packet]
<1>1. Transmitted(q, e, packet, delay) = Schedule(q, x)
  BY DEF Transmitted
<1>2. x.at = now' + delay /\ x.run = "HandleRead" /\ x.edge = e
  OBVIOUS
<1> HIDE DEF x
<1>3. now' + delay \in Nat /\ now' + delay >= now' /\ now' + delay >= Second
  <2>1. delay \in Nat /\ Second \in Nat
    BY TimeAssumption
  <2>2. \A t \in Nat : t >= Second => t + delay \in Nat /\ t + delay >= t /\ t + delay >= Second
    BY <2>1
  <2> QED
    BY <2>2
<1>4. IsEvent(x) /\ x.run \notin NodeHandlers /\ x.run # "StartApplication"
  BY <1>2, <1>3 DEF IsEvent, NodeHandlers
<1>5. QueueOK(Schedule(q, x)) /\ Range(Schedule(q, x)) = Range(q) \cup {x}
  BY <1>4, QueueWith
<1> QED
  BY <1>1, <1>2, <1>3, <1>5

\* A start makes a node alive: its sockets are open and its first send is ahead.
LEMMA StartIInv ==
  ASSUME IInv, NEW a \in Node, StartApplication(a)
  PROVE  IInv'
<1> DEFINE t == Tail(events)
           h == Head(events)
<1>1. /\ Runs("StartApplication") /\ h.node = a
      /\ m_recv_socket' = m_recv_socket \cup {a}
      /\ m_num_peers' = [b \in DOMAIN m_num_peers \cup {a} |->
                           IF b = a THEN Cardinality(Peers(a)) ELSE m_num_peers[b]]
      /\ m_send_sockets' = [m_send_sockets EXCEPT ![a] = Peers(a)]
      /\ unread' = unread
  BY DEF StartApplication
<1>2. PICK dt \in Waits : ScheduleTransmit(t, a, dt)
  BY DEF StartApplication
<1>3. /\ h.run = "StartApplication" /\ QueueOK(t)
      /\ Range(events) = Range(t) \cup {h}
      /\ \A run \in NodeHandlers, b \in Node : Is(h, run, b) => ~Occurs(t, run, b)
      /\ now' \in Nat /\ now' >= Second
      /\ \A x \in Range(t) : x.at >= now'
  BY <1>1, RunsNext
<1> HIDE DEF t, h
<1>4. Is(h, "StartApplication", a) /\ ~Occurs(t, "StartApplication", a)
  BY <1>1, <1>3 DEF Is, NodeHandlers
<1>5. \A b \in Node : /\ Occurs(t, "StartApplication", b) <=> b # a /\ b \notin Started
                      /\ Occurs(t, "StopApplication", b) <=> Occurs(events, "StopApplication", b)
                      /\ Occurs(t, "Send", b) <=> b \in Alive
  BY <1>3, <1>4 DEF IInv, Occurs, Is
<1>6. a \notin Started /\ a \notin Alive /\ Occurs(t, "StopApplication", a)
  BY <1>3, <1>4, <1>5 DEF IInv, Occurs, Alive
<1>7. /\ QueueOK(events') /\ DOMAIN m_sendEvent' = Node
      /\ \A b \in Node \ {a} : m_sendEvent'[b] = m_sendEvent[b]
      /\ \E x : /\ Range(events') = Range(t) \cup {x}
                /\ Is(x, "Send", a) /\ x.at \in Nat /\ x.at >= now' /\ x.id = m_sendEvent'[a]
  BY <1>2, <1>3, <1>5, <1>6, ScheduleTransmitOK DEF IInv
<1>8. PICK x : /\ Range(events') = Range(t) \cup {x}
               /\ Is(x, "Send", a) /\ x.at >= now' /\ x.id = m_sendEvent'[a]
  BY <1>7
<1>9. Started' = Started \cup {a}
  BY <1>1 DEF Started
<1>10. \A b \in Node : /\ Occurs(events', "StartApplication", b) <=> b \notin Started'
                       /\ Occurs(events', "StopApplication", b) <=> Occurs(events, "StopApplication", b)
                       /\ Occurs(events', "Send", b) <=> b \in Alive \/ b = a
  BY <1>5, <1>8, <1>9 DEF Occurs, Is
<1>11. Alive' = Alive \cup {a} /\ Started \subseteq Node
  <2>1. Started' \subseteq Node /\ Started \subseteq Node /\ Occurs(events, "StopApplication", a)
    BY <1>5, <1>6, <1>9 DEF IInv
  <2> QED
    BY <1>9, <1>10, <2>1 DEF Alive
<1>12. \A y \in Range(events') : y.at >= now' /\ (y.run = "Send" => y.id = m_sendEvent'[y.node])
  <2>1. ASSUME NEW y \in Range(t), y.run = "Send" PROVE y.id = m_sendEvent'[y.node]
    <3>1. y.id = m_sendEvent[y.node] /\ IsEvent(y)
      BY <1>3, <2>1, QueueElements DEF IInv, QueueOK
    <3>2. y.node \in Node /\ Occurs(t, "Send", y.node)
      BY <2>1, <3>1 DEF IsEvent, Occurs, Is
    <3>3. y.node # a
      BY <1>5, <1>6, <3>2
    <3> QED
      BY <1>7, <3>1, <3>2, <3>3
  <2> QED
    BY <1>3, <1>8, <2>1 DEF Is
<1>13. \A b \in Started' : m_num_peers'[b] = Cardinality(Peers(b))
  BY <1>1, <1>9 DEF IInv, Started
<1>14. m_send_sockets' = [b \in Node |-> IF b \in Alive' THEN Peers(b) ELSE {}]
  BY <1>1, <1>11 DEF IInv
<1>15. \A e \in Edge : unread'[e] # <<>> => e[2] \in Started' \ Alive'
  BY <1>1, <1>6, <1>9, <1>11 DEF IInv
<1> QED
  BY <1>1, <1>3, <1>7, <1>9, <1>10, <1>11, <1>12, <1>13, <1>14, <1>15 DEF IInv, Peers

\* A send takes the timer off the queue and puts the next one on it.
LEMMA SendIInv ==
  ASSUME IInv, NEW a \in Node, Send(a)
  PROVE  IInv'
<1> DEFINE t == Tail(events)
           h == Head(events)
<1>1. /\ Runs("Send") /\ h.node = a
      /\ UNCHANGED <<m_num_peers, m_recv_socket, m_send_sockets, unread>>
  BY DEF Send
<1>2. PICK b \in Peers(a), dt \in Waits, delay \in Delays :
         ScheduleTransmit(Transmitted(t, <<a, b>>, MarshalTo(m_dmc_data[a]), delay), a, dt)
  BY DEF Send
<1>3. /\ h.run = "Send" /\ QueueOK(t)
      /\ Range(events) = Range(t) \cup {h}
      /\ \A run \in NodeHandlers, c \in Node : Is(h, run, c) => ~Occurs(t, run, c)
      /\ now' \in Nat /\ now' >= Second
      /\ \A x \in Range(t) : x.at >= now'
  BY <1>1, RunsNext
<1> DEFINE u == Transmitted(t, <<a, b>>, MarshalTo(m_dmc_data[a]), delay)
<1> HIDE DEF t, h
<1>4. Is(h, "Send", a) /\ ~Occurs(t, "Send", a) /\ a \in Alive
  BY <1>1, <1>3 DEF Is, NodeHandlers, IInv, Occurs
<1>5. PICK y : /\ QueueOK(u) /\ Range(u) = Range(t) \cup {y}
               /\ y.run = "HandleRead" /\ y.at >= now'
  <2>1. <<a, b>> \in Edge
    BY DEF Peers
  <2> QED
    BY <1>3, <2>1, TransmittedOK
<1> HIDE DEF u
<1>6. \A c \in Node : /\ Occurs(u, "StartApplication", c) <=> c \notin Started
                      /\ Occurs(u, "StopApplication", c) <=> Occurs(events, "StopApplication", c)
                      /\ Occurs(u, "Send", c) <=> c # a /\ c \in Alive
  BY <1>3, <1>4, <1>5 DEF IInv, Occurs, Is
<1>7. /\ QueueOK(events') /\ DOMAIN m_sendEvent' = Node
      /\ \A c \in Node \ {a} : m_sendEvent'[c] = m_sendEvent[c]
      /\ \E x : /\ Range(events') = Range(u) \cup {x}
                /\ Is(x, "Send", a) /\ x.at \in Nat /\ x.at >= now' /\ x.id = m_sendEvent'[a]
  <2>1. ~Occurs(u, "Send", a) /\ ScheduleTransmit(u, a, dt) /\ DOMAIN m_sendEvent = Node
    BY <1>2, <1>6 DEF u, IInv
  <2> QED
    BY <1>3, <1>5, <2>1, ScheduleTransmitOK
<1>8. PICK x : /\ Range(events') = Range(u) \cup {x}
               /\ Is(x, "Send", a) /\ x.at >= now' /\ x.id = m_sendEvent'[a]
  BY <1>7
<1>9. Started' = Started
  BY <1>1 DEF Started
<1>10. \A c \in Node : /\ Occurs(events', "StartApplication", c) <=> c \notin Started
                       /\ Occurs(events', "StopApplication", c) <=> Occurs(events, "StopApplication", c)
                       /\ Occurs(events', "Send", c) <=> c \in Alive
  BY <1>4, <1>6, <1>8 DEF Occurs, Is
<1>11. Alive' = Alive /\ Started \subseteq Node
  BY <1>9, <1>10 DEF Alive, IInv
<1>12. \A z \in Range(events') : z.at >= now' /\ (z.run = "Send" => z.id = m_sendEvent'[z.node])
  <2>1. ASSUME NEW z \in Range(t), z.run = "Send" PROVE z.id = m_sendEvent'[z.node]
    <3>1. z.id = m_sendEvent[z.node] /\ IsEvent(z)
      BY <1>3, <2>1, QueueElements DEF IInv, QueueOK
    <3>2. z.node \in Node /\ Occurs(t, "Send", z.node)
      BY <2>1, <3>1 DEF IsEvent, Occurs, Is
    <3>3. z.node # a
      BY <1>4, <3>2
    <3> QED
      BY <1>7, <3>1, <3>2, <3>3
  <2> QED
    BY <1>3, <1>5, <1>8, <2>1 DEF Is
<1> QED
  BY <1>1, <1>3, <1>7, <1>9, <1>10, <1>11, <1>12 DEF IInv, Peers

\* A packet that arrives, read or not.
LEMMA ArrivalIInv ==
  ASSUME IInv, NEW e \in Edge, Runs("HandleRead"), events' = Tail(events),
         UNCHANGED app, DOMAIN unread' = Edge,
         \A d \in Edge : unread'[d] # <<>> => unread[d] # <<>> \/ d[2] \notin m_recv_socket
  PROVE  IInv'
<1> DEFINE t == Tail(events)
           h == Head(events)
<1>1. /\ h.run = "HandleRead" /\ QueueOK(t)
      /\ Range(events) = Range(t) \cup {h}
      /\ now' \in Nat /\ \A x \in Range(t) : x.at >= now'
      /\ \A a \in Node : ~Occurs(t, "StartApplication", a)
  BY RunsNext
<1>2. /\ events' = t /\ Started' = Started
      /\ UNCHANGED <<m_num_peers, m_recv_socket, m_send_sockets, m_sendEvent>>
  BY DEF app, Started
<1> HIDE DEF t, h
<1>3. \A run \in NodeHandlers, a \in Node : Occurs(events', run, a) <=> Occurs(events, run, a)
  BY <1>1, <1>2 DEF Occurs, Is, NodeHandlers
<1>4. Alive' = Alive /\ Node \subseteq Started
  <2>1. \A a \in Started : Occurs(events', "StopApplication", a) <=> Occurs(events, "StopApplication", a)
    BY <1>3 DEF IInv, NodeHandlers
  <2>2. \A a \in Node : ~Occurs(events, "StartApplication", a)
    BY <1>1, <1>2, <1>3 DEF NodeHandlers
  <2> QED
    BY <1>2, <2>1, <2>2 DEF Alive, IInv
<1>5. \A d \in Edge : unread'[d] # <<>> => d[2] \in Started' \ Alive'
  <2>1. \A d \in Edge : d[2] \in Node
    BY LinkAssumption
  <2> QED
    BY <1>2, <1>4, <2>1 DEF IInv
<1>6. \A a \in Node : /\ Occurs(events', "StartApplication", a) <=> a \notin Started'
                      /\ a \notin Started' => Occurs(events', "StopApplication", a)
                      /\ Occurs(events', "Send", a) <=> a \in Alive'
  BY <1>2, <1>3, <1>4 DEF IInv, NodeHandlers
<1> QED
  BY <1>1, <1>2, <1>4, <1>5, <1>6 DEF IInv, Peers

\* An arrival at a node that listens changes its data only.
LEMMA HandleReadIInv ==
  ASSUME IInv, NEW e \in Edge, HandleRead(e)
  PROVE  IInv'
<1>1. Runs("HandleRead") /\ events' = Tail(events) /\ UNCHANGED <<app, unread>>
  BY DEF HandleRead
<1> QED
  BY <1>1, ArrivalIInv DEF IInv

\* An arrival at a node that does not listen: all have started, so it has stopped.
LEMMA NotReadIInv ==
  ASSUME IInv, NEW e \in Edge, NotRead(e)
  PROVE  IInv'
<1>1. /\ Runs("HandleRead") /\ events' = Tail(events) /\ UNCHANGED app
      /\ unread' = [unread EXCEPT ![e] = Append(unread[e], Head(events).packet)]
      /\ e[2] \notin m_recv_socket
  BY DEF NotRead
<1>2. DOMAIN unread' = Edge
  BY <1>1 DEF IInv
<1>3. \A d \in Edge : unread'[d] # <<>> => unread[d] # <<>> \/ d[2] \notin m_recv_socket
  BY <1>1 DEF IInv
<1> QED
  BY <1>1, <1>2, <1>3, ArrivalIInv

\* A stop cancels the send that is ahead, which m_sendEvent identifies.
LEMMA StopIInv ==
  ASSUME IInv, NEW a \in Node, StopApplication(a)
  PROVE  IInv'
<1> DEFINE t == Tail(events)
           h == Head(events)
           c == Cancel(t, a, m_sendEvent[a])
<1>1. /\ Runs("StopApplication") /\ h.node = a /\ a \in Started
      /\ m_recv_socket' = m_recv_socket \ {a}
      /\ m_send_sockets' = [m_send_sockets EXCEPT ![a] = {}]
      /\ events' = c
      /\ UNCHANGED <<m_num_peers, m_sendEvent, unread>>
  BY DEF StopApplication, Started
<1>2. /\ h.run = "StopApplication" /\ QueueOK(t)
      /\ Range(events) = Range(t) \cup {h}
      /\ \A run \in NodeHandlers, b \in Node : Is(h, run, b) => ~Occurs(t, run, b)
      /\ now' \in Nat /\ \A x \in Range(t) : x.at >= now'
  BY <1>1, RunsNext
<1> HIDE DEF t, h
<1>3. /\ Is(h, "StopApplication", a) /\ ~Occurs(t, "StopApplication", a)
      /\ a \in Alive
  BY <1>1, <1>2 DEF Is, NodeHandlers, Alive, Occurs
<1>4. \A b \in Node : /\ Occurs(t, "StartApplication", b) <=> b \notin Started
                      /\ Occurs(t, "StopApplication", b) <=> b # a /\ Occurs(events, "StopApplication", b)
                      /\ Occurs(t, "Send", b) <=> b \in Alive
  BY <1>2, <1>3 DEF IInv, Occurs, Is
<1>5. PICK x : /\ QueueOK(c) /\ Range(t) = Range(c) \cup {x}
               /\ Is(x, "Send", a) /\ ~Occurs(c, "Send", a)
  <2>1. \A y \in Range(t) : Is(y, "Send", a) => y.id = m_sendEvent[a]
    BY <1>2 DEF IInv, Is
  <2>2. Occurs(t, "Send", a)
    BY <1>3, <1>4
  <2> QED
    BY <1>2, <2>1, <2>2, QueueCancel
<1> HIDE DEF c
<1>6. \A b \in Node : /\ Occurs(c, "StartApplication", b) <=> b \notin Started
                      /\ Occurs(c, "StopApplication", b) <=> b # a /\ Occurs(events, "StopApplication", b)
                      /\ Occurs(c, "Send", b) <=> b # a /\ b \in Alive
  BY <1>4, <1>5 DEF Occurs, Is
<1>7. Started' = Started /\ Started \subseteq Node
  BY <1>1 DEF Started, IInv
<1>8. Alive' = Alive \ {a}
  BY <1>1, <1>6, <1>7 DEF Alive
<1>9. m_send_sockets' = [b \in Node |-> IF b \in Alive' THEN Peers(b) ELSE {}]
  BY <1>1, <1>8 DEF IInv
<1>10. \A e \in Edge : unread'[e] # <<>> => e[2] \in Started' \ Alive'
  BY <1>1, <1>7, <1>8 DEF IInv
<1>11. \A b \in Node : /\ Occurs(events', "StartApplication", b) <=> b \notin Started'
                       /\ b \notin Started' => Occurs(events', "StopApplication", b)
                       /\ Occurs(events', "Send", b) <=> b \in Alive'
  BY <1>1, <1>6, <1>7, <1>8 DEF IInv
<1>12. \A y \in Range(events') : y.at >= now' /\ (y.run = "Send" => y.id = m_sendEvent'[y.node])
  BY <1>1, <1>2, <1>5 DEF IInv
<1> QED
  BY <1>1, <1>2, <1>5, <1>7, <1>8, <1>9, <1>10, <1>11, <1>12 DEF IInv, Peers

\* When the queue is empty every node has stopped, and the destructors find nothing open.
LEMMA DestroyIInv ==
  ASSUME IInv, Destroy
  PROVE  IInv'
<1>1. /\ events = <<>> /\ m_recv_socket' = {} /\ m_send_sockets' = [a \in Node |-> {}]
      /\ UNCHANGED <<now, events, m_num_peers, m_sendEvent, unread>>
  BY DEF Destroy
<1>2. Range(events) = {}
  <2>1. Len(events) = 0 /\ IsSeq(events)
    BY <1>1 DEF IInv, QueueOK
  <2> QED
    BY <2>1, QueueElements
<1>3. Alive = {} /\ Alive' = {} /\ Started' = Started
  BY <1>1, <1>2 DEF Alive, Occurs, Started
<1> QED
  BY <1>1, <1>3 DEF IInv, Peers

\* No event that the simulator runs disturbs IInv, and neither does its end.
LEMMA NextIInv == IInv /\ [Next]_vars => IInv'
<1> SUFFICES ASSUME IInv, [Next]_vars PROVE IInv'
  OBVIOUS
<1>1. ASSUME NEW a \in Node, StartApplication(a) PROVE IInv'
  BY <1>1, StartIInv
<1>2. ASSUME NEW a \in Node, Send(a) PROVE IInv'
  BY <1>2, SendIInv
<1>3. ASSUME NEW a \in Node, StopApplication(a) PROVE IInv'
  BY <1>3, StopIInv
<1>4. ASSUME NEW e \in Edge, HandleRead(e) PROVE IInv'
  BY <1>4, HandleReadIInv
<1>5. ASSUME NEW e \in Edge, NotRead(e) PROVE IInv'
  BY <1>5, NotReadIInv
<1>6. CASE Destroy
  BY <1>6, DestroyIInv
<1>7. CASE UNCHANGED vars
  BY <1>7 DEF vars, IInv, Alive, Started, Peers
<1> QED
  BY <1>1, <1>2, <1>3, <1>4, <1>5, <1>6, <1>7 DEF Next, Exit

\* In every state of a simulation the events that are to happen, the sockets and
\* the timer of every node agree.
THEOREM Invariance == Spec => []IInv
  BY InitIInv, NextIInv, PTL DEF Spec
-----------------------------------------------------------------------------
(* The properties that follow. *)

\* The nodes that are alive are those whose stop is to happen.
LEMMA RunningIs ==
  ASSUME IInv
  PROVE  Running = Alive /\ Len(events) \in Nat
<1>1. Len(events) \in Nat /\ Range(events) = {events[i] : i \in 1..Len(events)}
  BY QueueElements DEF IInv, QueueOK
<1> QED
  BY <1>1 DEF Running, Alive, Occurs, Is

\* The sends of a node that are to happen.
LEMMA PendingIs ==
  ASSUME IInv, NEW a \in Node
  PROVE  Pending(events, a) = IF a \in Alive THEN {m_sendEvent[a]} ELSE {}
<1>1. Range(events) = {events[i] : i \in 1..Len(events)}
  BY QueueElements DEF IInv, QueueOK
<1>2. Pending(events, a) = {x.id : x \in {y \in Range(events) : Is(y, "Send", a)}}
  BY <1>1 DEF Pending, Sends, Is
<1>3. \A x \in Range(events) : Is(x, "Send", a) => x.id = m_sendEvent[a]
  BY DEF IInv, Is
<1>4. (\E x \in Range(events) : Is(x, "Send", a)) <=> a \in Alive
  BY DEF IInv, Occurs
<1> QED
  BY <1>2, <1>3, <1>4

\* No event is in the past, and what StartApplication assigned stays as it is.
THEOREM TypeCorrect == Spec => []TypeOK
<1>1. IInv => TypeOK
  <2> SUFFICES ASSUME IInv PROVE TypeOK
    OBVIOUS
  <2>1. \A i \in 1..Len(events) : events[i].at >= now
    BY QueueElements DEF IInv, QueueOK
  <2>2. m_recv_socket \subseteq Started
    BY DEF IInv, Alive
  <2> QED
    BY <2>1, <2>2 DEF IInv, TypeOK
<1> QED
  BY <1>1, Invariance, PTL

\* A running node has exactly one send ahead, the one that StopApplication
\* cancels, and any other node has none, whatever rand() returns.
THEOREM OneTimerHolds == Spec => []OneTimer
<1>1. IInv => OneTimer
  BY RunningIs, PendingIs DEF OneTimer
<1> QED
  BY <1>1, Invariance, PTL

\* Send never calls through a null Ptr<Socket>.
THEOREM SocketsForSendHolds == Spec => []SocketsForSend
<1>1. IInv => SocketsForSend
  <2> SUFFICES ASSUME IInv, NEW a \in Node, Pending(events, a) # {}
               PROVE  a \in Started /\ Cardinality(m_send_sockets[a]) = m_num_peers[a]
    BY DEF SocketsForSend
  <2>1. a \in Alive
    BY PendingIs
  <2> QED
    BY <2>1 DEF IInv, Alive
<1> QED
  BY <1>1, Invariance, PTL

\* No node starts so late that it misses a packet: what is lost was sent to a
\* node that has been stopped.
THEOREM LostOnlyToStoppedHolds == Spec => []LostOnlyToStopped
<1>1. IInv => LostOnlyToStopped
  BY RunningIs DEF IInv, LostOnlyToStopped
<1> QED
  BY <1>1, Invariance, PTL

\* When Simulator::Run returns no socket is open, and every destructor reads an
\* m_num_peers that has been assigned.
THEOREM CleanAtEndHolds == Spec => []CleanAtEnd
<1>1. IInv => CleanAtEnd
  <2> SUFFICES ASSUME IInv, events = <<>> PROVE CleanAtEnd
    BY DEF CleanAtEnd
  <2>1. Range(events) = {}
    <3>1. Len(events) = 0 /\ IsSeq(events)
      BY DEF IInv, QueueOK
    <3> QED
      BY <3>1, QueueElements
  <2>2. Alive = {} /\ \A a \in Node : a \in Started
    BY <2>1 DEF IInv, Alive, Occurs
  <2> QED
    BY <2>2 DEF IInv, CleanAtEnd
<1> QED
  BY <1>1, Invariance, PTL

\* In a network where every node has a link, which is what dmc.cc builds for two
\* nodes or more, there is a peer to pick for every send.
THEOREM PeerToPickHolds ==
  ASSUME \A a \in Node : Peers(a) # {}
  PROVE  Spec => []PeerToPick
<1>1. IInv => PeerToPick
  <2> SUFFICES ASSUME IInv, events # <<>>, Head(events).run = "Send"
               PROVE  m_num_peers[Head(events).node] > 0
    BY DEF PeerToPick
  <2> DEFINE a == Head(events).node
  <2>1. Head(events) \in Range(events) /\ IsEvent(Head(events))
    BY QueueHead DEF IInv
  <2>2. a \in Node /\ Occurs(events, "Send", a)
    BY <2>1 DEF IsEvent, Occurs, Is
  <2>3. m_num_peers[a] = Cardinality(Peers(a))
    BY <2>2 DEF IInv, Alive
  <2>4. IsFiniteSet(Peers(a)) /\ Peers(a) # {}
    BY <2>2, NodeAssumption, FS_Subset DEF Peers
  <2>5. Cardinality(Peers(a)) \in Nat /\ Cardinality(Peers(a)) # 0
    BY <2>4, FS_EmptySet, FS_CardinalityType
  <2> QED
    BY <2>3, <2>5
<1> QED
  BY <1>1, Invariance, PTL

\* In such a network the process is not killed: no assertion fails, and no send
\* divides by zero or calls through a null Ptr<Socket>.
THEOREM NeverCrashes ==
  ASSUME \A a \in Node : Peers(a) # {}
  PROVE  Spec => []~Crashes
<1>1. IInv => ~Crashes
  <2> SUFFICES ASSUME IInv, events # <<>> PROVE ~Crashes
    BY DEF Crashes
  <2> DEFINE a == Head(events).node
  <2>1. Head(events) \in Range(events) /\ IsEvent(Head(events))
    BY QueueHead DEF IInv
  <2>2. CASE Head(events).run = "StartApplication"
    <3>1. a \in Node /\ a # 0
      BY <2>1, <2>2, NodeAssumption, FS_CardinalityType DEF IsEvent
    <3> QED
      BY <2>2, <3>1 DEF Crashes, AssertionFails, GetSomeAddrOf
  <2>3. CASE Head(events).run = "Send"
    <3>1. a \in Node /\ Occurs(events, "Send", a)
      BY <2>1, <2>3 DEF IsEvent, Occurs, Is
    <3>2. m_send_sockets[a] = Peers(a)
      BY <3>1 DEF IInv
    <3> QED
      BY <2>3, <3>1, <3>2 DEF Crashes
  <2> QED
    BY <2>2, <2>3 DEF Crashes
<1> QED
  BY <1>1, Invariance, PTL
-----------------------------------------------------------------------------
(* LubyMIS over UdpGossip implements LubyGossip. *)

Packets(q) == {x.packet : x \in Range(q)}
AllUnderWay(q, e) == UnderWay(q, e)[Len(q)]

\* The recursion over the events has a value.
LEMMA UnderWayIs ==
  ASSUME NEW q, IsSeq(q), NEW e
  PROVE  /\ Len(q) \in Nat /\ UnderWay(q, e)[0] = <<>>
         /\ \A n \in 1..Len(q) :
              UnderWay(q, e)[n] = IF Arrives(q[n], e)
                                  THEN Append(UnderWay(q, e)[n - 1], q[n].packet)
                                  ELSE UnderWay(q, e)[n - 1]
         /\ \A n \in 0..Len(q) : UnderWay(q, e)[n] \in Seq(Packets(q))
<1> DEFINE N == Len(q)
           S == Seq(Packets(q))
           step(s, n) == IF Arrives(q[n], e) THEN Append(s, q[n].packet) ELSE s
           g == [p \in (0..(N - 1)) \X S |-> step(p[2], p[1] + 1)]
           body(f) == [n \in 0..N |-> IF n = 0 THEN <<>> ELSE step(f[n - 1], n)]
           W == CHOOSE f : f = body(f)
<1>1. N \in Nat /\ \A n \in 1..N : q[n].packet \in Packets(q)
  BY QueueElements DEF Packets
<1> HIDE DEF N
<1>2. ASSUME NEW s \in S, NEW n \in 1..N PROVE step(s, n) \in S
  BY <1>1, <1>2
<1>3. g \in Steps(N, S)
  <2>1. ASSUME NEW p \in (0..(N - 1)) \X S PROVE step(p[2], p[1] + 1) \in S
    <3>1. p[2] \in S /\ p[1] + 1 \in 1..N
      BY <1>1
    <3> HIDE DEF step, S
    <3> QED
      BY <1>2, <3>1
  <2> HIDE DEF step, S
  <2> QED
    BY <2>1 DEF Steps
<1>4. <<>> \in S
  OBVIOUS
<1>5. PICK h \in [0..N -> S] :
         h[0] = <<>> /\ \A k \in 1..N : h[k] = g[<<k - 1, h[k - 1]>>]
  <2> HIDE DEF g, S
  <2> QED
    BY <1>1, <1>3, <1>4, FiniteRecursion DEF Iterations
<1>6. ASSUME NEW k \in 1..N PROVE h[k] = step(h[k - 1], k)
  <2>1. <<k - 1, h[k - 1]>> \in (0..(N - 1)) \X S /\ (k - 1) + 1 = k
    BY <1>1, <1>5
  <2> DEFINE p == <<k - 1, h[k - 1]>>
  <2>2. p[1] = k - 1 /\ p[2] = h[k - 1]
    OBVIOUS
  <2>3. h[k] = g[p]
    BY <1>5
  <2> HIDE DEF step, S, p
  <2>4. p \in (0..(N - 1)) \X S
    BY <2>1 DEF p
  <2> QED
    BY <2>1, <2>2, <2>3, <2>4
<1>7. h = body(h)
  <2>1. h[0] = <<>> /\ h \in [0..N -> S]
    BY <1>5
  <2> HIDE DEF step, S
  <2> QED
    BY <1>1, <1>6, <2>1
<1>8. W = body(W)
  <2> HIDE DEF body
  <2> QED
    BY <1>7
<1>9. UnderWay(q, e) = W
  BY DEF UnderWay, N
<1> HIDE DEF W
<1>10. W[0] = <<>> /\ \A n \in 1..N : W[n] = step(W[n - 1], n)
  <2> HIDE DEF step
  <2> QED
    BY <1>1, <1>8
<1>11. \A n \in 0..N : W[n] \in S
  <2> DEFINE G == {n \in Nat : n <= N => W[n] \in S}
  <2>1. 0 \in G
    BY <1>4, <1>10
  <2>2. ASSUME NEW n \in Nat, n \in G PROVE n + 1 \in G
    <3> SUFFICES ASSUME n + 1 <= N PROVE W[n + 1] \in S
      OBVIOUS
    <3>1. W[n] \in S /\ n + 1 \in 1..N /\ (n + 1) - 1 = n
      BY <1>1, <2>2
    <3>2. W[n + 1] = step(W[n], n + 1)
      <4> HIDE DEF step, S
      <4> QED
        BY <1>10, <3>1
    <3> HIDE DEF step, S
    <3> QED
      BY <1>2, <3>1, <3>2
  <2> HIDE DEF G
  <2>3. Nat \subseteq G
    BY <2>1, <2>2, SetInduct
  <2> HIDE DEF S
  <2> QED
    BY <1>1, <2>3 DEF G
<1> QED
  BY <1>1, <1>9, <1>10, <1>11 DEF N

\* Events after which no packet arrives on the link add none.
LEMMA NoneAfter ==
  ASSUME NEW q, IsSeq(q), NEW e, NEW m \in 0..Len(q),
         \A i \in (m + 1)..Len(q) : ~Arrives(q[i], e)
  PROVE  AllUnderWay(q, e) = UnderWay(q, e)[m]
<1> DEFINE U == UnderWay(q, e)
           G == {n \in Nat : m + n <= Len(q) => U[m + n] = U[m]}
<1>1. /\ Len(q) \in Nat
      /\ \A n \in 1..Len(q) : ~Arrives(q[n], e) => U[n] = U[n - 1]
  BY UnderWayIs
<1> HIDE DEF U
<1>2. 0 \in G
  BY <1>1
<1>3. ASSUME NEW n \in Nat, n \in G PROVE n + 1 \in G
  <2> SUFFICES ASSUME m + (n + 1) <= Len(q) PROVE U[m + (n + 1)] = U[m]
    OBVIOUS
  <2>1. /\ m + (n + 1) \in 1..Len(q) /\ m + (n + 1) \in (m + 1)..Len(q)
        /\ (m + (n + 1)) - 1 = m + n
    BY <1>1
  <2> QED
    BY <1>1, <1>3, <2>1
<1> HIDE DEF G
<1>4. Len(q) - m \in G
  BY <1>1, <1>2, <1>3, SetInduct
<1>5. m + (Len(q) - m) = Len(q)
  BY <1>1
<1> QED
  BY <1>4, <1>5 DEF G, U, AllUnderWay

\* Queues that begin alike have the same packets among their first events.
LEMMA SameBeginning ==
  ASSUME NEW q, IsSeq(q), NEW r, IsSeq(r), NEW e, NEW m \in 0..Len(q), m <= Len(r),
         \A i \in 1..m : r[i] = q[i]
  PROVE  UnderWay(r, e)[m] = UnderWay(q, e)[m]
<1> DEFINE U == UnderWay(q, e)
           V == UnderWay(r, e)
           add(s, x) == IF Arrives(x, e) THEN Append(s, x.packet) ELSE s
           G == {n \in Nat : n <= m => V[n] = U[n]}
<1>1. /\ Len(q) \in Nat /\ Len(r) \in Nat /\ U[0] = <<>> /\ V[0] = <<>>
      /\ \A n \in 1..Len(q) : U[n] = add(U[n - 1], q[n])
      /\ \A n \in 1..Len(r) : V[n] = add(V[n - 1], r[n])
  BY UnderWayIs
<1> HIDE DEF U, V, add
<1>2. 0 \in G
  BY <1>1
<1>3. ASSUME NEW n \in Nat, n \in G PROVE n + 1 \in G
  <2> SUFFICES ASSUME n + 1 <= m PROVE V[n + 1] = U[n + 1]
    OBVIOUS
  <2>1. n + 1 \in 1..Len(q) /\ n + 1 \in 1..Len(r) /\ n + 1 \in 1..m /\ (n + 1) - 1 = n
    BY <1>1
  <2>2. V[n] = U[n] /\ r[n + 1] = q[n + 1]
    BY <1>3, <2>1
  <2>3. U[n + 1] = add(U[n], q[n + 1]) /\ V[n + 1] = add(V[n], r[n + 1])
    BY <1>1, <2>1
  <2> QED
    BY <2>2, <2>3
<1> HIDE DEF G
<1>4. m \in G
  <2>1. m \in Nat
    BY <1>1
  <2> QED
    BY <1>2, <1>3, <2>1, SetInduct
<1> QED
  BY <1>4 DEF G, U, V

\* An event that is not a packet for the link leaves its packets as they are.
LEMMA OtherInserted ==
  ASSUME NEW q, NEW k, NEW x, NEW r, Inserted(q, k, x, r), NEW e, ~Arrives(x, e)
  PROVE  AllUnderWay(r, e) = AllUnderWay(q, e)
<1> DEFINE U == UnderWay(q, e)
           V == UnderWay(r, e)
           add(s, y) == IF Arrives(y, e) THEN Append(s, y.packet) ELSE s
           G == {n \in Nat : (k - 1) + n <= Len(q) => V[k + n] = U[(k - 1) + n]}
<1>1. IsSeq(q) /\ IsSeq(r) /\ Len(q) \in Nat /\ Len(r) = Len(q) + 1 /\ k \in 1..Len(r)
  BY DEF Inserted
<1>2. /\ \A n \in 1..Len(q) : U[n] = add(U[n - 1], q[n])
      /\ \A n \in 1..Len(r) : V[n] = add(V[n - 1], r[n])
  BY <1>1, UnderWayIs
<1>3. V[k - 1] = U[k - 1]
  <2>1. k - 1 \in 0..Len(q) /\ k - 1 <= Len(r) /\ \A i \in 1..(k - 1) : r[i] = q[i]
    BY <1>1 DEF Inserted
  <2> QED
    BY <1>1, <2>1, SameBeginning
<1>4. V[k] = V[k - 1]
  <2>1. r[k] = x
    BY DEF Inserted
  <2>2. V[k] = add(V[k - 1], x)
    <3> HIDE DEF U, V, add
    <3> QED
      BY <1>1, <1>2, <2>1
  <2> QED
    BY <2>2
<1> HIDE DEF U, V, add
<1>5. 0 \in G
  BY <1>1, <1>3, <1>4
<1>6. ASSUME NEW n \in Nat, n \in G PROVE n + 1 \in G
  <2> SUFFICES ASSUME (k - 1) + (n + 1) <= Len(q) PROVE V[k + (n + 1)] = U[(k - 1) + (n + 1)]
    OBVIOUS
  <2> DEFINE m == k + n
  <2>1. /\ m \in k..Len(q) /\ m \in 1..Len(q) /\ m + 1 \in 1..Len(r) /\ (m + 1) - 1 = m
        /\ k + (n + 1) = m + 1 /\ (k - 1) + (n + 1) = m /\ (k - 1) + n = m - 1
        /\ (k - 1) + n <= Len(q)
    BY <1>1
  <2>2. V[m] = U[m - 1]
    BY <1>6, <2>1
  <2> HIDE DEF m
  <2>3. r[m + 1] = q[m]
    BY <2>1 DEF Inserted
  <2>4. V[m + 1] = add(V[m], r[m + 1]) /\ U[m] = add(U[m - 1], q[m])
    BY <1>2, <2>1
  <2> QED
    BY <2>1, <2>2, <2>3, <2>4
<1> HIDE DEF G
<1>7. (Len(q) - k) + 1 \in G
  <2>1. (Len(q) - k) + 1 \in Nat
    BY <1>1
  <2> QED
    BY <1>5, <1>6, <2>1, SetInduct
<1>8. (k - 1) + ((Len(q) - k) + 1) = Len(q) /\ k + ((Len(q) - k) + 1) = Len(r)
  BY <1>1
<1> QED
  BY <1>7, <1>8 DEF G, U, V, AllUnderWay

\* A packet that is put behind those of its link is their last.
LEMMA PacketInserted ==
  ASSUME NEW q, NEW k, NEW x, NEW r, Inserted(q, k, x, r), NEW e, Arrives(x, e),
         \A i \in k..Len(q) : ~Arrives(q[i], e)
  PROVE  AllUnderWay(r, e) = Append(AllUnderWay(q, e), x.packet)
<1>1. /\ IsSeq(q) /\ IsSeq(r) /\ Len(q) \in Nat /\ Len(r) = Len(q) + 1 /\ k \in 1..Len(r)
      /\ r[k] = x
  BY DEF Inserted
<1>2. UnderWay(r, e)[k - 1] = UnderWay(q, e)[k - 1]
  <2>1. k - 1 \in 0..Len(q) /\ k - 1 <= Len(r) /\ \A i \in 1..(k - 1) : r[i] = q[i]
    BY <1>1 DEF Inserted
  <2> QED
    BY <1>1, <2>1, SameBeginning
<1>3. AllUnderWay(q, e) = UnderWay(q, e)[k - 1]
  <2>1. k - 1 \in 0..Len(q) /\ (k - 1) + 1 = k
    BY <1>1
  <2> QED
    BY <1>1, <2>1, NoneAfter
<1>4. UnderWay(r, e)[k] = Append(UnderWay(r, e)[k - 1], x.packet)
  BY <1>1, UnderWayIs
<1>5. AllUnderWay(r, e) = UnderWay(r, e)[k]
  <2>1. ASSUME NEW i \in (k + 1)..Len(r) PROVE ~Arrives(r[i], e)
    <3>1. i - 1 \in k..Len(q) /\ (i - 1) + 1 = i
      BY <1>1
    <3>2. r[i] = q[i - 1]
      BY <3>1 DEF Inserted
    <3> QED
      BY <3>1, <3>2
  <2> QED
    BY <1>1, <2>1, NoneAfter
<1> QED
  BY <1>2, <1>3, <1>4, <1>5

\* Appending to sequences that are put together.
LEMMA AppendConcat ==
  ASSUME NEW s, IsSeq(s), NEW t, IsSeq(t), NEW x
  PROVE  /\ s \o Append(t, x) = Append(s \o t, x)
         /\ <<>> \o t = t
         /\ IsSeq(Append(s, x)) /\ IsSeq(s \o t) /\ IsSeq(<<x>> \o t)
<1>1. PICK S1 : s \in Seq(S1)
  BY DEF IsSeq
<1>2. PICK S2 : t \in Seq(S2)
  BY DEF IsSeq
<1> DEFINE S == S1 \cup S2 \cup {x}
<1>3. s \in Seq(S) /\ t \in Seq(S) /\ x \in S /\ <<x>> \in Seq(S)
  BY <1>1, <1>2, SeqMonotonic
<1> HIDE DEF S
<1>4. s \o t \in Seq(S) /\ <<x>> \o t \in Seq(S)
  BY <1>3, ConcatProperties
<1>5. /\ Append(s, x) = s \o <<x>> /\ Append(t, x) = t \o <<x>>
      /\ Append(s \o t, x) = (s \o t) \o <<x>> /\ Append(s, x) \in Seq(S)
  BY <1>3, <1>4, AppendIsConcat, AppendProperties
<1>6. (s \o t) \o <<x>> = s \o (t \o <<x>>)
  BY <1>3, ConcatAssociative
<1> QED
  BY <1>3, <1>4, <1>5, <1>6, ConcatEmptySeq DEF IsSeq

\* A packet that goes from the front of one sequence to the end of the other.
LEMMA AppendBetween ==
  ASSUME NEW s, IsSeq(s), NEW x, NEW t, IsSeq(t)
  PROVE  Append(s, x) \o t = s \o (<<x>> \o t)
<1>1. PICK S1 : s \in Seq(S1)
  BY DEF IsSeq
<1>2. PICK S2 : t \in Seq(S2)
  BY DEF IsSeq
<1> DEFINE S == S1 \cup S2 \cup {x}
<1>3. s \in Seq(S) /\ t \in Seq(S) /\ x \in S /\ <<x>> \in Seq(S)
  BY <1>1, <1>2, SeqMonotonic
<1> HIDE DEF S
<1>4. Append(s, x) = s \o <<x>>
  BY <1>3, AppendIsConcat
<1>5. (s \o <<x>>) \o t = s \o (<<x>> \o t)
  BY <1>3, ConcatAssociative
<1> QED
  BY <1>4, <1>5

\* The packet that arrives first is the first of its link.
LEMMA PacketTaken ==
  ASSUME NEW q, IsSeq(q), q # <<>>, NEW e, Arrives(Head(q), e)
  PROVE  AllUnderWay(q, e) = <<Head(q).packet>> \o AllUnderWay(Tail(q), e)
<1> DEFINE t == Tail(q)
           U == UnderWay(q, e)
           V == UnderWay(t, e)
           p == <<Head(q).packet>>
           G == {n \in Nat : n <= Len(t) => U[n + 1] = p \o V[n]}
<1>1. Inserted(t, 1, Head(q), q)
  BY TailInserts
<1>2. /\ IsSeq(t) /\ Len(t) \in Nat /\ Len(q) = Len(t) + 1 /\ q[1] = Head(q)
      /\ \A n \in 1..Len(t) : q[n + 1] = t[n]
  BY <1>1 DEF Inserted
<1>3. /\ U[0] = <<>>
      /\ \A n \in 1..Len(q) :
           U[n] = IF Arrives(q[n], e) THEN Append(U[n - 1], q[n].packet) ELSE U[n - 1]
  BY UnderWayIs
<1>4. /\ V[0] = <<>>
      /\ \A n \in 1..Len(t) :
           V[n] = IF Arrives(t[n], e) THEN Append(V[n - 1], t[n].packet) ELSE V[n - 1]
      /\ \A n \in 0..Len(t) : IsSeq(V[n])
  BY <1>2, UnderWayIs DEF IsSeq
<1>5. IsSeq(p)
  <2>1. p \in Seq({Head(q).packet})
    OBVIOUS
  <2> QED
    BY <2>1 DEF IsSeq
<1>6. U[1] = p /\ p \o <<>> = p
  <2>1. U[1] = Append(<<>>, Head(q).packet)
    <3> HIDE DEF U, t
    <3>1. 1 \in 1..Len(q) /\ 1 - 1 = 0
      BY <1>2
    <3>2. U[1] = IF Arrives(q[1], e) THEN Append(U[1 - 1], q[1].packet) ELSE U[1 - 1]
      BY <1>3, <3>1
    <3> QED
      BY <1>2, <1>3, <3>1, <3>2
  <2>2. Append(<<>>, Head(q).packet) = p
    OBVIOUS
  <2>3. p \o <<>> = p
    OBVIOUS
  <2> QED
    BY <2>1, <2>2, <2>3
<1> HIDE DEF t, U, V, p
<1>7. 0 \in G
  <2>1. p \o V[0] = p
    BY <1>4, <1>6
  <2>2. U[0 + 1] = p
    BY <1>6
  <2> QED
    BY <2>1, <2>2
<1>8. ASSUME NEW n \in Nat, n \in G PROVE n + 1 \in G
  <2> SUFFICES ASSUME n + 1 <= Len(t) PROVE U[(n + 1) + 1] = p \o V[n + 1]
    OBVIOUS
  <2> DEFINE m == n + 1
  <2>1. /\ m \in 1..Len(t) /\ m + 1 \in 1..Len(q) /\ m - 1 = n /\ (m + 1) - 1 = m
        /\ n \in 0..Len(t)
    BY <1>2
  <2>2. U[m] = p \o V[n]
    BY <1>8, <2>1
  <2> HIDE DEF m
  <2>3. q[m + 1] = t[m] /\ IsSeq(V[n])
    BY <1>2, <1>4, <2>1
  <2>4. /\ V[m] = IF Arrives(t[m], e) THEN Append(V[n], t[m].packet) ELSE V[n]
        /\ U[m + 1] = IF Arrives(t[m], e) THEN Append(U[m], t[m].packet) ELSE U[m]
    BY <1>3, <1>4, <2>1, <2>3
  <2>5. p \o Append(V[n], t[m].packet) = Append(p \o V[n], t[m].packet)
    <3> DEFINE s == V[n]
    <3>1. IsSeq(s)
      BY <2>3
    <3> HIDE DEF s
    <3>2. \A y : p \o Append(s, y) = Append(p \o s, y)
      BY <1>5, <3>1, AppendConcat
    <3> QED
      BY <3>2 DEF s
  <2> QED
    BY <2>2, <2>4, <2>5 DEF m
<1> HIDE DEF G
<1>9. Len(t) \in G
  BY <1>2, <1>7, <1>8, SetInduct
<1>10. U[Len(q)] = p \o V[Len(t)]
  BY <1>2, <1>9 DEF G
<1> QED
  BY <1>10 DEF U, V, p, t, AllUnderWay

\* The first of a sequence, and the rest.
LEMMA FirstAndRest ==
  ASSUME NEW t, IsSeq(t), NEW x
  PROVE  /\ <<x>> \o t # <<>> /\ Head(<<x>> \o t) = x /\ Tail(<<x>> \o t) = t
<1>1. PICK T : t \in Seq(T)
  BY DEF IsSeq
<1> DEFINE S == T \cup {x}
           r == <<x>> \o t
<1>2. t \in Seq(S) /\ <<x>> \in Seq(S) /\ Len(<<x>>) = 1 /\ <<x>>[1] = x /\ Len(t) \in Nat
  BY <1>1, SeqMonotonic, LenProperties
<1>3. /\ r \in Seq(S) /\ Len(r) = 1 + Len(t)
      /\ \A i \in 1..(1 + Len(t)) : r[i] = IF i <= 1 THEN <<x>>[i] ELSE t[i - 1]
  BY <1>2, ConcatProperties
<1> HIDE DEF r, S
<1>4. r # <<>> /\ Len(r) \in Nat
  BY <1>2, <1>3, EmptySeq
<1>5. Head(r) = r[1] /\ r[1] = x
  BY <1>2, <1>3, <1>4
<1>6. /\ Tail(r) \in Seq(S) /\ Len(Tail(r)) = Len(t)
      /\ \A i \in 1..Len(t) : Tail(r)[i] = r[i + 1]
  <2>1. /\ Tail(r) \in Seq(S) /\ Len(Tail(r)) = Len(r) - 1
        /\ \A i \in 1..Len(Tail(r)) : Tail(r)[i] = r[i + 1]
    BY <1>3, <1>4, HeadTailProperties
  <2> QED
    BY <1>2, <1>3, <2>1
<1>7. ASSUME NEW i \in 1..Len(t) PROVE Tail(r)[i] = t[i]
  <2>1. i + 1 \in 1..(1 + Len(t)) /\ ~(i + 1 <= 1) /\ (i + 1) - 1 = i
    BY <1>2
  <2> QED
    BY <1>3, <1>6, <2>1
<1>8. Tail(r) = t
  BY <1>2, <1>6, <1>7, SeqEqual
<1> QED
  BY <1>4, <1>5, <1>8 DEF r

\* Scheduling anything but a packet for a link leaves those that are on it.
LEMMA OtherScheduled ==
  ASSUME NEW q, IsSeq(q), NEW x, NEW e, ~Arrives(x, e)
  PROVE  AllUnderWay(Schedule(q, x), e) = AllUnderWay(q, e)
  BY SchedulePlace, OtherInserted

\* The program that dmc.cc runs: the data is a LubyMIS, and a node whose
\* address nothing asserts has a link.
GossipsLuby ==
  /\ \A a : Create(a) = LubyCreated(a)
  /\ \A data, a : SetMyIpv4Address(data, a) = LubyReady(data, a)
  /\ \A data : MarshalTo(data) = LubyPacket(data)
  /\ \A data, packet : MarshalFrom(data, packet) = LubyReceived(data, packet)
  /\ Asserts \/ \A a \in Node : Peers(a) # {}

\* A node that has not started is as it was created, and one that has started
\* knows its own address: MarshalFrom compares with no other.
DataOK ==
  /\ DOMAIN m_dmc_data = Node
  /\ \A a \in Node \ Started : m_dmc_data[a] = LubyCreated(a)
  /\ \A a \in Started : /\ DOMAIN m_dmc_data[a] = {"m_myaddr", "m_value", "m_levels"}
                        /\ m_dmc_data[a].m_myaddr = a
  /\ \A e \in Edge : IsSeq(unread[e])

\* The links of LubyGossip, before and after a step.
LEMMA LinkIs ==
  /\ Link = [e \in Edge |-> unread[e] \o AllUnderWay(events, e)]
  /\ Link' = [e \in Edge |-> unread'[e] \o AllUnderWay(events', e)]
  BY DEF Link, NotYetRead, AllUnderWay

\* What a LubyMIS is when it has been told its address.
LEMMA ReadyIs ==
  ASSUME NEW a
  PROVE  /\ DOMAIN LubyReady(LubyCreated(a), a) = {"m_myaddr", "m_value", "m_levels"}
         /\ LubyReady(LubyCreated(a), a).m_myaddr = a
         /\ LubyReady(LubyCreated(a), a).m_levels = Network!Started(a, Value[a])
<1> DEFINE new == Network!NewLevel(0)
           d == LubyCreated(a)
<1>1. /\ d = [m_myaddr |-> 0, m_value |-> Value[a], m_levels |-> <<new>>]
      /\ d.m_levels = <<new>> /\ d.m_value = Value[a]
  BY DEF LubyCreated
<1>2. LubyReady(d, a).m_levels
        = [[<<new>> EXCEPT ![1] = [@ EXCEPT !.rep = a]]
              EXCEPT ![1] = [@ EXCEPT !.rep_value = Value[a]]]
  BY <1>1 DEF LubyReady
<1>3. /\ DOMAIN LubyReady(d, a) = {"m_myaddr", "m_value", "m_levels"}
      /\ LubyReady(d, a).m_myaddr = a
  BY <1>1 DEF LubyReady
<1>4. [[<<new>> EXCEPT ![1] = [@ EXCEPT !.rep = a]]
              EXCEPT ![1] = [@ EXCEPT !.rep_value = Value[a]]]
       = << [[new EXCEPT !.rep = a] EXCEPT !.rep_value = Value[a]] >>
  <2> HIDE DEF new
  <2> QED
    OBVIOUS
<1>5. Network!Started(a, Value[a]) = << [[new EXCEPT !.rep = a] EXCEPT !.rep_value = Value[a]] >>
  BY DEF Network!Started
<1> QED
  BY <1>2, <1>3, <1>4, <1>5

\* No packet is under way when the simulation starts, and the levels are those
\* that StartApplication will make.
LEMMA InitLuby ==
  ASSUME GossipsLuby, Init
  PROVE  DataOK /\ Network!Init
<1>1. PICK secs \in SecsToRun : events = Installed(secs)[Cardinality(Node)]
  BY DEF Init
<1>2. /\ IsSeq(events)
      /\ \A i \in 1..Len(events) : events[i].run \in {"StartApplication", "StopApplication"}
  <2>1. InstalledUpTo(events, Cardinality(Node))
    BY <1>1, TimeAssumption, InstalledOK
  <2> QED
    BY <2>1, QueueElements DEF InstalledUpTo, QueueOK
<1>3. \A e \in Edge : AllUnderWay(events, e) = <<>>
  <2> SUFFICES ASSUME NEW e \in Edge PROVE AllUnderWay(events, e) = <<>>
    OBVIOUS
  <2>1. Len(events) \in Nat /\ UnderWay(events, e)[0] = <<>>
    BY <1>2, UnderWayIs
  <2>2. 0 \in 0..Len(events) /\ \A i \in (0 + 1)..Len(events) : ~Arrives(events[i], e)
    BY <1>2, <2>1 DEF Arrives
  <2> QED
    BY <1>2, <2>1, <2>2, NoneAfter
<1>4. Started = {} /\ m_dmc_data = [a \in Node |-> LubyCreated(a)]
  BY DEF Init, Started, GossipsLuby
<1>5. Levels = [a \in Node |-> Network!Started(a, Value[a])]
  <2>1. \A a \in Node : SetMyIpv4Address(m_dmc_data[a], a).m_levels = Network!Started(a, Value[a])
    BY <1>4, ReadyIs DEF GossipsLuby
  <2> QED
    BY <1>4, <2>1 DEF Levels
<1>6. unread = [e \in Edge |-> <<>>] /\ <<>> \o <<>> = <<>> /\ IsSeq(<<>>)
  <2>1. <<>> \in Seq({}) /\ <<>> \o <<>> = <<>>
    BY ConcatEmptySeq
  <2> QED
    BY <2>1 DEF Init, IsSeq
<1>7. Link = [e \in Edge |-> <<>>]
  BY <1>3, <1>6, LinkIs
<1>8. DataOK
  BY <1>4, <1>6 DEF DataOK
<1> QED
  BY <1>5, <1>7, <1>8 DEF Network!Init

\* Starting a node changes nothing for LubyGossip.
LEMMA StartLuby ==
  ASSUME GossipsLuby, IInv, DataOK, NEW a \in Node, StartApplication(a)
  PROVE  DataOK' /\ UNCHANGED Network!vars
<1> DEFINE t == Tail(events)
           h == Head(events)
<1>1. /\ Runs("StartApplication") /\ h.node = a /\ ~AssertionFails(a)
      /\ m_dmc_data' = [m_dmc_data EXCEPT ![a] = SetMyIpv4Address(m_dmc_data[a], GetSomeAddrOf(a))]
      /\ Started' = Started \cup {a} /\ unread' = unread
  BY DEF StartApplication, Started
<1>2. PICK dt \in Waits : ScheduleTransmit(t, a, dt)
  BY DEF StartApplication
<1>3. h.run = "StartApplication" /\ QueueOK(t) /\ Range(events) = Range(t) \cup {h}
  BY <1>1, RunsNext
<1>4. a \notin Started /\ events # <<>> /\ IsSeq(events) /\ IsSeq(t)
  BY <1>1, <1>3 DEF IInv, Occurs, Is, Runs, QueueOK
<1>5. GetSomeAddrOf(a) = a
  BY <1>1 DEF GossipsLuby, AssertionFails, GetSomeAddrOf
<1>6. m_dmc_data' = [m_dmc_data EXCEPT ![a] = LubyReady(LubyCreated(a), a)]
  BY <1>1, <1>4, <1>5 DEF DataOK, GossipsLuby
<1>7. DataOK'
  BY <1>1, <1>4, <1>6, ReadyIs DEF DataOK, IInv
<1>8. Levels' = Levels
  <2>1. SetMyIpv4Address(m_dmc_data[a], a) = LubyReady(LubyCreated(a), a)
    BY <1>4 DEF DataOK, GossipsLuby
  <2>2. /\ m_dmc_data'[a] = LubyReady(LubyCreated(a), a)
        /\ \A b \in Node \ {a} : m_dmc_data'[b] = m_dmc_data[b]
    BY <1>6 DEF DataOK
  <2>3. \A b \in Node \ {a} : b \in Started' <=> b \in Started
    BY <1>1
  <2> QED
    BY <1>1, <1>4, <2>1, <2>2, <2>3 DEF Levels
<1>9. \A e \in Edge : AllUnderWay(events', e) = AllUnderWay(events, e)
  <2> SUFFICES ASSUME NEW e \in Edge PROVE AllUnderWay(events', e) = AllUnderWay(events, e)
    OBVIOUS
  <2> DEFINE x == [at |-> now' + dt, run |-> "Send", node |-> a, id |-> NewId(t, a)]
  <2>1. events' = Schedule(t, x) /\ x.run = "Send"
    BY <1>2 DEF ScheduleTransmit
  <2> HIDE DEF x
  <2>2. AllUnderWay(events', e) = AllUnderWay(t, e)
    BY <1>4, <2>1, OtherScheduled DEF Arrives
  <2>3. ~Arrives(h, e)
    BY <1>3 DEF Arrives
  <2> QED
    BY <1>4, <2>2, <2>3, TailInserts, OtherInserted
<1>10. Link' = Link
  BY <1>1, <1>9, LinkIs
<1> QED
  BY <1>7, <1>8, <1>10 DEF Network!vars

\* A send is a send of LubyGossip.
LEMMA SendLuby ==
  ASSUME GossipsLuby, IInv, DataOK, NEW a \in Node, Send(a)
  PROVE  DataOK' /\ \E e \in Edge : Network!Send(e)
<1> DEFINE t == Tail(events)
           h == Head(events)
<1>1. Runs("Send") /\ h.node = a /\ UNCHANGED <<m_num_peers, m_dmc_data, unread>>
  BY DEF Send
<1>2. PICK b \in Peers(a), dt \in Waits, delay \in Delays :
         /\ OvertakesNone(t, <<a, b>>, delay)
         /\ ScheduleTransmit(Transmitted(t, <<a, b>>, MarshalTo(m_dmc_data[a]), delay), a, dt)
  BY DEF Send
<1>3. h.run = "Send" /\ QueueOK(t) /\ Range(events) = Range(t) \cup {h}
      /\ now' \in Nat /\ now' >= Second
  BY <1>1, RunsNext
<1>4. /\ events # <<>> /\ IsSeq(events) /\ IsSeq(t) /\ Started' = Started
      /\ a \in Started
  BY <1>1, <1>3 DEF IInv, Occurs, Is, Runs, QueueOK, Started, Alive
<1> HIDE DEF t, h
<1> DEFINE e == <<a, b>>
<1>5. e \in Edge /\ e[1] = a
  BY DEF Peers
<1>6. Levels[a] = m_dmc_data[a].m_levels /\ Levels' = Levels
  BY <1>1, <1>4 DEF Levels
<1>7. PICK p : p = Network!Packet(Levels[a])
  OBVIOUS
<1>8. PICK x, q, y :
         /\ x.at = now' + delay /\ x.run = "HandleRead" /\ x.edge = e /\ x.packet = p
         /\ q = Schedule(t, x) /\ y.run = "Send" /\ events' = Schedule(q, y)
  <2> DEFINE x == [at |-> now' + delay, run |-> "HandleRead", edge |-> e, packet |-> p]
             q == Schedule(t, x)
             y == [at |-> now' + dt, run |-> "Send", node |-> a, id |-> NewId(q, a)]
  <2>1. MarshalTo(m_dmc_data[a]) = p
    BY <1>6, <1>7 DEF GossipsLuby, LubyPacket
  <2>2. events' = Schedule(q, y)
    BY <1>2, <2>1 DEF ScheduleTransmit, Transmitted
  <2>3. /\ x.at = now' + delay /\ x.run = "HandleRead" /\ x.edge = e /\ x.packet = p
        /\ y.run = "Send"
    OBVIOUS
  <2> HIDE DEF x, y
  <2> QED
    BY <2>2, <2>3
<1>9. x.at \in Nat /\ x.at >= Second
  <2>1. delay \in Nat /\ Second \in Nat
    BY TimeAssumption
  <2>2. \A s \in Nat : s >= Second => s + delay \in Nat /\ s + delay >= Second
    BY <2>1
  <2> QED
    BY <1>3, <1>8, <2>2
<1> HIDE DEF e
<1>10. IsEvent(x)
  BY <1>5, <1>8, <1>9 DEF IsEvent
<1>11. PICK k : /\ Inserted(t, k, x, q)
                /\ \A i \in 1..(k - 1) : t[i].at <= x.at
                /\ \A i \in k..Len(t) : t[i].at > x.at
  BY <1>3, <1>8, <1>10, ScheduleInserts
<1>12. IsSeq(q) /\ Len(t) \in Nat /\ k \in 1..(Len(t) + 1)
  BY <1>11 DEF Inserted
<1>13. \A i \in k..Len(t) : ~Arrives(t[i], e)
  <2> SUFFICES ASSUME NEW i \in k..Len(t), Arrives(t[i], e) PROVE FALSE
    OBVIOUS
  <2>1. i \in 1..Len(t)
    BY <1>12
  <2>2. t[i].at <= x.at /\ t[i].at > x.at
    BY <1>2, <1>8, <1>11, <2>1 DEF OvertakesNone, e
  <2>3. t[i].at \in Nat
    BY <1>3, <2>1 DEF QueueOK, IsEvent
  <2> QED
    BY <1>9, <2>2, <2>3
<1>14. /\ AllUnderWay(q, e) = Append(AllUnderWay(t, e), p)
       /\ \A d \in Edge \ {e} : AllUnderWay(q, d) = AllUnderWay(t, d)
  <2>1. Arrives(x, e) /\ \A d \in Edge \ {e} : ~Arrives(x, d)
    BY <1>8 DEF Arrives
  <2> QED
    BY <1>8, <1>11, <1>13, <2>1, PacketInserted, OtherInserted
<1>15. \A d \in Edge : /\ AllUnderWay(t, d) = AllUnderWay(events, d)
                       /\ AllUnderWay(events', d) = AllUnderWay(q, d)
  <2> SUFFICES ASSUME NEW d \in Edge
               PROVE  /\ AllUnderWay(t, d) = AllUnderWay(events, d)
                      /\ AllUnderWay(events', d) = AllUnderWay(q, d)
    OBVIOUS
  <2>1. ~Arrives(h, d) /\ ~Arrives(y, d)
    BY <1>3, <1>8 DEF Arrives
  <2>2. AllUnderWay(t, d) = AllUnderWay(events, d)
    BY <1>4, <2>1, TailInserts, OtherInserted DEF t, h
  <2>3. AllUnderWay(events', d) = AllUnderWay(q, d)
    BY <1>8, <1>12, <2>1, OtherScheduled
  <2> QED
    BY <2>2, <2>3
<1>16. Link' = [Link EXCEPT ![e] = Append(Link[e], p)]
  <2>1. IsSeq(unread[e]) /\ IsSeq(AllUnderWay(events, e))
    BY <1>4, <1>5, UnderWayIs DEF DataOK, AllUnderWay, IsSeq
  <2>2. unread[e] \o Append(AllUnderWay(events, e), p)
          = Append(unread[e] \o AllUnderWay(events, e), p)
    <3>1. \A u, w : IsSeq(u) /\ IsSeq(w) => u \o Append(w, p) = Append(u \o w, p)
      BY AppendConcat
    <3> DEFINE u == unread[e]
               w == AllUnderWay(events, e)
    <3>2. IsSeq(u) /\ IsSeq(w)
      BY <2>1
    <3> HIDE DEF u, w
    <3>3. u \o Append(w, p) = Append(u \o w, p)
      BY <3>1, <3>2
    <3> QED
      BY <3>3 DEF u, w
  <2>3. /\ AllUnderWay(events', e) = Append(AllUnderWay(events, e), p)
        /\ \A d \in Edge \ {e} : AllUnderWay(events', d) = AllUnderWay(events, d)
    BY <1>5, <1>14, <1>15
  <2> QED
    BY <1>1, <1>5, <2>2, <2>3, LinkIs
<1>17. Network!Send(e)
  BY <1>5, <1>6, <1>7, <1>16 DEF Network!Send, Network!WithinBounds
<1>18. DataOK'
  BY <1>1, <1>4 DEF DataOK
<1> QED
  BY <1>5, <1>17, <1>18

\* An arrival takes the first packet of its link and of no other.
LEMMA ArrivalTakes ==
  ASSUME IInv, NEW e \in Edge, Runs("HandleRead"), Head(events).edge = e,
         events' = Tail(events)
  PROVE  /\ IsSeq(AllUnderWay(events', e))
         /\ AllUnderWay(events, e) = <<Head(events).packet>> \o AllUnderWay(events', e)
         /\ \A d \in Edge \ {e} : AllUnderWay(events, d) = AllUnderWay(events', d)
<1> DEFINE h == Head(events)
           t == Tail(events)
<1>1. h.run = "HandleRead" /\ h.edge = e /\ events # <<>> /\ IsSeq(events) /\ IsSeq(t)
  BY RunsNext DEF Runs, IInv, QueueOK
<1> HIDE DEF h, t
<1>2. Arrives(h, e) /\ \A d \in Edge \ {e} : ~Arrives(h, d)
  BY <1>1 DEF Arrives
<1>3. Inserted(t, 1, h, events)
  BY <1>1, TailInserts DEF h, t
<1>4. AllUnderWay(events, e) = <<h.packet>> \o AllUnderWay(t, e)
  BY <1>1, <1>2, PacketTaken DEF h, t
<1>5. \A d \in Edge \ {e} : AllUnderWay(events, d) = AllUnderWay(t, d)
  BY <1>2, <1>3, OtherInserted
<1>6. IsSeq(AllUnderWay(t, e))
  BY <1>1, UnderWayIs DEF AllUnderWay, IsSeq
<1> QED
  BY <1>4, <1>5, <1>6 DEF h, t

\* A packet that is read is read by LubyGossip.
LEMMA HandleReadLuby ==
  ASSUME GossipsLuby, IInv, DataOK, NEW e \in Edge, HandleRead(e)
  PROVE  DataOK' /\ \E lucky \in BOOLEAN : Network!HandleRead(e, lucky)
<1> DEFINE h == Head(events)
           c == e[2]
           W == AllUnderWay(events', e)
<1>1. /\ Runs("HandleRead") /\ h.edge = e /\ c \in m_recv_socket /\ events' = Tail(events)
      /\ Started' = Started /\ unread' = unread
  BY DEF HandleRead, app, Started
<1>2. /\ IsSeq(W) /\ AllUnderWay(events, e) = <<h.packet>> \o W
      /\ \A d \in Edge \ {e} : AllUnderWay(events, d) = AllUnderWay(events', d)
  BY <1>1, ArrivalTakes
<1>3. c \in Started /\ c \in Node /\ unread[e] = <<>>
  BY <1>1 DEF IInv, Alive
<1>4. m_dmc_data[c].m_myaddr = c /\ Levels[c] = m_dmc_data[c].m_levels
  BY <1>3 DEF DataOK, Levels
<1>5. PICK lucky \in BOOLEAN :
         m_dmc_data' = [m_dmc_data EXCEPT ![c] =
           [m_dmc_data[c] EXCEPT !.m_levels =
              Network!Received(c, Levels[c], h.packet, lucky)]]
  <2>1. PICK data \in LubyReceived(m_dmc_data[c], h.packet) :
           m_dmc_data' = [m_dmc_data EXCEPT ![c] = data]
    BY DEF HandleRead, GossipsLuby
  <2>2. PICK lucky \in BOOLEAN :
           data = [m_dmc_data[c] EXCEPT !.m_levels =
                     Network!Received(m_dmc_data[c].m_myaddr, m_dmc_data[c].m_levels,
                                      h.packet, lucky)]
    BY DEF LubyReceived
  <2> QED
    BY <1>4, <2>1, <2>2
<1> DEFINE new == Network!Received(c, Levels[c], h.packet, lucky)
<1>6. /\ m_dmc_data'[c] = [m_dmc_data[c] EXCEPT !.m_levels = new]
      /\ \A b \in Node \ {c} : m_dmc_data'[b] = m_dmc_data[b]
      /\ DOMAIN m_dmc_data' = Node
  <2> HIDE DEF new
  <2> QED
    BY <1>3, <1>5 DEF DataOK, new
<1>7. /\ m_dmc_data'[c].m_levels = new /\ m_dmc_data'[c].m_myaddr = c
      /\ DOMAIN m_dmc_data'[c] = {"m_myaddr", "m_value", "m_levels"}
  <2> HIDE DEF new
  <2>1. /\ DOMAIN m_dmc_data[c] = {"m_myaddr", "m_value", "m_levels"}
        /\ m_dmc_data[c].m_myaddr = c
    BY <1>3 DEF DataOK
  <2> QED
    BY <1>6, <2>1
<1>8. DataOK'
  <2>1. Started \subseteq Node
    BY DEF IInv
  <2> HIDE DEF new
  <2> QED
    BY <1>1, <1>3, <1>6, <1>7, <2>1 DEF DataOK
<1>9. Levels' = [Levels EXCEPT ![c] = new]
  <2> HIDE DEF new
  <2> QED
    BY <1>1, <1>3, <1>6, <1>7 DEF Levels
<1>10. Link[e] = <<h.packet>> \o W /\ Link'[e] = W
  <2>1. <<>> \o W = W
    BY <1>2, AppendConcat
  <2>2. IsSeq(AllUnderWay(events, e)) /\ <<>> \o AllUnderWay(events, e) = AllUnderWay(events, e)
    BY <1>2, AppendConcat
  <2> QED
    BY <1>1, <1>2, <1>3, <2>1, <2>2, LinkIs
<1>11. Link[e] # <<>> /\ Head(Link[e]) = h.packet /\ Tail(Link[e]) = W
  <2>1. \A s, x : IsSeq(s) => <<x>> \o s # <<>> /\ Head(<<x>> \o s) = x /\ Tail(<<x>> \o s) = s
    BY FirstAndRest
  <2> DEFINE p == h.packet
  <2> HIDE DEF W, p
  <2>2. <<p>> \o W # <<>> /\ Head(<<p>> \o W) = p /\ Tail(<<p>> \o W) = W
    BY <1>2, <2>1
  <2>3. Link[e] = <<p>> \o W
    BY <1>10 DEF p
  <2> QED
    BY <2>2, <2>3 DEF p
<1>12. Link' = [Link EXCEPT ![e] = Tail(Link[e])]
  <2>1. Link'[e] = Tail(Link[e])
    BY <1>10, <1>11
  <2> DEFINE T == Tail(Link[e])
  <2> HIDE DEF T
  <2>2. Link'[e] = T
    BY <2>1 DEF T
  <2>3. Link' = [Link EXCEPT ![e] = T]
    BY <1>1, <1>2, <2>2, LinkIs
  <2> QED
    BY <2>3 DEF T
<1>13. Network!HandleRead(e, lucky)
  BY <1>9, <1>11, <1>12 DEF Network!HandleRead
<1> QED
  BY <1>8, <1>13

\* A packet that nobody reads stays where LubyGossip has it, on its link.
LEMMA NotReadLuby ==
  ASSUME IInv, DataOK, NEW e \in Edge, NotRead(e)
  PROVE  DataOK' /\ UNCHANGED Network!vars
<1> DEFINE h == Head(events)
           W == AllUnderWay(events', e)
           s == unread[e]
           p == h.packet
<1>1. /\ Runs("HandleRead") /\ h.edge = e /\ events' = Tail(events)
      /\ unread' = [unread EXCEPT ![e] = Append(s, p)]
      /\ Started' = Started /\ m_dmc_data' = m_dmc_data
  BY DEF NotRead, app, Started
<1>2. /\ IsSeq(W) /\ AllUnderWay(events, e) = <<p>> \o W
      /\ \A d \in Edge \ {e} : AllUnderWay(events, d) = AllUnderWay(events', d)
  BY <1>1, ArrivalTakes
<1>3. IsSeq(s) /\ DOMAIN unread = Edge
  BY DEF DataOK, IInv
<1> HIDE DEF W, s, p
<1>4. Append(s, p) \o W = s \o (<<p>> \o W) /\ IsSeq(Append(s, p))
  <2>1. Append(s, p) \o W = s \o (<<p>> \o W)
    BY <1>2, <1>3, AppendBetween
  <2>2. IsSeq(Append(s, p))
    BY <1>3, AppendConcat
  <2> QED
    BY <2>1, <2>2
<1>5. unread'[e] = Append(s, p) /\ \A d \in Edge \ {e} : unread'[d] = unread[d]
  BY <1>1, <1>3
<1>6. Link' = Link
  <2>1. unread'[e] \o AllUnderWay(events', e) = unread[e] \o AllUnderWay(events, e)
    BY <1>2, <1>4, <1>5 DEF W, s
  <2>2. \A d \in Edge \ {e} :
          unread'[d] \o AllUnderWay(events', d) = unread[d] \o AllUnderWay(events, d)
    BY <1>2, <1>5
  <2> QED
    BY <2>1, <2>2, LinkIs
<1>7. Levels' = Levels
  BY <1>1 DEF Levels
<1>8. DataOK'
  BY <1>1, <1>4, <1>5 DEF DataOK
<1> QED
  BY <1>6, <1>7, <1>8 DEF Network!vars

\* Stopping cancels a send, which is no packet.
LEMMA StopLuby ==
  ASSUME IInv, DataOK, NEW a \in Node, StopApplication(a)
  PROVE  DataOK' /\ UNCHANGED Network!vars
<1> DEFINE h == Head(events)
           t == Tail(events)
           id == m_sendEvent[a]
<1>1. /\ Runs("StopApplication") /\ events' = Cancel(t, a, id)
      /\ UNCHANGED <<unread, m_dmc_data>> /\ Started' = Started
  BY DEF StopApplication, Started
<1>2. h.run = "StopApplication" /\ events # <<>> /\ IsSeq(events) /\ IsSeq(t)
  BY <1>1, RunsNext DEF Runs, IInv, QueueOK
<1>3. ASSUME NEW e \in Edge PROVE AllUnderWay(Cancel(t, a, id), e) = AllUnderWay(t, e)
  <2> HIDE DEF t, id
  <2>1. CASE id \in Pending(t, a)
    <3> DEFINE k == CHOOSE i \in Sends(t, a) : t[i].id = id
    <3>1. k \in Sends(t, a)
      BY <2>1 DEF Pending
    <3> HIDE DEF k
    <3>2. k \in 1..Len(t) /\ ~Arrives(t[k], e)
      BY <3>1 DEF Sends, Arrives
    <3>3. Inserted(RemoveAt(t, k), k, t[k], t)
      BY <1>2, <3>2, RemoveAtInserts
    <3>4. Cancel(t, a, id) = RemoveAt(t, k)
      BY <2>1 DEF Cancel, k
    <3> QED
      BY <3>2, <3>3, <3>4, OtherInserted
  <2>2. CASE id \notin Pending(t, a)
    BY <2>2 DEF Cancel
  <2> QED
    BY <2>1, <2>2
<1>4. ASSUME NEW e \in Edge PROVE AllUnderWay(t, e) = AllUnderWay(events, e)
  <2>1. ~Arrives(h, e)
    BY <1>2 DEF Arrives
  <2> QED
    BY <1>2, <2>1, TailInserts, OtherInserted
<1> HIDE DEF t, id
<1>5. \A e \in Edge : AllUnderWay(events', e) = AllUnderWay(events, e)
  BY <1>1, <1>3, <1>4
<1>6. Link' = Link /\ Levels' = Levels /\ DataOK'
  BY <1>1, <1>5, LinkIs DEF Levels, DataOK
<1> QED
  BY <1>6 DEF Network!vars

\* Every step of the program is one of LubyGossip or none.
LEMMA NextLuby ==
  ASSUME GossipsLuby, IInv, DataOK, [Next]_vars
  PROVE  DataOK' /\ [Network!Next]_(Network!vars)
<1>1. ASSUME NEW a \in Node, StartApplication(a) PROVE DataOK' /\ UNCHANGED Network!vars
  BY <1>1, StartLuby
<1>2. ASSUME NEW a \in Node, Send(a) PROVE DataOK' /\ Network!Next
  BY <1>2, SendLuby DEF Network!Next
<1>3. ASSUME NEW a \in Node, StopApplication(a) PROVE DataOK' /\ UNCHANGED Network!vars
  BY <1>3, StopLuby
<1>4. ASSUME NEW e \in Edge, HandleRead(e) PROVE DataOK' /\ Network!Next
  BY <1>4, HandleReadLuby DEF Network!Next
<1>5. ASSUME NEW e \in Edge, NotRead(e) PROVE DataOK' /\ UNCHANGED Network!vars
  BY <1>5, NotReadLuby
<1>6. CASE UNCHANGED <<events, m_num_peers, m_dmc_data, unread>>
  <2>1. Link' = Link /\ Levels' = Levels /\ DataOK'
    BY <1>6, LinkIs DEF Levels, DataOK, Started
  <2> QED
    BY <2>1 DEF Network!vars
<1>7. CASE Destroy
  BY <1>6, <1>7 DEF Destroy
<1>8. CASE Exit \/ UNCHANGED vars
  BY <1>6, <1>8 DEF Exit, vars
<1> QED
  BY <1>1, <1>2, <1>3, <1>4, <1>5, <1>7, <1>8 DEF Next

\* LubyMIS over UdpGossip implements LubyGossip, for every network, every
\* duration, and whatever the timers, the delays and the order of the
\* simulator's events: every theorem about LubyGossip is one about the program.
THEOREM NetworkImplemented ==
  ASSUME GossipsLuby
  PROVE  Spec => ImplementsNetwork
<1>1. Init => DataOK /\ Network!Init
  BY InitLuby
<1>2. IInv /\ DataOK /\ [Next]_vars => DataOK' /\ [Network!Next]_(Network!vars)
  BY NextLuby
<1> QED
  BY <1>1, <1>2, Invariance, PTL DEF Spec, ImplementsNetwork, Network!Spec

\* What LubyGossip assumes of its parameters is true of those of the program.
LEMMA NetworkParameters ==
  /\ FALSE \in BOOLEAN /\ 0 \in Nat /\ 0 \in Nat /\ 0 \in Nat
  /\ Value \in [Node -> Int]
  /\ /\ Edge \subseteq Node \X Node
     /\ \A e \in Edge : e[1] # e[2] /\ <<e[2], e[1]>> \in Edge
  /\ Node \subseteq Nat \ {0} /\ Network!IsFiniteSet(Node)
<1>1. IsFiniteSet(Node) /\ Node = 1..Cardinality(Node)
  BY NodeAssumption
<1>2. Cardinality(Node) \in Nat
  BY <1>1, FS_CardinalityType
<1>3. Node \subseteq Nat \ {0}
  BY <1>1, <1>2
<1>4. Network!IsFiniteSet(Node)
  BY <1>1 DEF IsFiniteSet, Network!IsFiniteSet
<1> QED
  BY <1>3, <1>4, LinkAssumption, DrawAssumption

\* The safety of the protocol, of the program that dmc.cc runs and not of a
\* network of nodes that send whenever they like: what LubyGossip promises of the
\* levels (luby-mis.cc:322, 386, 439, 519, 567), of the peers that are read
\* (luby-mis.cc:809) and of the values holds of m_levels and of the packets in the
\* event queue, for every network, duration, draw and delay.
THEOREM ProgramIsSafe ==
  ASSUME GossipsLuby
  PROVE  /\ Spec => [](/\ Network!TypeOK /\ Network!Ladder /\ Network!NoRepNoPeers
                       /\ Network!RepIsCandidate /\ Network!OwnGroupIsNoPeer
                       /\ Network!PeerWithinReach /\ Network!NextHopIsNeighbour
                       /\ Network!ValueInRange /\ Network!NoNullPeerRead
                       /\ Network!DegreesInOrder)
         /\ Spec => Network!RestartAbove
         /\ Spec => Network!LevelZeroIsGossip
<1>1. Network!Spec => []Network!TypeOK
  BY NetworkParameters, Network!TypeCorrect
<1>2. Network!Spec => []Network!Ladder
  BY NetworkParameters, Network!LadderHolds
<1>3. Network!Spec => []Network!NoRepNoPeers
  BY NetworkParameters, Network!NoRepNoPeersHolds
<1>4. Network!Spec => []Network!RepIsCandidate
  BY NetworkParameters, Network!RepIsCandidateHolds
<1>5. Network!Spec => []Network!OwnGroupIsNoPeer
  BY NetworkParameters, Network!OwnGroupIsNoPeerHolds
<1>6. Network!Spec => []Network!PeerWithinReach
  BY NetworkParameters, Network!PeerWithinReachHolds
<1>7. Network!Spec => []Network!NextHopIsNeighbour
  BY NetworkParameters, Network!NextHopIsNeighbourHolds
<1>8. Network!Spec => []Network!ValueInRange
  BY NetworkParameters, Network!ValueInRangeHolds
<1>9. Network!Spec => []Network!NoNullPeerRead
  BY NetworkParameters, Network!NoNullPeerReadHolds
<1>10. Network!Spec => []Network!DegreesInOrder
  BY NetworkParameters, Network!DegreesInOrderHolds
<1>11. Network!Spec => Network!RestartAbove
  BY NetworkParameters, Network!RestartAboveHolds
<1>12. Network!Spec => Network!LevelZeroIsGossip
  BY NetworkParameters, Network!LevelZeroHolds
<1>13. Spec => Network!Spec
  BY NetworkImplemented, PTL DEF ImplementsNetwork
<1>14. Spec => [](/\ Network!TypeOK /\ Network!Ladder /\ Network!NoRepNoPeers
                 /\ Network!RepIsCandidate /\ Network!OwnGroupIsNoPeer
                 /\ Network!PeerWithinReach /\ Network!NextHopIsNeighbour
                 /\ Network!ValueInRange /\ Network!NoNullPeerRead
                 /\ Network!DegreesInOrder)
  BY <1>1, <1>2, <1>3, <1>4, <1>5, <1>6, <1>7, <1>8, <1>9, <1>10, <1>13, PTL
<1> QED
  BY <1>11, <1>12, <1>13, <1>14, PTL
====
