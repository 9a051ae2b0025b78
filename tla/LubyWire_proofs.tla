---------------------------- MODULE LubyWire_proofs ----------------------------
(***************************************************************************)
(* The bytes of a packet, for every vector of levels that the protocol can  *)
(* reach: they fill the buffer, and the receiver reads what was written.   *)
(***************************************************************************)
EXTENDS LubyWire, LubyGossip_proofs, SequenceTheorems

\* A word of the buffer: an integer, or one half of a double.
Word == Int \cup (Int \X {"low", "high"})

-----------------------------------------------------------------------------
(* A loop that writes. *)

\* s \o t, by a name that the provers take as a whole, and what it is.
Joined(s, t) == s \o t
IsJoined(s, t, u) ==
  /\ Len(u) = Len(s) + Len(t) /\ Len(s) <= Len(u)
  /\ \A i \in 1..Len(s) : u[i] = s[i]
  /\ \A i \in 1..Len(t) : Len(s) + i \in 1..Len(u) /\ u[Len(s) + i] = t[i]

\* What two sequences make when the second is written behind the first.
LEMMA JoinedShape ==
  ASSUME NEW V, NEW s \in Seq(V), NEW t \in Seq(V)
  PROVE  Joined(s, t) \in Seq(V) /\ IsJoined(s, t, Joined(s, t))
<1> DEFINE u == Joined(s, t)
<1>1. Len(s) \in Nat /\ Len(t) \in Nat
  BY LenProperties
<1>2. /\ u \in Seq(V) /\ Len(u) = Len(s) + Len(t)
      /\ \A i \in 1..(Len(s) + Len(t)) : u[i] = IF i <= Len(s) THEN s[i] ELSE t[i - Len(s)]
  BY ConcatProperties DEF Joined
<1> HIDE DEF u
<1>3. ASSUME NEW i \in 1..Len(t) PROVE Len(s) + i \in 1..Len(u) /\ u[Len(s) + i] = t[i]
  <2>1. /\ Len(s) + i \in 1..(Len(s) + Len(t)) /\ ~(Len(s) + i <= Len(s))
        /\ (Len(s) + i) - Len(s) = i
    BY <1>1
  <2> QED
    BY <1>2, <2>1
<1>4. IsJoined(s, t, u)
  BY <1>1, <1>2, <1>3 DEF IsJoined
<1> QED
  BY <1>2, <1>4 DEF u

\* The parts that a loop of N iterations writes, and what is in the buffer
\* before each iteration.
Parts(V, N) == [1..N -> Seq(V)]
Buffers(V, start, N, parts) ==
  {dst \in [0..N -> Seq(V)] :
     /\ dst[0] = start /\ \A n \in 1..N : dst[n] = Joined(dst[n - 1], parts[n])
     /\ Written(start, parts) = dst[N]}

\* Such buffers exist, and the last of them is what Written returns.
LEMMA WrittenIs ==
  ASSUME NEW V, NEW start \in Seq(V), NEW N \in Nat, NEW parts \in Parts(V, N)
  PROVE  Buffers(V, start, N, parts) # {}
<1> USE DEF Parts
<1> DEFINE S == Seq(V)
           Loop(h) == h = [n \in 0..N |-> IF n = 0 THEN start ELSE Joined(h[n - 1], parts[n])]
           final == CHOOSE h : Loop(h)
           g == [q \in (0..(N - 1)) \X S |-> Joined(q[2], parts[q[1] + 1])]
<1>1. parts \in Seq(S) /\ Len(parts) = N
  BY SeqDef, LenProperties
<1>2. \A s, t \in S : Joined(s, t) \in S
  BY JoinedShape
<1> HIDE DEF S
<1>3. parts \in [1..N -> S] /\ start \in S
  BY DEF S
<1>4. g \in Steps(N, S) /\ \A n \in 1..N : \A s \in S : g[<<n - 1, s>>] = Joined(s, parts[n])
  <2>1. ASSUME NEW q \in (0..(N - 1)) \X S PROVE Joined(q[2], parts[q[1] + 1]) \in S
    <3>1. q[1] + 1 \in 1..N /\ q[2] \in S
      OBVIOUS
    <3> QED
      BY <1>2, <1>3, <3>1
  <2>2. ASSUME NEW n \in 1..N, NEW s \in S PROVE g[<<n - 1, s>>] = Joined(s, parts[n])
    <3>1. <<n - 1, s>> \in (0..(N - 1)) \X S /\ (n - 1) + 1 = n
      OBVIOUS
    <3> QED
      BY <3>1
  <2> QED
    BY <2>1, <2>2 DEF Steps
<1> HIDE DEF g
<1>5. PICK h \in [0..N -> S] : h[0] = start /\ \A k \in 1..N : h[k] = g[<<k - 1, h[k - 1]>>]
  <2>1. Iterations(N, S, start, g) # {}
    BY <1>3, <1>4, FiniteRecursion
  <2> QED
    BY <2>1 DEF Iterations
<1>6. ASSUME NEW n \in 1..N PROVE h[n] = Joined(h[n - 1], parts[n])
  <2>1. n - 1 \in 0..N
    OBVIOUS
  <2>2. h[n - 1] \in S
    BY <1>5, <2>1
  <2>3. g[<<n - 1, h[n - 1]>>] = Joined(h[n - 1], parts[n])
    BY <1>4, <2>2, Zenon
  <2> QED
    BY <1>5, <2>3, Zenon
<1>7. Loop(h)
  <2> DEFINE body(n) == IF n = 0 THEN start ELSE Joined(h[n - 1], parts[n])
  <2>1. h = [n \in 0..N |-> h[n]]
    BY <1>5
  <2>2. \A n \in 0..N : h[n] = body(n)
    BY <1>5, <1>6
  <2> HIDE DEF body
  <2>3. h = [n \in 0..N |-> body(n)]
    BY <2>1, <2>2
  <2> QED
    BY <2>3 DEF body
<1>8. Loop(final)
  <2> HIDE DEF Loop
  <2> QED
    BY <1>7
<1>9. Written(start, parts) = final[N]
  BY <1>1 DEF Written, Joined
<1> HIDE DEF final
<1>10. final[0] = start /\ \A n \in 1..N : final[n] = Joined(final[n - 1], parts[n])
  <2> DEFINE body(n) == IF n = 0 THEN start ELSE Joined(final[n - 1], parts[n])
  <2>1. final = [n \in 0..N |-> body(n)]
    BY <1>8
  <2>2. body(0) = start /\ \A n \in 1..N : body(n) = Joined(final[n - 1], parts[n])
    OBVIOUS
  <2> HIDE DEF body
  <2>3. \A n \in 0..N : final[n] = body(n)
    BY <2>1
  <2> QED
    BY <2>2, <2>3
<1> DEFINE T == {n \in Nat : n <= N => final[n] \in S}
<1>11. 0 \in T
  BY <1>3, <1>10
<1>12. ASSUME NEW n \in Nat, n \in T PROVE n + 1 \in T
  <2> SUFFICES ASSUME n + 1 <= N PROVE final[n + 1] \in S
    OBVIOUS
  <2>1. n + 1 \in 1..N /\ (n + 1) - 1 = n
    OBVIOUS
  <2> QED
    BY <1>2, <1>3, <1>10, <1>12, <2>1
<1> HIDE DEF T
<1>13. Nat \subseteq T
  BY <1>11, <1>12, SetInduct
<1>14. final = [n \in 0..N |-> final[n]]
  BY <1>8, Zenon
<1>15. final \in [0..N -> S]
  BY <1>13, <1>14 DEF T
<1> QED
  BY <1>9, <1>10, <1>15 DEF S, Buffers

\* Each part stays where it was written: behind the parts before it.
Offsets(start, N, parts, buf) ==
  {at \in [0..N -> Nat] :
     /\ at[0] = Len(start) /\ \A n \in 1..N : at[n] = at[n - 1] + Len(parts[n])
     /\ Len(buf) = at[N]
     /\ \A j \in 1..Len(start) : buf[j] = start[j]
     /\ \A n \in 1..N : \A j \in 1..Len(parts[n]) : buf[at[n - 1] + j] = parts[n][j]}

\* What a loop writes has such offsets.
LEMMA WrittenWords ==
  ASSUME NEW V, NEW start \in Seq(V), NEW N \in Nat, NEW parts \in Parts(V, N)
  PROVE  /\ Written(start, parts) \in Seq(V)
         /\ Offsets(start, N, parts, Written(start, parts)) # {}
<1> DEFINE W == Written(start, parts)
<1> HIDE DEF W
<1>1. PICK dst \in [0..N -> Seq(V)] :
        dst[0] = start /\ (\A n \in 1..N : dst[n] = Joined(dst[n - 1], parts[n])) /\ W = dst[N]
  <2>1. Buffers(V, start, N, parts) # {}
    BY WrittenIs
  <2> QED
    BY <2>1 DEF W, Buffers
<1> DEFINE at == [n \in 0..N |-> Len(dst[n])]
           Kept(n, m) == /\ Len(dst[n]) <= Len(dst[m])
                         /\ \A j \in 1..Len(dst[n]) : dst[m][j] = dst[n][j]
           T == {m \in Nat : m <= N => \A n \in 0..m : Kept(n, m)}
<1>2. ASSUME NEW n \in 1..N PROVE IsJoined(dst[n - 1], parts[n], dst[n])
  <2>1. dst[n - 1] \in Seq(V) /\ parts[n] \in Seq(V) /\ dst[n] = Joined(dst[n - 1], parts[n])
    BY <1>1 DEF Parts
  <2> QED
    BY <2>1, JoinedShape
<1>3. \A n \in 0..N : Len(dst[n]) \in Nat
  BY <1>1, LenProperties
<1>4. 0 \in T
  BY <1>3
<1>5. ASSUME NEW m \in Nat, m \in T PROVE m + 1 \in T
  <2> SUFFICES ASSUME m + 1 <= N, NEW n \in 0..(m + 1) PROVE Kept(n, m + 1)
    OBVIOUS
  <2>1. CASE n = m + 1
    BY <1>3, <2>1
  <2>2. CASE n \in 0..m
    <3>1. Kept(n, m)
      BY <1>5, <2>2
    <3>2. m + 1 \in 1..N /\ (m + 1) - 1 = m
      OBVIOUS
    <3>3. Kept(m, m + 1)
      <4>1. IsJoined(dst[m], parts[m + 1], dst[m + 1])
        BY <1>2, <3>2
      <4> QED
        BY <4>1, Zenon DEF IsJoined
    <3>4. Len(dst[n]) \in Nat /\ Len(dst[m]) \in Nat /\ Len(dst[m + 1]) \in Nat
      BY <1>3, <2>2
    <3>5. ASSUME NEW j \in 1..Len(dst[n]) PROVE dst[m + 1][j] = dst[n][j]
      <4>1. j \in 1..Len(dst[m]) /\ dst[m][j] = dst[n][j]
        BY <3>1, <3>4
      <4>2. dst[m + 1][j] = dst[m][j]
        BY <3>3, <4>1, Zenon
      <4> QED
        BY <4>1, <4>2, Zenon
    <3> QED
      BY <3>1, <3>3, <3>4, <3>5
  <2> QED
    BY <2>1, <2>2
<1> HIDE DEF T
<1>6. Nat \subseteq T
  BY <1>4, <1>5, SetInduct
<1>7. \A n \in 0..N : Kept(n, N)
  BY <1>6 DEF T
<1>8. ASSUME NEW n \in 1..N, NEW j \in 1..Len(parts[n]) PROVE W[at[n - 1] + j] = parts[n][j]
  <2>1. IsJoined(dst[n - 1], parts[n], dst[n])
    BY <1>2
  <2>2. at[n - 1] = Len(dst[n - 1])
    OBVIOUS
  <2> HIDE DEF at
  <2>3. Len(dst[n - 1]) + j \in 1..Len(dst[n]) /\ dst[n][Len(dst[n - 1]) + j] = parts[n][j]
    BY <2>1, Zenon DEF IsJoined
  <2>4. W[Len(dst[n - 1]) + j] = dst[n][Len(dst[n - 1]) + j]
    <3>1. Kept(n, N)
      BY <1>7
    <3> QED
      BY <1>1, <2>3, <3>1, Zenon
  <2> QED
    BY <2>2, <2>3, <2>4
<1>9. \A j \in 1..Len(start) : W[j] = start[j]
  <2>1. Kept(0, N)
    BY <1>7
  <2> QED
    BY <1>1, <2>1
<1>10. at \in [0..N -> Nat]
  BY <1>3
<1>11. at[0] = Len(start) /\ at[N] = Len(W) /\ W \in Seq(V)
  BY <1>1
<1>12. ASSUME NEW n \in 1..N PROVE at[n] = at[n - 1] + Len(parts[n])
  <2>1. IsJoined(dst[n - 1], parts[n], dst[n])
    BY <1>2
  <2>2. Len(dst[n]) = Len(dst[n - 1]) + Len(parts[n])
    BY <2>1 DEF IsJoined
  <2>3. at[n] = Len(dst[n]) /\ at[n - 1] = Len(dst[n - 1])
    OBVIOUS
  <2> QED
    BY <2>2, <2>3
<1> HIDE DEF at
<1>13. at \in Offsets(start, N, parts, W)
  BY <1>8, <1>9, <1>10, <1>11, <1>12 DEF Offsets
<1> QED
  BY <1>11, <1>13 DEF W

-----------------------------------------------------------------------------
(* LubyLevel *)

Header(x) ==
  <<x.level, x.rep, x.rep_dist, Low(x.rep_value), High(x.rep_value), NumPeers(x)>>
Keys(x) == Ascending(PeersOf(x))
WordsOfPeer(x, k) == PeerWords(Keys(x)[k], x.peers[Keys(x)[k]])

\* Addresses are numbers, and so words of a packet.
LEMMA Addresses == \A a \in Addr : a \in Int
  BY AddrAssumption

\* The halves of a double make it again.
LEMMA Doubles == ASSUME NEW v PROVE FromDouble(Low(v), High(v)) = v
<1>1. Low(v)[1] = v /\ Low(v)[2] = "low"
  BY DEF Low
<1> QED
  BY <1>1 DEF FromDouble

\* The peers of a level come in some order, each once.
LEMMA KeysShape ==
  ASSUME NEW x \in AnyLevel
  PROVE  /\ NumPeers(x) \in Nat /\ Keys(x) \in [1..NumPeers(x) -> PeersOf(x)]
         /\ \A p \in PeersOf(x) : \E k \in 1..NumPeers(x) : Keys(x)[k] = p
         /\ \A j, k \in 1..NumPeers(x) : Keys(x)[j] = Keys(x)[k] => j = k
<1>1. PeersOf(x) \subseteq Addr /\ NumPeers(x) \in Nat
  BY LevelFields
<1>2. PeersOf(x) \subseteq Int /\ IsFiniteSet(PeersOf(x))
  <2>1. IsFiniteSet(Addr)
    BY AddrAssumption
  <2>2. PeersOf(x) \subseteq Int
    BY <1>1, Addresses
  <2> QED
    BY <1>1, <2>1, <2>2, FS_Subset
<1>3. NumPeers(x) = Cardinality(PeersOf(x))
  BY DEF NumPeers, PeersOf
<1>4. /\ Keys(x) \in [1..NumPeers(x) -> PeersOf(x)]
      /\ \A j, k \in 1..NumPeers(x) : j < k => Keys(x)[j] < Keys(x)[k]
      /\ \A p \in PeersOf(x) : \E k \in 1..NumPeers(x) : Keys(x)[k] = p
  <2>1. PeersOf(x) \in SUBSET Int
    BY <1>2
  <2> QED
    BY <1>2, <1>3, <2>1, AscendingShape DEF Keys
<1>5. ASSUME NEW j \in 1..NumPeers(x), NEW k \in 1..NumPeers(x), Keys(x)[j] = Keys(x)[k]
      PROVE  j = k
  <2>1. Keys(x)[j] \in Int /\ Keys(x)[k] \in Int
    BY <1>2, <1>4
  <2>2. ~(j < k) /\ ~(k < j)
    BY <1>4, <1>5, <2>1
  <2> QED
    BY <1>1, <2>2
<1> QED
  BY <1>1, <1>4, <1>5

\* Six words are a sequence of length six.
LEMMA SixWords ==
  ASSUME NEW a \in Word, NEW b \in Word, NEW c \in Word,
         NEW d \in Word, NEW e \in Word, NEW f \in Word
  PROVE  <<a, b, c, d, e, f>> \in Seq(Word) /\ Len(<<a, b, c, d, e, f>>) = 6
  OBVIOUS

\* The six words of the header and those of a peer.
LEMMA HeaderShape ==
  ASSUME NEW x \in AnyLevel
  PROVE  /\ Header(x) \in Seq(Word) /\ Len(Header(x)) = 6
         /\ Header(x)[1] = x.level /\ Header(x)[2] = x.rep /\ Header(x)[3] = x.rep_dist
         /\ Header(x)[4] = Low(x.rep_value) /\ Header(x)[5] = High(x.rep_value)
         /\ Header(x)[6] = NumPeers(x)
<1>1. /\ x.level \in Int /\ x.rep \in Int /\ x.rep_dist \in Int /\ x.rep_value \in Int
      /\ NumPeers(x) \in Int
  BY LevelFields, Addresses DEF None
<1>2. Low(x.rep_value) \in Word /\ High(x.rep_value) \in Word
  BY <1>1 DEF Low, High, Word
<1>3. \A k \in Int : k \in Word
  BY DEF Word
<1>4. Header(x) \in Seq(Word) /\ Len(Header(x)) = 6
  <2> HIDE DEF Word
  <2> QED
    BY <1>1, <1>2, <1>3, SixWords DEF Header
<1> QED
  BY <1>4 DEF Header

\* The six words of a peer, in the order in which MarshalTo writes them.
LEMMA PeerShape ==
  ASSUME NEW x \in AnyLevel, NEW k \in 1..NumPeers(x)
  PROVE  /\ WordsOfPeer(x, k) \in Seq(Word) /\ Len(WordsOfPeer(x, k)) = 6
         /\ WordsOfPeer(x, k)[1] = Keys(x)[k]
         /\ WordsOfPeer(x, k)[2] = x.peers[Keys(x)[k]].degree
         /\ WordsOfPeer(x, k)[3] = Low(x.peers[Keys(x)[k]].value)
         /\ WordsOfPeer(x, k)[4] = High(x.peers[Keys(x)[k]].value)
         /\ WordsOfPeer(x, k)[5] = x.peers[Keys(x)[k]].dist
         /\ WordsOfPeer(x, k)[6] = x.peers[Keys(x)[k]].next_hop
<1> DEFINE p == Keys(x)[k]
           q == x.peers[p]
<1>1. p \in Addr /\ q \in LubyPeer
  BY KeysShape, LevelFields
<1> HIDE DEF p, q
<1>2. p \in Int /\ q.degree \in Int /\ q.value \in Int /\ q.dist \in Int /\ q.next_hop \in Int
  BY <1>1, Addresses DEF LubyPeer
<1>3. Low(q.value) \in Word /\ High(q.value) \in Word
  BY <1>2 DEF Low, High, Word
<1>4. \A i \in Int : i \in Word
  BY DEF Word
<1>5. WordsOfPeer(x, k) = <<p, q.degree, Low(q.value), High(q.value), q.dist, q.next_hop>>
  BY DEF WordsOfPeer, PeerWords, p, q
<1>6. WordsOfPeer(x, k) \in Seq(Word) /\ Len(WordsOfPeer(x, k)) = 6
  <2> HIDE DEF Word
  <2> QED
    BY <1>2, <1>3, <1>4, <1>5, SixWords
<1> QED
  BY <1>5, <1>6 DEF p, q

\* The words of a level: those of the header, then six for each peer.
LEMMA LevelWordsShape ==
  ASSUME NEW x \in AnyLevel
  PROVE  /\ LevelWords(x) \in Seq(Word) /\ LevelSize(x) \in Nat
         /\ Len(LevelWords(x)) = LevelSize(x)
         /\ \A j \in 1..6 : LevelWords(x)[j] = Header(x)[j]
         /\ \A k \in 1..NumPeers(x) : \A j \in 1..6 :
              LevelWords(x)[6 * k + j] = WordsOfPeer(x, k)[j]
<1> DEFINE N == NumPeers(x)
           parts == [k \in 1..N |-> WordsOfPeer(x, k)]
           W == LevelWords(x)
<1>1. N \in Nat /\ Header(x) \in Seq(Word) /\ Len(Header(x)) = 6
  BY HeaderShape, KeysShape
<1>2. \A k \in 1..N : WordsOfPeer(x, k) \in Seq(Word) /\ Len(WordsOfPeer(x, k)) = 6
  BY PeerShape
<1>3. W = Written(Header(x), parts)
  BY DEF LevelWords, Header, Keys, WordsOfPeer
<1>4. parts \in Parts(Word, N) /\ \A k \in 1..N : parts[k] = WordsOfPeer(x, k)
  BY <1>2 DEF Parts
<1> HIDE DEF parts, W, N
<1>5. W \in Seq(Word) /\ Offsets(Header(x), N, parts, W) # {}
  BY <1>1, <1>3, <1>4, WrittenWords
<1>6. PICK at \in [0..N -> Nat] :
        /\ at[0] = 6 /\ \A n \in 1..N : at[n] = at[n - 1] + 6
        /\ Len(W) = at[N]
        /\ \A j \in 1..6 : W[j] = Header(x)[j]
        /\ \A n \in 1..N : \A j \in 1..6 : W[at[n - 1] + j] = WordsOfPeer(x, n)[j]
  <2>1. PICK at : at \in Offsets(Header(x), N, parts, W)
    BY <1>5
  <2>2. /\ at \in [0..N -> Nat]
        /\ at[0] = Len(Header(x)) /\ \A n \in 1..N : at[n] = at[n - 1] + Len(parts[n])
        /\ Len(W) = at[N]
        /\ \A j \in 1..Len(Header(x)) : W[j] = Header(x)[j]
        /\ \A n \in 1..N : \A j \in 1..Len(parts[n]) : W[at[n - 1] + j] = parts[n][j]
    BY <2>1 DEF Offsets
  <2>3. \A n \in 1..N : Len(parts[n]) = 6 /\ parts[n] = WordsOfPeer(x, n)
    BY <1>2, <1>4
  <2>4. at[0] = 6 /\ \A n \in 1..N : at[n] = at[n - 1] + 6
    BY <1>1, <2>2, <2>3
  <2>5. \A j \in 1..6 : W[j] = Header(x)[j]
    BY <1>1, <2>2
  <2>6. ASSUME NEW n \in 1..N, NEW j \in 1..6
        PROVE  W[at[n - 1] + j] = WordsOfPeer(x, n)[j]
    <3>1. Len(parts[n]) = 6 /\ parts[n] = WordsOfPeer(x, n)
      BY <2>3, Zenon
    <3>2. \A i \in 1..Len(parts[n]) : W[at[n - 1] + i] = parts[n][i]
      BY <2>2, Zenon
    <3> QED
      BY <3>1, <3>2, Zenon
  <2> QED
    BY <2>2, <2>4, <2>5, <2>6
<1> DEFINE T == {n \in Nat : n <= N => at[n] = 6 + 6 * n}
<1>7. 0 \in T
  BY <1>6
<1>8. ASSUME NEW n \in Nat, n \in T PROVE n + 1 \in T
  <2> SUFFICES ASSUME n + 1 <= N PROVE at[n + 1] = 6 + 6 * (n + 1)
    OBVIOUS
  <2>1. n + 1 \in 1..N /\ (n + 1) - 1 = n
    BY <1>1
  <2>2. at[n + 1] = at[n] + 6
    BY <1>6, <2>1
  <2> QED
    BY <1>1, <1>8, <2>2
<1> HIDE DEF T
<1>9. Nat \subseteq T
  BY <1>7, <1>8, SetInduct
<1>10. \A n \in 0..N : at[n] = 6 + 6 * n
  BY <1>9 DEF T
<1>11. Len(W) = 6 + 6 * N
  BY <1>1, <1>6, <1>10
<1>12. ASSUME NEW k \in 1..N, NEW j \in 1..6 PROVE W[6 * k + j] = WordsOfPeer(x, k)[j]
  <2>1. at[k - 1] = 6 * k
    BY <1>1, <1>10
  <2> QED
    BY <1>6, <2>1
<1>13. LevelSize(x) = 6 + 6 * N /\ LevelSize(x) \in Nat
  BY <1>1 DEF LevelSize, N
<1> QED
  BY <1>5, <1>6, <1>11, <1>12, <1>13 DEF W, N

\* Whoever finds the words of a level in a buffer reads the level.
LEMMA LevelReads ==
  ASSUME NEW x \in AnyLevel, NEW buf, NEW src \in Nat,
         \A j \in 1..LevelSize(x) : buf[src + j] = LevelWords(x)[j]
  PROVE  LevelRead(buf, src) = OnWire(x)
<1> DEFINE N == NumPeers(x)
           at(k) == src + 6 * k
           read(k) == [degree |-> buf[at(k) + 2], value |-> FromDouble(buf[at(k) + 3], buf[at(k) + 4]),
                       dist |-> buf[at(k) + 5], next_hop |-> buf[at(k) + 6]]
           key(k) == buf[at(k) + 1]
           D == {key(k) : k \in 1..N}
           peers == [p \in D |-> read(CHOOSE k \in 1..N : key(k) = p)]
<1>1. N \in Nat /\ LevelSize(x) = 6 + 6 * N
  BY KeysShape DEF LevelSize
<1>2. /\ buf[src + 1] = x.level /\ buf[src + 2] = x.rep /\ buf[src + 3] = x.rep_dist
      /\ buf[src + 4] = Low(x.rep_value) /\ buf[src + 5] = High(x.rep_value)
      /\ buf[src + 6] = N
  <2>1. \A j \in 1..6 : buf[src + j] = Header(x)[j]
    <3>1. \A j \in 1..6 : j \in 1..LevelSize(x)
      BY <1>1
    <3> QED
      BY <3>1, LevelWordsShape
  <2>2. /\ buf[src + 1] = Header(x)[1] /\ buf[src + 2] = Header(x)[2]
        /\ buf[src + 3] = Header(x)[3] /\ buf[src + 4] = Header(x)[4]
        /\ buf[src + 5] = Header(x)[5] /\ buf[src + 6] = Header(x)[6]
    BY <2>1
  <2> QED
    BY <2>2, HeaderShape
<1>3. ASSUME NEW k \in 1..N PROVE key(k) = Keys(x)[k] /\ read(k) = x.peers[Keys(x)[k]]
  <2> DEFINE q == x.peers[Keys(x)[k]]
  <2>1. \A j \in 1..6 : buf[at(k) + j] = WordsOfPeer(x, k)[j]
    <3> SUFFICES ASSUME NEW j \in 1..6 PROVE buf[at(k) + j] = WordsOfPeer(x, k)[j]
      OBVIOUS
    <3>1. 6 * k + j \in 1..LevelSize(x) /\ at(k) + j = src + (6 * k + j)
      BY <1>1
    <3>2. LevelWords(x)[6 * k + j] = WordsOfPeer(x, k)[j]
      BY LevelWordsShape
    <3> QED
      BY <3>1, <3>2
  <2>2. /\ buf[at(k) + 1] = Keys(x)[k] /\ buf[at(k) + 2] = q.degree
        /\ buf[at(k) + 3] = Low(q.value) /\ buf[at(k) + 4] = High(q.value)
        /\ buf[at(k) + 5] = q.dist /\ buf[at(k) + 6] = q.next_hop
    BY <2>1, PeerShape
  <2>3. read(k) = [degree |-> q.degree, value |-> q.value, dist |-> q.dist, next_hop |-> q.next_hop]
    BY <2>2, Doubles
  <2>4. q \in LubyPeer
    BY KeysShape, LevelFields
  <2> HIDE DEF q
  <2>5. q = [degree |-> q.degree, value |-> q.value, dist |-> q.dist, next_hop |-> q.next_hop]
    BY <2>4 DEF LubyPeer
  <2> QED
    BY <2>2, <2>3, <2>5 DEF q
<1>4. LevelRead(buf, src)
        = [level |-> x.level, rep |-> x.rep, rep_next_hop |-> None, rep_dist |-> x.rep_dist,
           rep_value |-> x.rep_value, peers |-> peers]
  BY <1>2, Doubles DEF LevelRead
<1> HIDE DEF read, key, at, N
<1>5. D = PeersOf(x)
  BY <1>3, KeysShape DEF N
<1>6. ASSUME NEW p \in PeersOf(x) PROVE peers[p] = x.peers[p]
  <2> DEFINE k == CHOOSE k \in 1..N : key(k) = p
  <2>1. k \in 1..N /\ key(k) = p
    BY <1>5
  <2>2. peers[p] = read(k)
    BY <1>5
  <2> HIDE DEF k
  <2> QED
    BY <1>3, <2>1, <2>2
<1>7. peers = x.peers
  <2>1. peers = [p \in PeersOf(x) |-> peers[p]]
    BY <1>5
  <2>2. x.peers = [p \in PeersOf(x) |-> x.peers[p]]
    BY LevelFields
  <2> HIDE DEF peers
  <2> QED
    BY <1>6, <2>1, <2>2
<1>8. OnWire(x) = [level |-> x.level, rep |-> x.rep, rep_next_hop |-> None,
                   rep_dist |-> x.rep_dist, rep_value |-> x.rep_value, peers |-> x.peers]
  <2>1. PICK E \in SUBSET Addr : x \in Level(E)
    BY DEF AnyLevel
  <2> QED
    BY <2>1 DEF Level, OnWire
<1> QED
  BY <1>4, <1>7, <1>8

-----------------------------------------------------------------------------
(* LubyMIS *)

\* Where the levels of L begin in the buffer.
LevelOffsets(L, buf) ==
  {at \in [0..Len(L) -> Nat] :
     /\ at[0] = 2 /\ \A n \in 1..Len(L) : at[n] = at[n - 1] + LevelSize(L[n])
     /\ Len(buf) = at[Len(L)]
     /\ buf[1] = At(L, 0).rep /\ buf[2] = Len(L)
     /\ \A n \in 1..Len(L) : \A j \in 1..LevelSize(L[n]) :
          buf[at[n - 1] + j] = LevelWords(L[n])[j]}

\* The packet has such offsets: the levels stand one behind the other.
LEMMA MarshalToShape ==
  ASSUME NEW L, IsLevels(L)
  PROVE  LevelOffsets(L, MarshalTo(L)) # {}
<1> DEFINE N == Len(L)
           start == <<At(L, 0).rep, N>>
           parts == [n \in 1..N |-> LevelWords(L[n])]
           W == MarshalTo(L)
<1>1. N \in Nat \ {0} /\ \A n \in 1..N : L[n] \in AnyLevel
  BY LevelsShape
<1>2. start \in Seq(Word) /\ Len(start) = 2 /\ start[1] = At(L, 0).rep /\ start[2] = N
  <2>1. L[1] \in AnyLevel
    BY <1>1
  <2>2. At(L, 0).rep \in Int
    BY <2>1, LevelFields, Addresses DEF At, None
  <2>3. At(L, 0).rep \in Word /\ N \in Word
    BY <1>1, <2>2 DEF Word
  <2> HIDE DEF N
  <2> QED
    BY <2>3
<1>3. \A n \in 1..N : /\ LevelWords(L[n]) \in Seq(Word)
                      /\ Len(LevelWords(L[n])) = LevelSize(L[n])
  BY <1>1, LevelWordsShape
<1>4. parts \in Parts(Word, N) /\ \A n \in 1..N : parts[n] = LevelWords(L[n])
  BY <1>3 DEF Parts
<1>5. W = Written(start, parts)
  BY DEF MarshalTo
<1> HIDE DEF N, start, parts, W
<1>6. Offsets(start, N, parts, W) # {}
  BY <1>1, <1>2, <1>4, <1>5, WrittenWords
<1>7. PICK at : at \in Offsets(start, N, parts, W)
  BY <1>6
<1>8. /\ at \in [0..N -> Nat]
      /\ at[0] = Len(start) /\ \A n \in 1..N : at[n] = at[n - 1] + Len(parts[n])
      /\ Len(W) = at[N]
      /\ \A j \in 1..Len(start) : W[j] = start[j]
      /\ \A n \in 1..N : \A j \in 1..Len(parts[n]) : W[at[n - 1] + j] = parts[n][j]
  BY <1>7 DEF Offsets
<1>9. \A n \in 1..N : Len(parts[n]) = LevelSize(L[n]) /\ parts[n] = LevelWords(L[n])
  BY <1>3, <1>4
<1>10. at[0] = 2 /\ \A n \in 1..N : at[n] = at[n - 1] + LevelSize(L[n])
  BY <1>2, <1>8, <1>9
<1>11. W[1] = At(L, 0).rep /\ W[2] = N
  BY <1>2, <1>8
<1>12. \A n \in 1..N : \A j \in 1..LevelSize(L[n]) : W[at[n - 1] + j] = LevelWords(L[n])[j]
  BY <1>8, <1>9
<1>13. at \in LevelOffsets(L, W)
  BY <1>8, <1>10, <1>11, <1>12 DEF LevelOffsets, N
<1> QED
  BY <1>13 DEF W

\* The sum of the sizes of the levels is the end of the last of them.
LEMMA SizeIs ==
  ASSUME NEW L, IsLevels(L), NEW buf, NEW at \in LevelOffsets(L, buf)
  PROVE  GetMarshalledSize(L) = at[Len(L)]
<1> DEFINE N == Len(L)
           Sums(f) == f = [n \in 0..N |-> IF n = 0 THEN 2 ELSE f[n - 1] + LevelSize(L[n])]
           total == CHOOSE f : Sums(f)
<1>1. N \in Nat
  BY LevelsShape
<1>2. at \in [0..N -> Nat] /\ at[0] = 2 /\ \A n \in 1..N : at[n] = at[n - 1] + LevelSize(L[n])
  BY DEF LevelOffsets
<1> HIDE DEF N
<1>3. Sums(at)
  BY <1>1, <1>2
<1>4. Sums(total)
  <2> HIDE DEF Sums
  <2> QED
    BY <1>3
<1>5. GetMarshalledSize(L) = total[N]
  BY DEF GetMarshalledSize, N
<1> HIDE DEF total
<1>6. total[0] = 2 /\ \A n \in 1..N : total[n] = total[n - 1] + LevelSize(L[n])
  BY <1>1, <1>4
<1> DEFINE T == {n \in Nat : n <= N => total[n] = at[n]}
<1>7. 0 \in T
  BY <1>2, <1>6
<1>8. ASSUME NEW n \in Nat, n \in T PROVE n + 1 \in T
  <2> SUFFICES ASSUME n + 1 <= N PROVE total[n + 1] = at[n + 1]
    OBVIOUS
  <2>1. n + 1 \in 1..N /\ (n + 1) - 1 = n /\ total[n] = at[n]
    BY <1>1, <1>8
  <2> QED
    BY <1>2, <1>6, <2>1
<1> HIDE DEF T
<1>9. Nat \subseteq T
  BY <1>7, <1>8, SetInduct
<1> QED
  BY <1>1, <1>5, <1>9 DEF T, N

\* MarshalFrom finds each level where MarshalTo put it.
LEMMA MarshalFromReads ==
  ASSUME NEW L, IsLevels(L), NEW buf, NEW at \in LevelOffsets(L, buf)
  PROVE  MarshalFrom(buf) = Packet(L)
<1> DEFINE N == Len(L)
           Offset(f, n) == IF n = 1 THEN 2 ELSE f[n - 1] + LevelSize(LevelRead(buf, f[n - 1]))
           Found(f) == f = [n \in 1..N |-> Offset(f, n)]
           src == CHOOSE f : Found(f)
           first == [n \in 1..N |-> at[n - 1]]
<1>1. N \in Nat \ {0} /\ \A n \in 1..N : L[n] \in AnyLevel
  BY LevelsShape
<1>2. /\ at \in [0..N -> Nat] /\ at[0] = 2
      /\ \A n \in 1..N : at[n] = at[n - 1] + LevelSize(L[n])
      /\ buf[1] = At(L, 0).rep /\ buf[2] = N
      /\ \A n \in 1..N : \A j \in 1..LevelSize(L[n]) :
           buf[at[n - 1] + j] = LevelWords(L[n])[j]
  BY DEF LevelOffsets
<1> HIDE DEF N
<1>3. ASSUME NEW n \in 1..N
      PROVE  LevelRead(buf, at[n - 1]) = OnWire(L[n])
  <2>1. at[n - 1] \in Nat /\ L[n] \in AnyLevel
    BY <1>1, <1>2
  <2>2. \A j \in 1..LevelSize(L[n]) : buf[at[n - 1] + j] = LevelWords(L[n])[j]
    BY <1>2
  <2> QED
    BY <2>1, <2>2, LevelReads
<1>4. ASSUME NEW n \in 1..N PROVE LevelSize(OnWire(L[n])) = LevelSize(L[n])
  <2>1. PICK E \in SUBSET Addr : L[n] \in Level(E)
    BY <1>1 DEF AnyLevel
  <2>2. OnWire(L[n]).peers = L[n].peers
    BY <2>1 DEF Level, OnWire
  <2> QED
    BY <2>2 DEF LevelSize, NumPeers
<1>5. ASSUME NEW n \in 1..N, n # 1
      PROVE  at[n - 1] = at[n - 2] + LevelSize(LevelRead(buf, at[n - 2]))
  <2>1. n - 1 \in 1..N /\ (n - 1) - 1 = n - 2
    BY <1>1, <1>5
  <2>2. LevelSize(LevelRead(buf, at[n - 2])) = LevelSize(L[n - 1])
    BY <1>3, <1>4, <2>1
  <2> QED
    BY <1>2, <2>1, <2>2
<1>6. Found(first)
  <2>1. ASSUME NEW n \in 1..N PROVE first[n] = Offset(first, n)
    <3>1. CASE n = 1
      BY <1>2, <3>1
    <3>2. CASE n # 1
      <4>1. n - 1 \in 1..N /\ (n - 1) - 1 = n - 2
        BY <1>1, <3>2
      <4>2. first[n] = at[n - 1] /\ first[n - 1] = at[n - 2]
        BY <4>1
      <4> HIDE DEF first
      <4> QED
        BY <1>5, <3>2, <4>2
    <3> QED
      BY <3>1, <3>2
  <2>2. first = [n \in 1..N |-> first[n]]
    OBVIOUS
  <2> HIDE DEF first, Offset
  <2> QED
    BY <2>1, <2>2
<1>7. Found(src)
  <2> HIDE DEF Found
  <2> QED
    BY <1>6
<1>8. MarshalFrom(buf) = [sender |-> buf[1], levels |-> [n \in 1..N |-> LevelRead(buf, src[n])]]
  BY <1>2 DEF MarshalFrom
<1> HIDE DEF src
<1>9. \A n \in 1..N : src[n] = Offset(src, n)
  <2> HIDE DEF Offset
  <2> QED
    BY <1>7
<1> DEFINE T == {n \in Nat : n + 1 <= N => src[n + 1] = at[n]}
<1>10. 0 \in T
  BY <1>1, <1>2, <1>9
<1>11. ASSUME NEW n \in Nat, n \in T PROVE n + 1 \in T
  <2> SUFFICES ASSUME (n + 1) + 1 <= N PROVE src[(n + 1) + 1] = at[n + 1]
    OBVIOUS
  <2>1. /\ n + 2 \in 1..N /\ n + 2 # 1 /\ (n + 2) - 1 = n + 1 /\ (n + 2) - 2 = n
        /\ (n + 1) + 1 = n + 2 /\ src[n + 1] = at[n]
    BY <1>1, <1>11
  <2>2. src[n + 2] = src[n + 1] + LevelSize(LevelRead(buf, src[n + 1]))
    BY <1>9, <2>1
  <2>3. at[n + 1] = at[n] + LevelSize(LevelRead(buf, at[n]))
    BY <1>5, <2>1
  <2> QED
    BY <2>1, <2>2, <2>3
<1> HIDE DEF T
<1>12. Nat \subseteq T
  BY <1>10, <1>11, SetInduct
<1>13. ASSUME NEW n \in 1..N PROVE LevelRead(buf, src[n]) = OnWire(L[n])
  <2>1. n - 1 \in T /\ (n - 1) + 1 = n
    BY <1>1, <1>12
  <2>2. src[n] = at[n - 1]
    BY <1>1, <2>1 DEF T
  <2> QED
    BY <1>3, <2>2
<1>14. Packet(L) = [sender |-> buf[1], levels |-> [n \in 1..N |-> OnWire(L[n])]]
  BY <1>2 DEF Packet, N
<1> QED
  BY <1>8, <1>13, <1>14

\* Whatever the levels, the words written are as many as were counted
\* (udp-gossip.cc:290-292).
THEOREM BufferFitsHolds == Spec => []BufferFits
<1>1. TypeOK => BufferFits
  <2> SUFFICES ASSUME TypeOK, NEW a \in Addr
               PROVE  Len(MarshalTo(levels[a])) = GetMarshalledSize(levels[a])
    BY DEF BufferFits
  <2> DEFINE L == levels[a]
  <2>1. IsLevels(L)
    BY DEF TypeOK
  <2> HIDE DEF L
  <2>2. PICK at : at \in LevelOffsets(L, MarshalTo(L))
    BY <2>1, MarshalToShape
  <2>3. Len(MarshalTo(L)) = at[Len(L)]
    BY <2>2 DEF LevelOffsets
  <2> QED
    BY <2>1, <2>2, <2>3, SizeIs DEF L
<1> QED
  BY <1>1, TypeCorrect, PTL

\* Whatever the levels, they are read as they were written, but for rep_next_hop
\* (luby-mis.cc:55, 66, 97, 156, 261).
THEOREM ReadsBackHolds == Spec => []ReadsBack
<1>1. TypeOK => ReadsBack
  <2> SUFFICES ASSUME TypeOK, NEW a \in Addr
               PROVE  MarshalFrom(MarshalTo(levels[a])) = Packet(levels[a])
    BY DEF ReadsBack
  <2> DEFINE L == levels[a]
  <2>1. IsLevels(L)
    BY DEF TypeOK
  <2> HIDE DEF L
  <2>2. PICK at : at \in LevelOffsets(L, MarshalTo(L))
    BY <2>1, MarshalToShape
  <2> QED
    BY <2>1, <2>2, MarshalFromReads DEF L
<1> QED
  BY <1>1, TypeCorrect, PTL
=============================================================================
