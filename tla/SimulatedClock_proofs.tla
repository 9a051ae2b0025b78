------------------------ MODULE SimulatedClock_proofs ------------------------
(***************************************************************************)
(* The clock of a node never runs backwards if its rate is not negative,   *)
(* whatever its offset and however often it is asked.                      *)
(***************************************************************************)
EXTENDS SimulatedClock, TLAPS

\* A later time of the simulator is not an earlier target.
LEMMA ScaledGrows ==
  ASSUME NEW s \in Nat, NEW t \in Nat, s <= t, NEW rate \in Nat
  PROVE  Scaled(s, rate) \in Int /\ Scaled(s, rate) <= Scaled(t, rate)
<1> DEFINE x == s * rate
           y == t * rate
<1>1. Scale \in Nat /\ Scale > 0
  BY RateAssumption
<1>2. x \in Nat /\ y \in Nat /\ x <= y
  <2>1. x \in Nat /\ y \in Nat
    OBVIOUS
  <2>2. (t - s) * rate >= 0
    BY t - s >= 0
  <2>3. y = x + (t - s) * rate
    OBVIOUS
  <2> QED
    BY <2>1, <2>2, <2>3
<1> HIDE DEF x, y
<1> DEFINE q == x \div Scale
           r == y \div Scale
<1>3. q \in Int /\ r \in Int /\ Scale * q <= x /\ y < Scale * r + Scale
  BY <1>1, <1>2
<1> HIDE DEF q, r
<1>4. q <= r
  <2> SUFFICES ASSUME q >= r + 1 PROVE FALSE
    BY <1>3
  <2>1. Scale * q >= Scale * (r + 1)
    BY <1>1, <1>3
  <2>2. Scale * (r + 1) = Scale * r + Scale
    BY <1>1, <1>3
  <2> QED
    BY <1>1, <1>2, <1>3, <2>1, <2>2
<1> QED
  BY <1>3, <1>4 DEF Scaled, x, y, q, r

\* Why the counter and the target never send the clock back: what it said last
\* is below the counter, unless the target has overtaken both.
Overtaken ==
  \/ reading < m_counter
  \/ reading <= target_millis /\ m_counter <= target_millis

ClockInv == ClockTypeOK /\ (m_rate_ratio >= 0 => Overtaken)

\* A clock starts with its last reading below its counter.
LEMMA ClockInit == Init => ClockInv
  BY OffsetAssumption DEF Init, ClockInv, ClockTypeOK, Overtaken

\* The target is an integer, also with a negative rate.
LEMMA TargetType ==
  ASSUME ClockTypeOK PROVE target_millis \in Int
<1>1. m_rate_ratio \in Int /\ m_offset_millis \in Int /\ sim_now \in Nat
  BY RateAssumption, OffsetAssumption DEF ClockTypeOK
<1>2. ASSUME NEW rate \in Nat PROVE (sim_now * rate) \div Scale \in Int
  <2> DEFINE x == sim_now * rate
  <2>1. x \in Nat
    BY <1>1
  <2> HIDE DEF x
  <2>2. x \div Scale \in Int
    BY <2>1, RateAssumption
  <2> QED
    BY <2>2 DEF x
<1>3. CASE m_rate_ratio >= 0
  <2>1. (sim_now * m_rate_ratio) \div Scale \in Int
    BY <1>1, <1>2, <1>3
  <2> QED
    BY <1>1, <1>3, <2>1 DEF target_millis, Scaled
<1>4. CASE ~(m_rate_ratio >= 0)
  <2>1. -m_rate_ratio \in Nat
    BY <1>1, <1>4
  <2>2. (sim_now * (-m_rate_ratio)) \div Scale \in Int
    BY <1>2, <2>1
  <2> QED
    BY <1>1, <1>4, <2>2 DEF target_millis, Scaled
<1> QED
  BY <1>3, <1>4

\* A step keeps the types, with any rate.
LEMMA ClockNextType ==
  ASSUME ClockTypeOK, [Next]_vars
  PROVE  ClockTypeOK'
<1>1. target_millis \in Int /\ m_counter \in Nat
  BY TargetType DEF ClockTypeOK
<1>2. CASE Tick
  BY <1>2 DEF Tick, ClockTypeOK
<1>3. CASE Now
  <2>1. CASE Behind /\ Count
    BY <1>1, <1>3, <2>1 DEF Now, Count, ClockTypeOK
  <2>2. CASE ~Behind /\ reading' = target_millis /\ UNCHANGED m_counter
    BY <1>1, <1>3, <2>2 DEF Now, Behind, ClockTypeOK
  <2> QED
    BY <1>3, <2>1, <2>2 DEF Now
<1>4. CASE UNCHANGED vars
  BY <1>4 DEF vars, ClockTypeOK
<1> QED
  BY <1>2, <1>3, <1>4 DEF Next

\* A step keeps the invariant and does not send the clock back.
LEMMA ClockNext ==
  ASSUME ClockInv, [Next]_vars
  PROVE  ClockInv' /\ (m_rate_ratio >= 0 => reading' >= reading)
<1>0. ClockTypeOK /\ ClockTypeOK' /\ m_rate_ratio' = m_rate_ratio
  BY ClockNextType DEF ClockInv, Next, Tick, Now, vars
<1> SUFFICES ASSUME m_rate_ratio >= 0, Overtaken
             PROVE  Overtaken' /\ reading' >= reading
  BY <1>0 DEF ClockInv
<1>1. target_millis \in Int /\ m_counter \in Nat /\ reading \in Int
  BY <1>0, TargetType DEF ClockTypeOK
<1>2. CASE Tick
  <2>2. target_millis' \in Int /\ target_millis <= target_millis'
    <3>1. /\ m_rate_ratio \in Nat /\ m_offset_millis \in Int /\ sim_now \in Nat
          /\ sim_now' = sim_now + 1 /\ m_rate_ratio' = m_rate_ratio
          /\ m_offset_millis' = m_offset_millis
      BY <1>0, <1>2, RateAssumption, OffsetAssumption DEF Tick, ClockTypeOK
    <3>2. /\ Scaled(sim_now, m_rate_ratio) \in Int
          /\ Scaled(sim_now', m_rate_ratio) \in Int
          /\ Scaled(sim_now, m_rate_ratio) <= Scaled(sim_now', m_rate_ratio)
      BY <3>1, ScaledGrows
    <3>3. target_millis' = Scaled(sim_now', m_rate_ratio) + m_offset_millis
      BY <3>1 DEF target_millis
    <3> QED
      BY <3>1, <3>2, <3>3 DEF target_millis
  <2>3. reading' = reading /\ m_counter' = m_counter
    BY <1>2 DEF Tick
  <2> QED
    BY <1>0, <1>1, <2>2, <2>3 DEF Overtaken
<1>3. CASE Now
  <2>1. target_millis' = target_millis
    BY <1>3 DEF Now, target_millis
  <2>2. CASE Behind /\ Count
    BY <1>0, <1>1, <1>3, <2>1, <2>2 DEF Now, Behind, Count, Overtaken
  <2>3. CASE ~Behind /\ reading' = target_millis /\ UNCHANGED m_counter
    BY <1>0, <1>1, <1>3, <2>1, <2>3 DEF Now, Behind, Overtaken
  <2> QED
    BY <1>3, <2>2, <2>3 DEF Now
<1>4. CASE UNCHANGED vars
  BY <1>0, <1>1, <1>4 DEF vars, Overtaken, target_millis
<1> QED
  BY <1>2, <1>3, <1>4 DEF Next

\* The counter of a clock and its readings are natural numbers, whatever rate
\* was sampled.
THEOREM ClockTypeCorrect == Spec => []ClockTypeOK
<1>1. Init => ClockTypeOK
  BY OffsetAssumption DEF Init, ClockTypeOK
<1>2. ClockTypeOK /\ [Next]_vars => ClockTypeOK'
  BY ClockNextType
<1> QED
  BY <1>1, <1>2, PTL DEF Spec

\* The times that a clock gives never decrease, unless its rate is negative.
THEOREM ClockMonotone == Spec => Monotone
<1>1. ClockInv /\ [Next]_vars => ClockInv'
  BY ClockNext
<1>2. ClockInv /\ [Next]_vars => [m_rate_ratio >= 0 => reading' >= reading]_vars
  BY ClockNext
<1> QED
  BY ClockInit, <1>1, <1>2, PTL DEF Spec, Monotone
=============================================================================
