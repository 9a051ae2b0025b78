---------------------------- MODULE SimulatedClock ----------------------------
(***************************************************************************)
(* class SimulatedClock (simulated-clock.cc): the clock of a node, which   *)
(* runs at another rate than the simulator's and starts at an offset from  *)
(* it.  Rates are in units of 1/Scale; SampleNormal may return any, also a *)
(* negative one.                                                           *)
(***************************************************************************)
EXTENDS Integers

CONSTANTS
  Rates, Offsets,   \* what the constructor may sample
  Scale,            \* the unit of a rate
  MaxTime,          \* bound: the simulation stops at this millisecond
  MaxCounter        \* bound: calls of Now() that the counter answers

ASSUME RateAssumption == Rates \subseteq Int /\ Scale \in Nat \ {0}
ASSUME OffsetAssumption == Offsets \subseteq Int
ASSUME ClockBoundAssumption == MaxTime \in Nat /\ MaxCounter \in Nat

VARIABLES
  sim_now,            \* Simulator::Now(), in milliseconds
  m_rate_ratio, m_offset_millis, m_counter,
  reading             \* what the last call of Now() returned, -1 before it

vars == <<sim_now, m_rate_ratio, m_offset_millis, m_counter, reading>>

Init ==
  /\ sim_now = 0
  /\ m_rate_ratio \in Rates
  /\ m_offset_millis \in Offsets
  /\ m_counter = 0
  /\ reading = -1

\* The product of two doubles, cast to int64_t: what is behind the point is lost.
Scaled(t, rate) ==
  IF rate >= 0 THEN (t * rate) \div Scale ELSE -((t * (-rate)) \div Scale)

target_millis == Scaled(sim_now, m_rate_ratio) + m_offset_millis

\* The simulator reaches its next event.
Tick ==
  /\ sim_now < MaxTime
  /\ sim_now' = sim_now + 1
  /\ UNCHANGED <<m_rate_ratio, m_offset_millis, m_counter, reading>>

\* Faulty variant of Behind: only a target before the simulation is.
BehindStart == target_millis < 0

\* The target is before the simulation, or before what the clock has counted.
Behind == target_millis < 0 \/ target_millis < m_counter

\* Faulty variant of Count: the counter runs down.
CountDown ==
  /\ m_counter < MaxCounter
  /\ reading' = m_counter
  /\ m_counter' = m_counter - 1

\* The answer of a clock that is behind.
Count ==
  /\ m_counter < MaxCounter
  /\ reading' = m_counter
  /\ m_counter' = m_counter + 1

Now ==
  /\ \/ Behind /\ Count
     \/ ~Behind /\ reading' = target_millis /\ UNCHANGED m_counter
  /\ UNCHANGED <<sim_now, m_rate_ratio, m_offset_millis>>

Next == Tick \/ Now

Spec == Init /\ [][Next]_vars

-----------------------------------------------------------------------------
\* Types; the counter and what the clock says are times of the simulation.
ClockTypeOK ==
  /\ sim_now \in Nat /\ m_counter \in Nat /\ reading \in Nat \cup {-1}
  /\ m_rate_ratio \in Rates /\ m_offset_millis \in Offsets

\* A clock never runs backwards ("fudging to ensure monotonicity",
\* simulated-clock.cc:50), whenever the counter hands over to the target and
\* however many calls the counter has answered until then.  It does so if the
\* rate is negative, which nothing in the constructor excludes.
Monotone == [][m_rate_ratio >= 0 => reading' >= reading]_vars
=============================================================================
