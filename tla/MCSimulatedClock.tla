--------------------------- MODULE MCSimulatedClock ---------------------------
(* Clocks that stand still, run at half, once and one and a half the         *)
(* simulator's rate or backwards, and start before, at or after it.          *)
EXTENDS SimulatedClock

SomeRates == -1..3
SomeOffsets == -2..2
=============================================================================
