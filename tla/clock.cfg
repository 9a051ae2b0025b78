CONSTANTS
  Rates <- SomeRates
  Offsets <- SomeOffsets
  Scale = 2
  MaxTime = 8
  MaxCounter = 7
SPECIFICATION Spec
INVARIANT ClockTypeOK
PROPERTY Monotone
\* Both bounds stop the clock.
CHECK_DEADLOCK FALSE
