\* Two neighbours, up to three packets under way.
CONSTANTS
  Addr = {1, 2}
  Edge <- Pair
  Value <- Values
  Bounded = TRUE
  MaxInFlight = 3
  MaxRepDist = 4
  MaxLevels = 3
SPECIFICATION Spec
INVARIANTS Ladder NoNullPeerRead DegreesInOrder ValueInRange
PROPERTIES RestartAbove LevelZeroIsGossip
\* The three bounds stop the sends.
CHECK_DEADLOCK FALSE
