\* Three nodes in a line, from the start.
CONSTANTS
  Addr = {1, 2, 3}
  Edge <- Line
  Value <- Values
  Bounded = TRUE
  MaxInFlight = 1
  MaxRepDist = 3
  MaxLevels = 3
SPECIFICATION Spec
INVARIANTS TypeOK NoRepNoPeers RepIsCandidate NextHopIsNeighbour BufferFits ReadsBack
\* The three bounds stop the sends.
CHECK_DEADLOCK FALSE
