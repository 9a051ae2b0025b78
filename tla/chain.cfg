\* Four nodes in a line that have just started level 1.
CONSTANTS
  Addr = {1, 2, 3, 4}
  Edge <- Chain
  Value <- Zero
  Bounded = TRUE
  MaxInFlight = 1
  MaxRepDist = 2
  MaxLevels = 3
SPECIFICATION LaterSpec
INVARIANTS Ladder OwnGroupIsNoPeer PeerWithinReach NoNullPeerRead
PROPERTY RestartAbove
\* The three bounds stop the sends.
CHECK_DEADLOCK FALSE
