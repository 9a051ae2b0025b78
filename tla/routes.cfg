\* Three nodes in a line, one packet at a time.
CONSTANTS
  Addr = {1, 2, 3}
  Edge <- Line
  Value <- Zero
  Bounded = TRUE
  MaxInFlight = 1
  MaxRepDist = 30
  MaxLevels = 9
SPECIFICATION FairSpec
PROPERTY RoutesLead
