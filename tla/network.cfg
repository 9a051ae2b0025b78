\* All graphs of up to five nodes that dmc.cc may draw, from no extra edge to
\* more than there are pairs of nodes.
CONSTANTS
  NumNodes = {1, 2, 3, 4, 5}
  BranchFactors = {0, 2, 3, 15}
  UInt = 32
SPECIFICATION Spec
INVARIANTS TypeOK Links Connected EachHasPeer BranchFactorMet OneIdentityEach SocketsReachNeighbours
PROPERTY GetsDrawn
\* Both loops end.
CHECK_DEADLOCK FALSE
