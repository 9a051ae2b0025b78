\* Three nodes in a line, up to two packets in each direction of a link.
CONSTANTS
  Addr = {1, 2, 3}
  Edge <- Line
  MaxQueue = 2
SPECIFICATION BoundedSpec
INVARIANTS TypeOK InOrder
PROPERTY Settles
