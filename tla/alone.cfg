\* A simulation of one node.
CONSTANTS
  Asserts = FALSE
  Node = {1}
  Edge <- None
  Second = 2
  SecsToRun = {0, 1}
  Waits = {0, 1}
  Delays = {1, 3}
  MaxUnderWay = 2
  Create <- NoAddress
  SetMyIpv4Address <- Address
  MarshalTo <- SameData
  MarshalFrom <- NothingNew
SPECIFICATION Spec
INVARIANT PeerToPick
