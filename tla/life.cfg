\* Three nodes in a line that run for no time or for one second.
CONSTANTS
  Asserts = TRUE
  Node = {1, 2, 3}
  Edge <- Line
  Second = 2
  SecsToRun = {0, 1}
  Waits = {0, 1}
  Delays = {1, 3}
  MaxUnderWay = 2
  Create <- NoAddress
  SetMyIpv4Address <- Address
  MarshalTo <- SameData
  MarshalFrom <- NothingNew
SPECIFICATION Spec
INVARIANTS TypeOK OneTimer SocketsForSend LostOnlyToStopped CleanAtEnd
PROPERTY Returns
