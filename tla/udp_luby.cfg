\* Two neighbours with different values that run for a second.
CONSTANTS
  Asserts = TRUE
  Node = {1, 2}
  Edge <- Pair
  Value <- Values
  Second = 3
  SecsToRun = {1}
  Waits = {0, 1}
  Delays = {1, 3}
  MaxUnderWay = 2
  Create <- LubyCreated
  SetMyIpv4Address <- LubyReady
  MarshalTo <- LubyPacket
  MarshalFrom <- LubyReceived
SPECIFICATION Spec
PROPERTY ImplementsNetwork
