\* Two neighbours with different values.
CONSTANTS
  Addr = {1, 2}
  Edge <- Pair
  Value <- Values
  Bounded = TRUE
  MaxInFlight = 2
  MaxRepDist = 3
  MaxLevels = 3
SPECIFICATION Spec
INVARIANT AdvertisedIsMedian
CHECK_DEADLOCK FALSE
