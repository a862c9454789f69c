\* Three connections, one after the other or over each other.
SPECIFICATION FairSpec
CONSTANTS
  MaxLives = 3
  MaxWork = 2
INVARIANTS
  SafeUnlessMisused
  OnlyFirstIsServed
PROPERTIES
  DisconnectReturns
CHECK_DEADLOCK FALSE
