SPECIFICATION FairSpec
CONSTANTS
  Messages <- TwoMessages
  MaxSends <- TwoFromServer
  EagerClient = FALSE
  Faults = {"refuse", "break"}
CHECK_DEADLOCK FALSE
PROPERTIES
  AllDelivered
  ImplementsPipes
