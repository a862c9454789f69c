SPECIFICATION Spec
CONSTANTS
  Messages <- TwoMessages
  MaxSends <- TwoFromClient
  EagerClient = TRUE
  Faults = {"disconnect", "stop", "refuse", "break"}
CHECK_DEADLOCK FALSE
INVARIANTS
  WritesFromFront
  WellFramed
  NothingBeforeValidation
  PumpRuns
PROPERTIES
  ImplementsPipes
