SPECIFICATION Spec
CONSTANTS
  Clients = {c1, c2}
  Null = Null
  AcceptFaults = {"denied"}
  MaxAccepts = 1
  MaxDirect = 1
CHECK_DEADLOCK FALSE
INVARIANTS
  SurvivesDenial
