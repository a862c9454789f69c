SPECIFICATION Spec
CONSTANTS
  Clients = {c1, c2, c3}
  Null = Null
  AcceptFaults = {"denied", "failed"}
  MaxAccepts = 2
  MaxDirect = 1
SYMMETRY ClientSymmetry
CHECK_DEADLOCK FALSE
INVARIANTS
  AcceptorArmed
  IdsUnique
  ListSound
  LeavesReported
  EveryoneIsTold
