SPECIFICATION Spec
CONSTANTS
  Components <- TwoComponents
  MaxComponents = 2
  PoolSize = 2
  Systems = {"any", "both"}
  Requires <- TwoSystems
  MaxEntities = 3
  MaxFree = 3
  MaxCopies = 1
  StaleHandles = FALSE
  LateAdds = FALSE
  LateRemovals = FALSE
  LateSystems = FALSE
  BlindReads = FALSE
INVARIANTS
  IdsAccounted
  FreeIdsAreBare
  MembersExact
