SPECIFICATION Spec
CONSTANTS
  Components <- ThreeComponents
  MaxComponents = 2
  PoolSize = 1
  Systems = {"any", "both"}
  Requires <- TwoSystems
  MaxEntities = 2
  MaxFree = 2
  MaxCopies = 1
  StaleHandles = TRUE
  LateAdds = TRUE
  LateRemovals = TRUE
  LateSystems = TRUE
  BlindReads = TRUE
INVARIANTS
  StorageBounds
  MembersHaveStorage
PROPERTIES
  PoolsDouble
CHECK_DEADLOCK FALSE
