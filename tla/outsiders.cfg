SPECIFICATION Spec
CONSTANTS
  Claims <- OneClaim
  CCS <- NoClaims
  CCSProject <- NoCCSProject
  p1 = p1
  ProjectIDs = {p1}
  Nil = Nil
  Faults = {"edit", "adminDeletes", "refDeleted"}
INVARIANTS
  ProjectTracked
  FinalizedReferenceHasClaim
PROPERTIES
  ReadyIsKept
CHECK_DEADLOCK FALSE
