SPECIFICATION Spec
CONSTANTS
  Claims <- OneClaim
  CCS <- NoClaims
  CCSProject <- NoCCSProject
  p1 = p1
  p2 = p2
  ProjectIDs = {p1, p2}
  Nil = Nil
  Faults = {"createFails", "cacheLag"}
INVARIANTS
  ProjectTracked
CHECK_DEADLOCK FALSE
