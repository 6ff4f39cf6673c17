SPECIFICATION Spec
CONSTANTS
  Claims <- OneClaim
  CCS <- NoClaims
  CCSProject <- NoCCSProject
  p1 = p1
  ProjectIDs = {p1}
  Nil = Nil
  Faults = {"apiError"}
INVARIANTS
  NoLostWakeup
CHECK_DEADLOCK FALSE
