SPECIFICATION Spec
CONSTANTS
  Claims <- OneClaim
  CCS <- NoClaims
  CCSProject <- NoCCSProject
  p1 = p1
  ProjectIDs = {p1}
  Nil = Nil
  Faults = {"claimDeleted", "cacheLag", "apiError", "replyLost"}
INVARIANTS
  ProjectTracked
  ClaimCopyInv
  HeldInv
CHECK_DEADLOCK FALSE
