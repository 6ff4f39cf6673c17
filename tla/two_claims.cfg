SPECIFICATION Spec
CONSTANTS
  Claims <- TwoClaims
  CCS <- NoClaims
  CCSProject <- NoCCSProject
  p1 = p1
  p2 = p2
  p3 = p3
  ProjectIDs = {p1, p2, p3}
  Nil = Nil
  Faults = {"createLost"}
INVARIANTS
  LinkedReferenceIsOwn
  ProvisionInv
CHECK_DEADLOCK FALSE
SYMMETRY Interchangeable
