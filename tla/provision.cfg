SPECIFICATION Spec
CONSTANTS
  Claims <- OneClaim
  CCS <- NoClaims
  CCSProject <- NoCCSProject
  p1 = p1
  p2 = p2
  ProjectIDs = {p1, p2}
  Nil = Nil
  Faults = {"claimDeleted", "createFails", "gcpError", "crash", "computeLate", "accountLate"}
INVARIANTS
  TypeInv
  TrackingInv
  FinalizedReferenceHasClaim
  ReadyIsProvisioned
  NothingLeftBehind
  NoLostWakeup
  WakeInv
PROPERTIES
  ReadyIsKept
  ImplementsLifecycle
