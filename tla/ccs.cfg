SPECIFICATION Spec
CONSTANTS
  Claims <- OneClaim
  CCS <- OneClaim
  CCSProject <- OwnProject
  p1 = p1
  ProjectIDs = {p1}
  Nil = Nil
  Faults = {"claimDeleted", "ccsDeleted", "config", "crash", "gcpError", "resync"}
INVARIANTS
  CCSSecretHeld
  NothingLeftBehind
  CleanupInv
  SecretHeldInv
