SPECIFICATION FairSpec
CONSTANTS
  Claims <- OneClaim
  CCS <- NoClaims
  CCSProject <- NoCCSProject
  p1 = p1
  ProjectIDs = {p1}
  Nil = Nil
  Faults = {"claimDeleted", "listPartial", "gcpError", "computeLate", "crash", "stabilises"}
INVARIANTS
  ReadyIsProvisioned
PROPERTIES
  ClaimBecomesReady
  DeletionCompletes
