SPECIFICATION FakeFairSpec
CONSTANTS
  Claims <- OneClaim
  CCS <- NoClaims
  CCSProject <- NoCCSProject
  fake = fake
  p1 = p1
  ProjectIDs = {p1}
  FakeProjectClaim = fake
  Nil = Nil
  Faults = {"claimDeleted", "crash", "stabilises"}
INVARIANTS
  FakeReadyHasSecret
  FakeLeavesNothing
  FakeStopsOnlyCleanedUp
PROPERTIES
  FakeBecomesReady
