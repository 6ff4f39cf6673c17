SPECIFICATION FairSpec
CONSTANTS
  r1 = r1
  r2 = r2
  sa = sa
  sre = sre
  audit = audit
  user = user
  ServiceAccount = sa
  RequiredRoles = {r1, r2}
  CCSConsoleAccess <- ConsoleGroups
  ConsoleAccessRoles = {r2}
  CCSReadOnlyConsoleAccess <- ReadOnlyGroups
  ReadOnlyConsoleRoles = {r1}
  Others = {user}
  InitialPolicies <- SomePolicies
  Faults = {"gcpError", "replyLost", "crash"}
INVARIANTS
  IamTypeOK
  SuccessMeansDone
  EditInv
PROPERTIES
  ImplementsGrants
  EditEnds
