SPECIFICATION FairSpec
CONSTANTS
  TheClaim <- SomeClaim
  ID = ID
  Nil = Nil
  MaxAge = 3
  OSDRequiredAPIS <- ThreeAPIs
  BillingAPI = "cloudbilling"
  KeyLimit = 3
  TenMinutes = 2
  ConfigMaps <- SomeConfigMaps
  OtherAccount <- OldAccount
  Newline = "newline"
  AllZones <- UsZones
  Region <- UsEast1
  SetupFaults = {"gcpError", "forbidden", "listPartial", "accountLate", "keyLate", "computeLate", "apiError", "config", "crash"}
INVARIANTS
  DoneIsConfigured
  TransitionTimeIsTrue
  SetupInv
PROPERTIES
  SetupImplementsController
  ReconcileEnds
  SetupCompletes
