SPECIFICATION Spec
CONSTANTS
  TheClaim <- SomeClaim
  ID = ID
  Nil = Nil
  MaxAge = 3
  OSDRequiredAPIS <- ThreeAPIs
  BillingAPI = "cloudbilling"
  KeyLimit = 3
  TenMinutes = 2
  ConfigMaps <- SomeConfigMaps
  OtherAccount <- OldAccount
  Newline = "newline"
  AllZones <- EuropeZones
  Region <- EuropeWest1
  SetupFaults = {"config"}
INVARIANTS
  ZonesAreOfRegion
