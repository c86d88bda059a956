SPECIFICATION RegistrySpec
CONSTANTS
  AppIDs = {0, 85, 86}
  Commands = {0, 2, 4}
  AppNames = {"COSMOS", "OTHER"}
  Batches <- MCBatches
INVARIANTS
  RegistryTypeOK
  RoutesMatchRegisteredApps
