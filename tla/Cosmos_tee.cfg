SPECIFICATION Spec
CONSTANTS
  AppIDs = {0, 85, 86}
  Commands = {0, 2, 4, 6}
  AppNames = {"COSMOS"}
  Batches = {}
  Paths = {"zero", "p", "q"}
  ZeroPath = "zero"
  Pieces = {"a", "b"}
  Json <- MCJson
  Messages <- MCMessages
  TeeToken = TRUE
  MaxRequests = 4
CHECK_DEADLOCK FALSE
INVARIANT
  SignaturesAreOverPayloadHash
