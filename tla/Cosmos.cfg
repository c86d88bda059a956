SPECIFICATION WalletSpec
CONSTANTS
  AppIDs = {0, 85, 86}
  Commands = {0, 2, 4, 6}
  AppNames = {"COSMOS"}
  Batches = {}
  Paths = {"zero", "p"}
  ZeroPath = "zero"
  Pieces = {"a", "b"}
  Json <- MCJson
  Messages <- MCMessages
  TeeToken = FALSE
  MaxRequests = 4
  Flows <- MCFlows
CHECK_DEADLOCK FALSE
INVARIANTS
  WalletTypeOK
  SignaturesCoverOneSession
  WholeGetAddrIsExact
  SignedAsSent
