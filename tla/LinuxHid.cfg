SPECIFICATION MainSpec
CONSTANTS
  Base = 4
  hidFrameMaxDataSize = 2
  IndexMod = 5
  Channels = {1, 2}
  HostPackets <- MCHostPackets
  Replies <- MCReplies
  Crashing <- MCCrashing
  NotAllowed <- MCNotAllowed
INVARIANTS
  MainTypeOK
  RepliesArriveWhole
  StartsAsLeft
  CleanLeavesNone
  FailedStartAddsNothing
PROPERTIES
  ImplementsHidPort
  RxReturns
