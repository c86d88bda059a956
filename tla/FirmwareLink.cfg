SPECIFICATION LinkSpec
CONSTANTS
  Base = 4
  hidFrameMaxDataSize = 2
  IndexMod = 5
  Channels = {1, 2}
  HostPackets = {}
  Replies <- MCReplies
  Crashing = {}
  NotAllowed <- MCNotAllowed
  Messages <- MCMessages
  MaxInbox = 1
CHECK_DEADLOCK FALSE
INVARIANTS
  RepliesArriveWhole
  OneProgramIsServed
PROPERTIES
  InterruptionsLeaveMessageIntact
  OnlyUnreadAreMisread
  EveryMessageAnswered
  OpenSessionsEnd
