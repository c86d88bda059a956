SPECIFICATION LinkSpec
CONSTANTS
  Base = 4
  hidFrameMaxDataSize = 2
  IndexMod = 5
  Channels = {1, 2}
  HostPackets = {}
  Replies <- MCReplies
  Crashing = {}
  NotAllowed <- MCNotAllowed
  Messages <- MCShortMessages
  MaxInbox = 2
INVARIANT
  OnePacketMessagesServed
PROPERTY
  EveryMessageAnswered
