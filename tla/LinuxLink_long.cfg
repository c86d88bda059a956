SPECIFICATION LinkSpec
CONSTANTS
  Base = 4
  hidFrameMaxDataSize = 2
  IndexMod = 5
  Channels = {1}
  HostPackets = {}
  Replies <- MCReplies
  Crashing = {}
  NotAllowed <- MCNotAllowed
  Messages <- MCMessages
  MaxInbox = 2
INVARIANT
  SignatureFlowServed
