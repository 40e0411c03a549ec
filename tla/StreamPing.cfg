\* The system may stop: every call has returned and the peer is silent.
SPECIFICATION FairSpec
CONSTANTS
  PayloadLimit = 9
  MaxCloseReason = 4
  TestPayloads <- MCPayloads
  TestRunes <- MCRunes
  Readers = {}
  Writers = {w1}
  Pingers = {p1}
  Closers = {c1, c2}
  CloseModes = {"close", "shutdown"}
  Loop = Loop
  None = None
  Depth = 1
  MaxPayload = 1
  WriteSizes = {0, 2}
  MaxRead = 1
  Window = 1
  PeerSizes = {}
  PeerControl = {}
  MaxIn = 0
  MaxCalls = 3
  Deadlines = {}
INVARIANT
  WireExact
PROPERTY
  CloseUnblocks
CHECK_DEADLOCK FALSE
