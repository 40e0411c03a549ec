\* The system may stop: every call has returned and the peer is silent.
SPECIFICATION Spec
CONSTANTS
  PayloadLimit = 9
  MaxCloseReason = 4
  TestPayloads <- MCPayloads
  TestRunes <- MCRunes
  Readers = {}
  Writers = {w1}
  Pingers = {}
  Closers = {c1, c2}
  CloseModes = {"close"}
  Loop = Loop
  None = None
  Depth = 1
  MaxPayload = 1
  WriteSizes = {1}
  MaxRead = 1
  Window = 2
  PeerSizes = {}
  PeerControl = {}
  MaxIn = 0
  MaxCalls = 4
  Deadlines = {}
INVARIANT
  ReleasedAfterDrain
CHECK_DEADLOCK FALSE
