\* The system may stop: every call has returned and the peer is silent.
SPECIFICATION Spec
CONSTANTS
  PayloadLimit = 9
  MaxCloseReason = 4
  TestPayloads <- MCPayloads
  TestRunes <- MCRunes
  Readers = {r1}
  Writers = {}
  Pingers = {}
  Closers = {c1}
  CloseModes = {"shutdown"}
  Loop = Loop
  None = None
  Depth = 1
  MaxPayload = 2
  WriteSizes = {1}
  MaxRead = 2
  Window = 1
  PeerSizes = {2}
  PeerControl = {}
  MaxIn = 2
  MaxCalls = 4
  Deadlines = {}
INVARIANT
  ShutdownKeepsReceived
CHECK_DEADLOCK FALSE
