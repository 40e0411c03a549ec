\* The system may stop: every call has returned and the peer is silent.
SPECIFICATION Spec
SYMMETRY Symmetry
CONSTANTS
  PayloadLimit = 9
  MaxCloseReason = 4
  TestPayloads <- MCPayloads
  TestRunes <- MCRunes
  Readers = {r1, r2}
  Writers = {}
  Pingers = {}
  Closers = {c1}
  CloseModes = {"close", "shutdown", "eof"}
  Loop = Loop
  None = None
  Depth = 1
  MaxPayload = 2
  WriteSizes = {1}
  MaxRead = 2
  Window = 1
  PeerSizes = {0, 2}
  PeerControl = {"close", "bad"}
  MaxIn = 2
  MaxCalls = 1
  Deadlines = {"read"}
INVARIANT
  TypeOK
PROPERTY
  ReadsAreByteStream
CHECK_DEADLOCK FALSE
