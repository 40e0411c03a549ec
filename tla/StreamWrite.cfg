\* The system may stop: every call has returned and the peer is silent.
SPECIFICATION Spec
SYMMETRY Symmetry
CONSTANTS
  PayloadLimit = 9
  MaxCloseReason = 4
  TestPayloads <- MCPayloads
  TestRunes <- MCRunes
  Readers = {}
  Writers = {w1, w2}
  Pingers = {p1, p2}
  Closers = {c1}
  CloseModes = {"close"}
  Loop = Loop
  None = None
  Depth = 1
  MaxPayload = 1
  WriteSizes = {2}
  MaxRead = 1
  Window = 1
  PeerSizes = {}
  PeerControl = {"ping"}
  MaxIn = 1
  MaxCalls = 4
  Deadlines = {"write"}
INVARIANTS
  WriteContiguous
  WriteCommitted
  NoDataAfterClose
  DrainHonoured
  ProbesTracked
CHECK_DEADLOCK FALSE
