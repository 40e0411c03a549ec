\* The system may stop: requests, records and signals are bounded.
SPECIFICATION Spec
CONSTANTS
  Clients = {c1}
  Posters = {}
  QueueSize = 1
  ReplayDepth = 1
  MaxStreams = 1
  MaxRecords = 1
  MaxSignals = 0
INVARIANT
  CloseDetaches
CHECK_DEADLOCK FALSE
