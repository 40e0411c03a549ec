\* The system may stop: requests, records and signals are bounded.
SPECIFICATION Spec
CONSTANTS
  Clients = {c1}
  Posters = {p1}
  QueueSize = 2
  ReplayDepth = 1
  MaxStreams = 2
  MaxRecords = 2
  MaxSignals = 4
INVARIANTS
  TypeOK
  LogCovers
  NoLostWake
PROPERTY
  MissedOnlyTrimmed
CHECK_DEADLOCK FALSE
