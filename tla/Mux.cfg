\* The system may stop: requests are bounded.
SPECIFICATION FairSpec
CONSTANTS
  p1 = p1
  p2 = p2
  Peers = {p1, p2}
  MaxConns = 2
  MaxStreams = 3
  MaxPuts = 3
  MaxRecords = 2
  Scenarios <- MCScenarios
INVARIANTS
  TypeOK
  AttachmentOwned
  JoinedOrTold
  NobodyOverlooked
PROPERTY
  IdleSettles
CHECK_DEADLOCK FALSE
