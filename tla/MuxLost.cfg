\* A joined connection may lose its membership without being told.
SPECIFICATION Spec
CONSTANTS
  p1 = p1
  p2 = p2
  Peers = {p1, p2}
  MaxConns = 2
  MaxStreams = 3
  MaxPuts = 3
  MaxRecords = 2
  Scenarios <- MCScenarios
INVARIANT
  AlwaysTold
CHECK_DEADLOCK FALSE
