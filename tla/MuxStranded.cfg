\* A leave that overlaps a join of the same peer strands the record.
SPECIFICATION Spec
CONSTANTS
  p1 = p1
  p2 = p2
  Peers = {p1, p2}
  MaxConns = 2
  MaxStreams = 3
  MaxPuts = 3
  MaxRecords = 2
  Scenarios <- Reopened
INVARIANT
  NeverStranded
CHECK_DEADLOCK FALSE
