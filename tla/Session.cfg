\* The system may stop: both ends are closed.
SPECIFICATION FairSpec
CONSTANTS
  Settings <- MCSettings
  MaxPending = 1
INVARIANTS
  TypeOK
  CandidatesKept
  WaitsAreBounded
  ProbeScheduled
  GenerationsOrdered
PROPERTY
  NoHalfOpen
CHECK_DEADLOCK FALSE
