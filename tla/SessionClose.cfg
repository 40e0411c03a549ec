\* The system may stop: both ends are closed.
SPECIFICATION Spec
CONSTANTS
  Settings <- MCPlain
  MaxPending = 0
INVARIANT
  CloseIsEOF
CHECK_DEADLOCK FALSE
