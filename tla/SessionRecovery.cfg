\* The system may stop: both ends are closed.
SPECIFICATION Spec
CONSTANTS
  Settings <- MCPlain
  MaxPending = 0
INVARIANT
  RecoveryBounded
CHECK_DEADLOCK FALSE
