\* The system may stop: every call has returned and the peers are silent.
SPECIFICATION FairSpec
CONSTANTS
  In = {i1}
  Out = {d1}
  Accepters = {a1}
  LnCloser = LnCloser
  Allowed = {i1}
  Backlog = 1
  Outage = FALSE
  None = None
INVARIANTS
  CloseReleasesAll
  CancelledDialReleased
PROPERTY
  CloseSettles
CHECK_DEADLOCK FALSE
