\* The system may stop: every call has returned and the peers are silent.
SPECIFICATION FairSpec
CONSTANTS
  In = {i1}
  Out = {}
  Accepters = {a1}
  LnCloser = LnCloser
  Allowed = {i1}
  Backlog = 1
  Outage = FALSE
  None = None
PROPERTY
  NoneStranded
CHECK_DEADLOCK FALSE
