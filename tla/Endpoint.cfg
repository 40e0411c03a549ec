\* The system may stop: every call has returned and the peers are silent.
SPECIFICATION Spec
SYMMETRY Symmetry
CONSTANTS
  In = {i1, i2, i3}
  Out = {}
  Accepters = {a1}
  LnCloser = LnCloser
  Allowed = {i1, i2, i3}
  Backlog = 2
  Outage = TRUE
  None = None
INVARIANTS
  TypeOK
  SlotsMatch
  QueueHasRoom
CHECK_DEADLOCK FALSE
