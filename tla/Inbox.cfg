\* The system may stop: the session has ended, or nothing is posted.
SPECIFICATION FairSpec
CONSTANTS
  Ids = {s1, s2, s3}
  Callbacks = {c1, c2}
  MaxMailbox = 2
  MaxSeen = 2
  MaxDeliver = 5
INVARIANTS
  TypeOK
  RepeatsFarApart
  WakeupPending
  HandledNoGap
PROPERTY
  PostedIsHandled
CHECK_DEADLOCK FALSE
