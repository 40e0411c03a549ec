\* The system may stop: requests, packets and time are bounded.
SPECIFICATION Spec
CONSTANTS
  Configs <- MCConfigs
  Names <- MCNames
  Handlers = {h1, h2}
  MaxAllocs = 3
  MinBurst = 2
  DefaultDelay = 1
  MaxTime = 3
  Loads <- MCLoads
INVARIANTS
  TypeOK
  NoListenerLeft
  QuotaBounded
  WithinBudget
PROPERTY
  RefusedOnlyWhenFull
CHECK_DEADLOCK FALSE
