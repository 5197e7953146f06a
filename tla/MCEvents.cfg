SPECIFICATION MCSpec
CONSTANTS
  t1 = t1
  t2 = t2
  t3 = t3
  Threads <- MCThreads
  MaxSpins = 1
  MaxFailures = 2
  Amounts = {1, 2}
  MaxState = 2
  Wide = 16
  MaxPhases = 3
  NULL = NULL
  ALERTED = ALERTED
CHECK_DEADLOCK FALSE
INVARIANTS
  OneInitialiser
  FalseMeansAvailable
  EventPromises
  AlerterPromises
  ReleasedAtZero
  WordCounts
  NobodyEarly
PROPERTIES
  WaitersLeave
