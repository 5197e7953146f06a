SPECIFICATION MCSpec
CONSTANTS
  Threads = {t1, t2, t3}
  Requests = {1, 2}
  InitialCount = 1
  MaximumCount = 2
  MaxPosts = 1
  MaxCancels = 1
  WRITING = 8
  MaxSets = 2
  MaxEventCancels = 1
  MaxLockCancels = 1
  NoThread = NoThread
  Timers = {a, b}
  LimitTimer = LimitTimer
  Wide = 12
  MaximumSleepTime = 1
  Delays = {3}
  Periods = {1}
  MaxLag = 2
SYMMETRY MCSymmetry
CHECK_DEADLOCK FALSE
INVARIANTS
  NothingLost
  FrontServed
  QueueSound
  StateCounts
  TypesOK
  DelaysMeetFireTimes
  NeverEarly
  OnePlace
PROPERTIES
  ReadersOrWriter
