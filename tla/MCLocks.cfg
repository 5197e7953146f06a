SPECIFICATION LocksSpec
CONSTANTS
  u1 = u1
  u2 = u2
  apc = apc
  Unparkers <- MCUnparkers
  Apcs <- MCApcs
  MaxCount = 2
  MaxSpins = 1
  Users = {u, v}
  ClockThread = ClockThread
  Dues = {"zero", "finite", "infinite"}
  Periods = {0, 1}
  SetAlone = TRUE
  MaxPosts = 2
  NoThread = NoThread
  Timers = {a, b}
  LimitTimer = LimitTimer
  Wide = 9
  MaximumSleepTime = 1
  Delays = {2}
  MaxLag = 2
  LockUsers = {t1, t2, t3}
  MaxCancels = 1
CHECK_DEADLOCK FALSE
INVARIANTS
  NoLostWakeup
  NoDanglingBlock
PROPERTIES
  Exclusive
  FairExclusive
  LockWaitsEnd
