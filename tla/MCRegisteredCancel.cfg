SPECIFICATION Spec
CONSTANTS
  Users = {u, v}
  TimerThread = TimerThread
  MaxPosts = 1
  NoThread = NoThread
INVARIANTS
  CancelCanLock
