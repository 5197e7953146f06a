SPECIFICATION MCSpec
CONSTANTS
  Threads = {t1, t2, t3}
  x = x
  y = y
  Waitables <- MCWaitables
  AnyArrays <- MCAnyArrays
  AllArrays <- MCAllArrays
  MaxCount = 1
  NoThread = NoThread
  NULL = NULL
  ALERTED = ALERTED
  Locks = {l1, l2}
  NoLock = NoLock
  WRITING = 8
  MaxDepth = 2
SYMMETRY MCSymmetry
INVARIANTS
  NothingLost
  WaitAllCounts
  NobodyStuckBeside
  BlocksLeave
  NobodyForgotten
