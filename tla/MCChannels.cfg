SPECIFICATION MCSpec
CONSTANTS
  Threads = {t1, t2, t3}
  NoThread = NoThread
  Capacity = 1
  MaxItems = 4
  Length = 2
  Disposable = {1}
  MaxQueued = 2
  StreamCapacity = 2
  Sizes = {1, 3}
  MaxBytes = 4
  MaxExchanges = 4
  MaxMessages = 3
  MaxBuilt = 4
  MaxValues = 3
SYMMETRY MCSymmetry
CHECK_DEADLOCK FALSE
INVARIANTS
  NothingLostOrTwice
  InOrder
  NobodyStuckBeside
  BlocksLeave
