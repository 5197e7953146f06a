SPECIFICATION Spec
CONSTANTS
  Threads = {t1, t2}
  Length = 2
  Ranges <- LastAlone
  Disposable = {}
  MaxItems = 2
CHECK_DEADLOCK FALSE
INVARIANT
  ItemsInOnePlace
