SPECIFICATION Spec
CONSTANTS
  Threads = {t1, t2}
  NoThread = NoThread
  MaxMessages = 2
CHECK_DEADLOCK FALSE
INVARIANT
  TokenMeansReply
