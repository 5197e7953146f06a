SPECIFICATION Spec
CONSTANTS
  Threads = {t1, t2, t3}
  NULL = NULL
  ALERTED = ALERTED
CHECK_DEADLOCK FALSE
INVARIANTS
  NobodyUnalerted
