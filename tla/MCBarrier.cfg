SPECIFICATION Spec
CONSTANTS
  Threads = {t1, t2, t3}
  Modes = {{"remove", "timeout"}}
  Wide = 16
  MaxPhases = 4
CHECK_DEADLOCK FALSE
INVARIANTS
  WordCounts
