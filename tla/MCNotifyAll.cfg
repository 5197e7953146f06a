SPECIFICATION MonitorSpec
CONSTANTS
  Threads = {t1, t2}
INVARIANTS
  NobodyLeftWaiting
