\* Liveness: every call comes back.
CONSTANTS
  Threads = {t1, t2}
  Free = Free
  Commands = {"START", "TICK", "MONITOR"}
  MaxCalls = 2
  HistorySize = 2
  HasMonitor = TRUE
  HasMemory = FALSE
  Faults = {"engine", "poll", "misread", "early", "lost_reply", "unnamed"}
SPECIFICATION FairSpec
PROPERTIES
  CallsReturn
CHECK_DEADLOCK FALSE
