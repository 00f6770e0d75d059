\* Two threads, every command and every exception.
CONSTANTS
  Threads = {t1, t2}
  Free = Free
  Commands = {"STEP", "START", "STOP", "RESET", "MONITOR", "TICK"}
  MaxCalls = 3
  HistorySize = 2
  HasMonitor = TRUE
  HasMemory = TRUE
  Faults = {"engine", "observation", "unavailable", "memory"}
SPECIFICATION Spec
SYMMETRY MCThreads
INVARIANTS
  TypeOK
  OneAtATime
  TickCycleOnlyWhileRunning
  AnswersHangTogether
  OpenOrdersFollowed
  EndsAreTold
  StepsRemember
CHECK_DEADLOCK FALSE
