\* Transport errors whose text holds 404.
CONSTANTS
  Threads = {t1}
  Free = Free
  Commands = {"STEP", "MONITOR"}
  MaxCalls = 2
  HistorySize = 2
  HasMonitor = TRUE
  HasMemory = FALSE
  Faults = {"misread"}
SPECIFICATION Spec
INVARIANTS
  GivenUpOrdersAreUnknown
CHECK_DEADLOCK FALSE
