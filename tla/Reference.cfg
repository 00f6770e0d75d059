\* The reference planner on the observation that supports an order and on
\* those that differ from it in one component, a broker that may never answer,
\* and a process that may die: cycles end, and orders rest on an observation
\* that supports them.
CONSTANTS
  MaxCycles = 2
  Faults = {"power", "ledger_io", "receipt_io", "lost_reply"}
  Policy = "REQUIRED"
  HasProof = TRUE
  HasLedger = TRUE
  Mode = "PAPER"
  Observations <- MCObservations
  ProposedActions <- MCActions
SPECIFICATION FairSpec
PROPERTIES
  OrderOnSoundState
  CycleReturns
CHECK_DEADLOCK FALSE
