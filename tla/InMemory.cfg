\* The engine as its own defaults build it: no proof, no ledger, BEST_EFFORT.
CONSTANTS
  MaxCycles = 2
  Faults = {"crash", "early_end", "planner"}
  Policy = "BEST_EFFORT"
  HasProof = FALSE
  HasLedger = FALSE
  Mode = "SIM"
  Observations <- MCObservations
  ProposedActions <- MCActions
SPECIFICATION Spec
INVARIANTS
  NoOrderWithoutAct
  HonestOutcome
CHECK_DEADLOCK FALSE
