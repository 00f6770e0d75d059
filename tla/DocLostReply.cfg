\* An answer to the submission is lost and the receipt cannot be written.
CONSTANTS
  MaxCycles = 2
  Faults = {"lost_reply", "receipt_io"}
  Policy = "REQUIRED"
  HasProof = TRUE
  HasLedger = TRUE
  Mode = "PAPER"
  Observations <- MCFewObservations
  ProposedActions = {"BUY"}
SPECIFICATION Spec
INVARIANT
  AbstentionHasNoEffect
CHECK_DEADLOCK FALSE
