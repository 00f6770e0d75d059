\* Every fault but the loss of the machine: what no failure can take away.
CONSTANTS
  MaxCycles = 2
  Faults = {"crash", "ledger_io", "ledger_torn", "receipt_io", "receipt_torn",
            "receipt_fsync", "lost_reply", "early_end", "planner", "replay"}
  Policy = "REQUIRED"
  HasProof = TRUE
  HasLedger = TRUE
  Mode = "PAPER"
  Observations <- MCFewObservations
  ProposedActions <- MCActions
SPECIFICATION Spec
INVARIANTS
  NoOrderWithoutAct
  AtMostOneSubmission
  IntentComesFirst
PROPERTIES
  NoContactWithoutProofStore
  ImplementsGovernedSubmission
CHECK_DEADLOCK FALSE
