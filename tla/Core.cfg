\* Local faults, crashes and replayed decisions under PROOF_REQUIRED, with a
\* broker whose answers arrive and announce no end that is yet to come: what
\* the ledger, the outcome and the receipts say of an order is true.
CONSTANTS
  MaxCycles = 2
  Faults = {"crash", "ledger_io", "ledger_torn", "receipt_io", "receipt_torn",
            "planner", "replay"}
  Policy = "REQUIRED"
  HasProof = TRUE
  HasLedger = TRUE
  Mode = "PAPER"
  Observations <- MCFewObservations
  ProposedActions <- MCActions
SPECIFICATION Spec
INVARIANTS
  TypeOK
  OpenOrdersVisible
  HonestOutcome
  ReceiptsTellTheTruth
  ChainIntact
CHECK_DEADLOCK FALSE
