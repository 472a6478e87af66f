SPECIFICATION RecoverySpec
CONSTANTS
  Provenance = "ACTUAL_BOUNDED_OPERATOR"
  Modes = {"dev-rehearsal"}
  Receipts <- MCReceipts
  Answers <- MCAnswers
  Approvals <- MCApprovals
  MaxFaults = 0
  MaxInterrupts = 0
  CollectionVersions = {"P8_COLLECTION_V2_QPC"}
  MaxRetries = 1
INVARIANTS
  RecoveredGazeIsReduced
CHECK_DEADLOCK FALSE
