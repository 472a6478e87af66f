SPECIFICATION RecoverySpec
CONSTANTS
  Provenance = "ACTUAL_BOUNDED_OPERATOR"
  Modes = {"dev-rehearsal"}
  Receipts <- MCReceipts
  Answers <- MCAnswers
  Approvals <- MCApprovals
  MaxFaults = 1
  MaxInterrupts = 0
  CollectionVersions = {"P8_COLLECTION_V1", "P8_COLLECTION_V2_QPC"}
  MaxRetries = 1
INVARIANTS
    RecoveryIsHonest
PROPERTIES
    EvidencePreserved
    DurableSpec
    SupervisorFinishes
CHECK_DEADLOCK FALSE
