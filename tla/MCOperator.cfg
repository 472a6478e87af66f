SPECIFICATION FairFlow
CONSTANTS
  Provenance = "ACTUAL_BOUNDED_OPERATOR"
  Modes = {"dev-rehearsal"}
  Receipts <- MCReceipts
  Answers <- MCAnswers
  Approvals = {}
  MaxFaults = 0
  MaxInterrupts = 1
  Configs <- MCConfigs
  MaxMishaps = 2
  MaxQueue = 2
INVARIANTS
    DrivesAreAccounted
PROPERTIES
    KeysAreHeeded
    SessionSpec
    QuitReturns
