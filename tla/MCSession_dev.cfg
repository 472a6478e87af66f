SPECIFICATION FairSpec
CONSTANTS
  Provenance = "DEV_STUB"
  Modes = {"accelerated", "participant"}
  Receipts <- MCReceipts
  Answers <- DevAnswers
  Approvals = {}
  MaxFaults = 2
  MaxInterrupts = 1
INVARIANTS
    ProtocolOrder
    HonestCompletion
    RecordsAreSettled
PROPERTIES
    HistoryFrozen
CHECK_DEADLOCK FALSE
