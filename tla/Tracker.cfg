SPECIFICATION MCSpec
CONSTANTS
  Txs = {"report", "decision", "action"}
  Roots = {"report"}
  Sends <- MCSends
  Outcomes = {"UNDETERMINED"}
  MaxAppeals <- MCMaxAppeals
  Pollers = {"first", "second"}
  Watches <- MCWatches
  Settings <- MCSettings
  MaxDepth = 1
  NoTx = "none"
INVARIANTS TrackerTypeOK NeverAheadOfChain CompleteIsComplete CompleteTraceHasAll
PROPERTIES FinalIsKept GraphIsRecorded
CHECK_DEADLOCK FALSE
