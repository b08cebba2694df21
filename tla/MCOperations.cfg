CONSTANTS
  NoOne = NoOne
  Operation <- MCOperation
  Report <- MCReport
  Ops = {"capture", "import", "connect"}
  Msgs <- AllMsgs
  StaleAfter = 1
  Batch = 1
  Horizon = 1
  MaxClock = 3
SPECIFICATION MCSpec
INVARIANTS
  HistoryTellsTheStatus
  EachReportCountsOnce
  OnlyItsServiceIsBelieved
PROPERTIES
  ImplementsLifecycle
  EveryOperationEnds
  FreshFactWins
CHECK_DEADLOCK FALSE
