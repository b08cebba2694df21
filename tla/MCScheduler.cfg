CONSTANTS
  digest = digest
  sync = sync
  old = old
  new = new
  hers = hers
  his = his
  Principals <- HersOrHis
  Schedulers <- Both
  Schedules <- TwoSchedules
  Broken <- DigestBroken
  Periods <- EverySecond
  Registrations <- Sent
  Batch = 2
  Window = 0
  Horizon = 2
  MaxEdits = 2
  MaxRewinds = 1
SPECIFICATION MCSpec
INVARIANTS
  PublishedOnce
  GridIsCovered
PROPERTIES
  DueIsNotSkipped
  OthersAreHandled
