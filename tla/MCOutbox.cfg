CONSTANTS
  m1 = m1
  m2 = m2
  old = old
  new = new
  MaxBackoff = 2
  Publishers <- Both
  Lease = 2
  Longest = 2
  Msgs <- Two
  Batch = 2
  MaxAttempts = 2
SPECIFICATION MCSpec
INVARIANTS
  NothingIsLost
PROPERTIES
  DeadLetterStays
  EveryMessageIsSettled
