CONSTANTS
  draining = draining
  started = started
  phone = phone
  laptop = laptop
  NoOne = NoOne
  Edges <- TwoEdges
  Clients <- OneClient
  Page = 1
  Ties = 2
  MaxClock = 1
  MaxFaults = 3
  Eager = TRUE
SPECIFICATION FairStreamSpec
INVARIANTS
  NothingMissed
PROPERTIES
  OutcomeArrives
CHECK_DEADLOCK FALSE
