CONSTANTS
  Messages = {1, 2}
  Kind <- Kinds
  Clients = {c}
  PerSite = 1
  WindowEvents = 1
  WindowAge = 1
  StreamAge = 1
  InboxAge = 1
  MaxClock = 2
  MaxRestarts = 1
SPECIFICATION SiteSpec
INVARIANTS
  AppliedOnce
  NoSilentGap
PROPERTIES
  CatchesUp
  OwnerStreamEnds
CHECK_DEADLOCK FALSE
