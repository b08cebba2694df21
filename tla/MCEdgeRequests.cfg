CONSTANTS
  Routes <- AllRoutes
  Credentials <- AllCredentials
  Worlds <- SomeWorlds
  Paths <- SomePaths
  MaxChanges = 2
SPECIFICATION RequestSpec
INVARIANTS
  AuthorityWasThere
  UnauthenticatedMeansDead
  UploadsSettle
  PathStaysOnItsSite
CHECK_DEADLOCK FALSE
