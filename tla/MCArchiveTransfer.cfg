CONSTANTS
  Requests = {r1, r2}
  Openers = {r1}
  Uploaders = {r2}
  Uploads <- LastMaySpoil
  Tokens = {1, 2}
  Parts = 2
  MaxFaults = 1
SPECIFICATION Spec
INVARIANTS
  StoredMeansReceived
  OnlyTornFilesStray
PROPERTIES
  LiveBytesStay
  LeftoversGo
