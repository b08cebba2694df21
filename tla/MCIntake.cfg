CONSTANTS
  k1 = k1
  b1 = b1
  b2 = b2
  a1 = a1
  a2 = a2
  Keys <- OneKey
  Attempts <- Two
  Ids <- ThreeIds
  Doors <- AllDoors
  Bodies <- TwoBodies
  TTL = 1
  Longest = 2
SPECIFICATION MCSpec
INVARIANTS
  AcceptedWhole
PROPERTIES
  ImplementsStore
  EveryAttemptEnds
