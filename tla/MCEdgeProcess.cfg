CONSTANTS
  Dependencies = {"database"}
  Gating = {"database"}
  Requests = {r1, r2}
  Limit = 1
  Connections = 1
  MaxFlaps = 1
SPECIFICATION Spec
INVARIANTS
  ConcurrencyIsBounded
  GracefulServesAll
PROPERTIES
  GaugeSettles
  ShutdownEnds
CHECK_DEADLOCK FALSE
