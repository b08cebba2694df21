CONSTANTS
  r1 = r1
  r2 = r2
  Requests <- TwoRequests
  Assertions = {"a", "b"}
  Users = {1, 2}
  Codes = {"c"}
  Relays = {"y"}
  Manifests <- TwoManifests
  Hostname <- Hostnames
  MaxChanges = 2
SYMMETRY RequestSymmetry
SPECIFICATION Spec
INVARIANTS
  OnePerson
  HandedOnce
  NewestToldIsStored
CHECK_DEADLOCK FALSE
