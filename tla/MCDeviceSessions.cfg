CONSTANTS
  Requests = {r1, r2}
  Codes = {1, 2}
  Devices = {1}
  Sessions = {1, 2, 3}
  Links = {1, 2, 3}
  Kinds = {mobile, agent}
  Budget = 1
  MaxWhys = 1
  MaxLapsed = 1
  Pins = {mobile}
SYMMETRY RequestSymmetry
SPECIFICATION Spec
INVARIANTS
  OneLiveLink
  CredentialFollowsLink
  DeadDeviceIsSilent
