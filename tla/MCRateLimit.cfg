CONSTANTS
  Callers = {"a", "b"}
  Limiters = {1, 2}
  Keys <- AllKeys
  KeyOf <- KeysOfTwo
  PerMinute <- Allowances
  Second = 2
  Minute = 1
  MaxTracked = 2
  MaxTime = 6
SPECIFICATION LimitsSpec
PROPERTIES
  RefillIsContinuous
CHECK_DEADLOCK FALSE
