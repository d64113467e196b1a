SPECIFICATION LiveSpec
CONSTANTS
  a = a
  b = b
  Device = {1, 2}
  Tab = {a, b}
  Of <- TabOf
  MaxChanges = 1
  MaxTrouble = 1
  MaxLost = 1
  MaxEpoch = 4
INVARIANTS
  OneLog
PROPERTIES
  NeverRollsBack
  Converges
CHECK_DEADLOCK FALSE
