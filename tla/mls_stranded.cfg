SPECIFICATION LiveSpec
CONSTANTS
  a = a
  b = b
  Device = {1, 2}
  Tab = {a, b}
  Of <- TabOf
  MaxChanges = 1
  MaxTrouble = 0
  MaxLost = 1
  MaxEpoch = 4
PROPERTIES
  NotStrandedForGood
CHECK_DEADLOCK FALSE
