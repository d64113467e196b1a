SPECIFICATION LiveSpec
CONSTANTS
  t1 = t1
  t2 = t2
  Tab = {t1, t2}
  MaxSlots = 2
  MaxTurns = 3
INVARIANTS
  InElection
  FormerLeaderStops
PROPERTY SomebodySyncs
CHECK_DEADLOCK FALSE
