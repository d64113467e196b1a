SPECIFICATION Spec
CONSTANTS
  t1 = t1
  t2 = t2
  Tab = {t1, t2}
  MaxSlots = 2
  MaxTurns = 2
INVARIANT SocketIsLeaderships
CHECK_DEADLOCK FALSE
