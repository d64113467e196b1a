SPECIFICATION Spec
CONSTANTS
  g1 = g1
  g2 = g2
  t1 = t1
  t2 = t2
  Count = 2
  Gen = {g1}
  GenOf <- OneKey
  Sealed = {1}
  Own = {2}
  Tab = {t1, t2}
  InboxPage = 2
  ArchivePage = 1
  WalkPages = 2
  Attempts = 2
  MaxCrashes = 1
  MaxFails = 1
INVARIANTS
  AckedIsStored
  OpenedIsKept
PROPERTY ReadStaysRead
CONSTRAINT OneFault
SYMMETRY TabSymmetry
CHECK_DEADLOCK FALSE
