SPECIFICATION Spec
CONSTANTS
  a = a
  b = b
  c = c
  dm = dm
  hub = hub
  t1 = t1
  t2 = t2
  Message = {a, b}
  Conversation = {dm}
  ConvOf <- OneConversation
  Readable = {}
  Tab = {t1, t2}
  NoTab = NoTab
  MaxKey = 2
  MaxLate = 0
  MaxRetries = 0
  MaxStops = 1
INVARIANTS
  NeverLost
  ShownSentIsSent
PROPERTY OrderedOnce
SYMMETRY Symmetry
CHECK_DEADLOCK FALSE
