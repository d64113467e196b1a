SPECIFICATION LiveSpec
CONSTANTS
  a = a
  b = b
  c = c
  dm = dm
  hub = hub
  t1 = t1
  t2 = t2
  Message = {a, b}
  Conversation = {dm}
  ConvOf <- OneConversation
  Readable = {}
  Tab = {t1}
  NoTab = NoTab
  MaxKey = 2
  MaxLate = 1
  MaxRetries = 1
  MaxStops = 0
PROPERTY Settles
CHECK_DEADLOCK FALSE
