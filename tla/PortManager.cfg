SPECIFICATION FairSpec
CONSTANTS
  c = c
  d = d
  m1 = m1
  m2 = m2
  m3 = m3
  None = None
  App = {c, d}
  Mon = {m1, m2, m3}
  Creator = c
  CanC = {"add", "remove", "notifyOn", "close"}
  CanD = {}
  CanM = {"writeArray"}
  CallsC = 5
  CallsD = 0
  CallsM = 1
  Can <- MCCan
  MaxCalls <- MCMaxCalls
  MaxInput = 1
  SlowListener = TRUE
  ReceiveTimeout = TRUE
CHECK_DEADLOCK FALSE
INVARIANTS
  NoOrphanLoop
PROPERTIES
  QuietAfterRemove
  RemoveReturns
