SPECIFICATION Spec
CONSTANTS
  c = c
  d = d
  m1 = m1
  m2 = m2
  m3 = m3
  None = None
  App = {c, d}
  Mon = {m1, m2}
  Creator = c
  CanC = {"add", "notifyOn", "read", "close"}
  CanD = {"close", "write"}
  CanM = {"available", "close"}
  CallsC = 3
  CallsD = 2
  CallsM = 1
  Can <- MCCan
  MaxCalls <- MCMaxCalls
  MaxInput = 1
  SlowListener = TRUE
  ReceiveTimeout = TRUE
CHECK_DEADLOCK FALSE
SYMMETRY MonSymmetry
INVARIANTS
  CountsIo
  NeverClosesTwice
PROPERTIES
  CloseWaitsForIo
