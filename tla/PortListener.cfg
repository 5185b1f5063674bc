SPECIFICATION FairSpec
CONSTANTS
  c = c
  d = d
  m1 = m1
  m2 = m2
  m3 = m3
  None = None
  App = {c, d}
  Mon = {m1, m2}
  Creator = c
  CanC = {"add", "notifyOn", "notifyOff"}
  CanD = {"read"}
  CanM = {"read", "close"}
  CallsC = 3
  CallsD = 1
  CallsM = 2
  Can <- MCCan
  MaxCalls <- MCMaxCalls
  MaxInput = 1
  SlowListener = FALSE
  ReceiveTimeout = TRUE
CHECK_DEADLOCK FALSE
PROPERTIES
  DataDelivered
  CloseReturns
  MonitorLockReleased
