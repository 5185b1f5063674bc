SPECIFICATION Spec
CONSTANTS
  a = a
  b = b
  c = c
  t1 = t1
  t2 = t2
  Files = {a, b, c}
  Threads = {t1, t2}
  Sizes = {1, 2}
  MaxQueue = 2
  MaxCalls = 4
SYMMETRY Symmetry
CHECK_DEADLOCK FALSE
INVARIANTS
  OwnPort
  MaskKept
  TxRemembered
  ReadWhole
  BreakHeld
