SPECIFICATION FairSpec
CONSTANTS
  t1 = t1
  t2 = t2
  m1 = m1
  m2 = m2
  None = None
  App = {t1, t2}
  Mon = {m1, m2}
  Lengths = {1, 2}
  Tries = 2
  MaxInput = 2
  MaxFlags = 1
  MaxCalls = 4
CHECK_DEADLOCK FALSE
INVARIANTS
  KeepsBytes
  ClosesOnce
PROPERTIES
  QuietAfterRemove
  LoopEnds
