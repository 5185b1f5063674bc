SPECIFICATION Spec
CONSTANTS
  t1 = t1
  t2 = t2
  t3 = t3
  p1 = p1
  p2 = p2
  Nobody = Nobody
  Unwritten = Unwritten
  Thread = {t1, t2, t3}
  Pid = {p1, p2}
  PidOf <- MCPidOf
  Parent <- MCParent
  MaxInode = 3
VIEW View
INVARIANTS
  ExclusiveUnlessRaced
  StaleMeansUnowned
PROPERTIES
  KeepsItsLock
