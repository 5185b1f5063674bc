SPECIFICATION PreSpec
CONSTANTS
  Threads = {t1, t2}
  Files = {a, b, c}
  Fds <- MCFds
  Nodes = {n1, n2, n3}
  Nil = Nil
  MaxCalls = 5
SYMMETRY Symmetry
INVARIANTS
  ListSound
  PresetHolds
  ProbeAlone
PROPERTY
  OpenTakesOver
CHECK_DEADLOCK FALSE
