SPECIFICATION FairSpec
CONSTANTS
  MaxBytes = 3
  BufferLength = 3
  Byte = {1, 2}
  Terminator <- MCTerminator
  Timeouts <- MCTimeouts
  Thresholds = {0, 3}
  Rounds = 2
CHECK_DEADLOCK FALSE
INVARIANTS
  BytesInOrder
  ReadTable
  TimeoutTold
PROPERTIES
  ReadReturns
