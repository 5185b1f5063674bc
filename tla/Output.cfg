SPECIFICATION FairSpec
CONSTANTS
  writer = writer
  listener = listener
  Writers = {writer}
  Listener = listener
  MaxCalls = 3
  MaxOut = 1
CHECK_DEADLOCK FALSE
INVARIANTS
  LastRound
  EventsPerWrite
PROPERTIES
  StopReturns
  WriteReported
