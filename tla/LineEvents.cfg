SPECIFICATION FairSpec
CONSTANTS
  Lines <- MCLines
  Counters <- MCCounters
  Start = {2}
  W = 3
  MaxErrors = 2
INVARIANTS
  NoPhantomErrors
PROPERTIES
  TellsInTurn
  LinesSettle
  ErrorsTold
