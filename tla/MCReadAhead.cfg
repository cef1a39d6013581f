SPECIFICATION FairSpec
CONSTANTS
  N = 3
  B = 2
  FileMax = 8
INVARIANTS
  TurnsKept
  PositionExact
PROPERTIES
  IsSequential
  JoinReturns
\* Both threads waiting for each other for ever is what JoinReturns excludes.
CHECK_DEADLOCK FALSE
