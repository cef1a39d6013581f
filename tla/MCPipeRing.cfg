SPECIFICATION FairSpec
CONSTANTS
  N = 4
  R = 2
  PipeCap = 1
  MaxChunk = 3
  MaxCmd = 1
  MaxOpen = 3
INVARIANTS
  RingSound
  HeldReservedNoPurge
  StaleAtMostOne
  NothingLost
PROPERTIES
  IsQueue
  Delivered
  ResetReturns
