SPECIFICATION FairSpec
CONSTANTS
  NoPipe = NoPipe
  Channels = {c1}
  N = 7
  R = 2
  PipeCap = 1
  High = 2
  Burst = 1
INVARIANTS
  CleanSeek
  GaplessKeeps
  PauseAgrees
PROPERTY SenderReturns
