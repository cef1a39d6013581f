SPECIFICATION Spec
CONSTANTS
  NoPipe = NoPipe
  Channels = {c1}
  N = 7
  R = 2
  PipeCap = 1
  High = 2
  Burst = 1
INVARIANT NoStuckPause
