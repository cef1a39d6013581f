SPECIFICATION FairSpec
CONSTANTS
  p1 = p1
  p2 = p2
  Proc = {p1, p2}
  PosMax = 1
  Shift = 1
  RetryLimit = 2
  MaxEdits = 1
  MaxExt = 1
INVARIANTS
  Coherent
PROPERTIES
  Converges
\* Closed players and no edits left: nothing has to happen.
CHECK_DEADLOCK FALSE
