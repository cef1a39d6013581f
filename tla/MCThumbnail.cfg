SPECIFICATION FairSpec
CONSTANTS
  Keys = {1, 2}
  Widths = {1, 2}
  CacheMax = 1
  MaxThreads = 2
  MaxShows = 2
  MaxMsgs = 1
INVARIANTS
  ImagesRight
  NoThreadLeft
PROPERTIES
  DestroyReturns
  Answered
\* Disabled for good, or every file opened and every move made: nothing has to happen.
CHECK_DEADLOCK FALSE
