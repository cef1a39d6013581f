SPECIFICATION FairSpec
CONSTANTS
  Files = 2
  Len_ = 2
  Watched <- MCWatched
  Jump <- MCJump
  W = 2
  MaxOpen = 2
  Begins <- MCBegins
  MaxPost = 1
\* TVTest may be closed, and a closed player waits for the user.
CHECK_DEADLOCK FALSE
INVARIANTS
  ResetsRight
  NoDataBeforeInit
PROPERTIES
  CloseReturns
  ResetFollowsSeek
  EndMovesOn
