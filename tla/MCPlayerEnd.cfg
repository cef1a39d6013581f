SPECIFICATION Spec
CONSTANTS
  Files = 2
  Len_ = 2
  Watched <- NoWatched
  Jump <- NoJump
  W = 2
  MaxOpen = 2
  Begins <- TwoCommands
  MaxPost = 1
\* TVTest may be closed, and a closed player waits for the user.
CHECK_DEADLOCK FALSE
INVARIANT AutoCloseAtEnd
