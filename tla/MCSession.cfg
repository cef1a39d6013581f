SPECIFICATION Spec
CONSTANTS
  a = a
  b = b
  Paths = {1, 2}
  Contents = {a, b}
  Content <- MCContent
  Durations <- MCDurations
  Growing = {2}
  Skip <- MCSkip
  HashMax = 1
  Limits <- MCLimits
INVARIANT OpenIsCurrent
INVARIANT Remembered
PROPERTY CursorKept
PROPERTY ChosenAsShown
PROPERTY ResumesThere
