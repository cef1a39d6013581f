SPECIFICATION Spec
CONSTANTS
  Files <- MCPaused
  ReadSizes = {1, 5}
  SeekTimes = {0, 150, 299, 300, 450, 900}
  BlockMsec = 100
  CaptionForward = 500
  CcMod = 4
  EitPeriod = 2
  TotPeriod = 3
  BlockListMax = 1000
  PsiMax = 3
  Wrap = 100000
PROPERTY IsPlainFile
