SPECIFICATION Spec
CONSTANTS
  Kinds = {"mp4", "mmts", "ts", "packets", "growing"}
  Files <- MCFiles
  ReadSizes = {1, 5}
  SeekTimes = {0, 150, 299, 300, 450, 900}
  BlockMsec = 100
  CaptionForward = 500
  CcMod = 4
  EitPeriod = 2
  TotPeriod = 3
  BlockListMax = 1000
  PsiMax = 3
  Wrap = 100000
  Movies <- MCMovies
  ChunkSize = 3
  TsReadSizes = {1, 3}
  MovieTimes = {0, 2, 5, 10}
  RewindSize = 3
  Last = 6
  Gap = 8
  Steps <- MCSteps
  Wanted = {2, 8, 14, 20, 26}
  Second = 2
  Tol = 6
  Store = 1
  Tries = 6
  Recordings <- MCStreams
  Written = {0, 5, 8}
  UnitSize = 2
  ReadLengths = {1, 5}
  SendMax = 6
  Interval = 2
  SyncLen = 2
  ResyncMax = 2
  Limit = 4
  PidsMax = 1
  Elects = 2
  Replaces = 3
  Recorded = {12}
  Rate = 1
  RenewSize = 6
  RenewFsr = 2
  BufSize = 2
  Calls = {1, 3}
  Speeds = {1, 2}
  Backs = {4, 9, 12}
  Reserve = 7
  BreakMax = 2
  TimeMax = 14
INVARIANT AllMade
INVARIANT WindowReaches
INVARIANT CutRight
INVARIANT SeekLands
INVARIANT SeekFinds
INVARIANT SentRight
INVARIANT LengthTracks
INVARIANT AheadInside
PROPERTY IsPlainFile
