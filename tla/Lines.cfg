SPECIFICATION LinesSpec
CONSTANTS
  Reader = reader
  Waiters = {reader}
  InitialCount = 0
  MaxCountArg = 1
  MaxPosts = 6
  Capacity = 1
  BufLen = 1
  MaxTasks = 2
  MaxBytes = 3
  MaxEnables = 1
  ReadMax = 1
  FrameMax = 2
INVARIANTS NoLostWakeup UnitsConserved GapReported NoStall FailureTold
CHECK_DEADLOCK FALSE
