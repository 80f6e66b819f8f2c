SPECIFICATION FairSpec
CONSTANTS
  MasterMax = 2
  SlaveMax = 2
  MasterCap = 1
  SlaveCap = 1
  BufLen = 2
  MaxBytes = 3
  MaxConns = 2
  MaxCalls = 2
INVARIANTS StreamToMaster AckedArrives
PROPERTIES WriteReturns PublishedFetched
CHECK_DEADLOCK FALSE
