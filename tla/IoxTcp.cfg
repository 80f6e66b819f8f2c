SPECIFICATION Spec
CONSTANTS
  Capacity = 1
  ChunkMax = 1
  BufLen = 1
  MaxSessions = 2
  MaxBytes = 4
  MaxEnables = 1
  MayFailTask = TRUE
INVARIANTS DeliveredInOrder LiveSessionConnected GapReported NoStall DisconnectTold
CHECK_DEADLOCK FALSE
