SPECIFICATION CoapFairSpec
CONSTANTS
  Publishers = {p1, p2}
  Cap = 2
  PipeCap = 1
  MaxPublishes = 4
  MaxRequests = 1
INVARIANTS NoMissedWake NothingSkipped
PROPERTIES EventuallySent StopEnds
CHECK_DEADLOCK FALSE
