SPECIFICATION RequestSpec
CONSTANTS
  Requests <- MCRequests
  Capacity = 4
  MaxBody = 3
INVARIANTS BodyExact OneAnswer
CHECK_DEADLOCK FALSE
