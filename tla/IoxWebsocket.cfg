SPECIFICATION FairSpec
CONSTANTS
  Lengths = {0, 126, 65536}
  RequestMax = 2
  MaxBinds = 2
  MaxConns = 2
  MaxWrites = 2
  MaxEnables = 1
INVARIANTS NoSocketLeak WholeMessages OneAfterEnd
PROPERTY AttachEnds
CHECK_DEADLOCK FALSE
