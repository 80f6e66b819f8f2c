SPECIFICATION Spec
CONSTANTS
  Lengths = {0, 126, 65536}
  RequestMax = 2
  MaxBinds = 2
  MaxConns = 2
  MaxWrites = 2
  MaxEnables = 1
INVARIANT ListenerKept
CHECK_DEADLOCK FALSE
