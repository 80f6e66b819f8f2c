SPECIFICATION FairSpec
CONSTANTS
  Callers = {c1, c2}
  Starters = {c1}
  Stoppers = {c1, c2}
  Joiners = {c1}
  MaxThreads = 3
INVARIANTS OneThread DisposedUnused
PROPERTIES StartMeansReady StartReturns StopThenJoin
CHECK_DEADLOCK FALSE
