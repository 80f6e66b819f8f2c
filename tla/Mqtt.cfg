SPECIFICATION FairSpec
CONSTANTS
  c1 = c1
  t1 = t1
  Callers = {c1}
  Topics = {t1}
  TopicOf <- OneCaller
  MaxCalls = 2
  MaxConnects = 2
 
INVARIANT ConfirmedOrLost
PROPERTY SubscribeReturns
CHECK_DEADLOCK FALSE
