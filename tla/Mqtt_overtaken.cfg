SPECIFICATION Spec
CONSTANTS
  c1 = c1
  t1 = t1
  Callers = {c1}
  Topics = {t1}
  TopicOf <- OneCaller
  MaxCalls = 1
  MaxConnects = 1
INVARIANT TimeoutMeansSilence
CHECK_DEADLOCK FALSE
