SPECIFICATION FairSpec
CONSTANTS
  MaxSlots = 2
  Conns = {k1, k2, k3}
INVARIANTS CountMatches ClosedExactlyOnce SlotOutlivesThread
PROPERTIES ConnectionEnds StoppedServerJoins
CHECK_DEADLOCK FALSE
