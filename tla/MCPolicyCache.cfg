SPECIFICATION FairSpec
CONSTANTS
  w1=w1 w2=w2 k1=k1
  Worker = {w1, w2}
  Call = {k1}
  Home <- AllAtOne
  TTL = 2
  Slow = 1
  MaxInbox = 1
  FailOpen = FALSE
  Gone = Gone
  None = None
INVARIANTS ClearedOnceTold
PROPERTIES ExposedWithinTTL HiddenAtLast
