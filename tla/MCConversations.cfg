SPECIFICATION FairSpec
CONSTANTS
  Conversation = {c1}
  Session = {s1}
  Worker = {w1, w2}
  Scheduled = {w1}
  MaxCall = 3
  Window = 1
  Capacity = 1
  Limit = 1
  MaxFault = 1
  None = None
CHECK_DEADLOCK FALSE
INVARIANTS TypeOK AnswersFollowTheirHistory LoneAnswersAreStored AuditedIsExpired
PROPERTIES DueIsExpiredAtLast
