SPECIFICATION FairSpec
CONSTANTS
  c1 = c1
  c2 = c2
  Candidate = {c1, c2}
  Blank = {c2}
  Edit = {e1}
  List <- Orders
  MaxCall = 2
  MaxFault = 2
  None = None
CHECK_DEADLOCK FALSE
INVARIANTS ApprovalHasItsRow DecidedOnceUnlessTogether RowsAreCounted FullAnswersAreTrue
PROPERTIES RequestsEnd
