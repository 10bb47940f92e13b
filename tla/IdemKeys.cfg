SPECIFICATION FairSpec
CONSTANTS
  Clients = {c1, c2, c3}
  c1 = c1
  c2 = c2
  c3 = c3
  Bodies = {b1, b2}
  b1 = b1
  b2 = b2
  MaxDeaths = 2
INVARIANTS OneOwner AppliedOnce OneAnswer
PROPERTIES AnswerStands NobodyLockedOut
CHECK_DEADLOCK FALSE
