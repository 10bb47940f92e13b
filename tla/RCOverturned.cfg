SPECIFICATION Spec
CONSTANTS
  Procs = {p1}
  p1 = p1
  m1 = m1
  Members = {m1}
  MaxCases = 2
  MaxReports = 3
  MaxAsked = 5
  REOPEN_AFTER_NEW_REPORTERS = 2
SYMMETRY Symmetry
INVARIANT OverturnedIsUndone
CHECK_DEADLOCK FALSE
