SPECIFICATION Spec
CONSTANTS
  Procs = {p1}
  p1 = p1
  m1 = m1
  m2 = m2
  Members = {m1, m2}
  MaxCases = 2
  MaxReports = 3
  MaxAsked = 5
  REOPEN_AFTER_NEW_REPORTERS = 2
SYMMETRY Symmetry
INVARIANT SettledIsTold
CHECK_DEADLOCK FALSE
