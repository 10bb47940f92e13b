SPECIFICATION Spec
CONSTANTS
  Procs = {p1, p2}
  p1 = p1
  p2 = p2
  m1 = m1
  m2 = m2
  Members = {m1, m2}
  MaxCases = 2
  MaxReports = 3
  MaxAsked = 6
  REOPEN_AFTER_NEW_REPORTERS = 2
SYMMETRY Symmetry
INVARIANTS OneLiveCase NoReportLost
PROPERTY ToldOnce
CHECK_DEADLOCK FALSE
