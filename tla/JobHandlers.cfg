SPECIFICATION FairSpec
CONSTANTS
  Procs = {p1, p2}
  p1 = p1
  p2 = p2
  Bookings = {b1}
  b1 = b1
  Orders = {o1}
  o1 = o1
  MaxAsked = 7
  MaxDisputes = 2
INVARIANTS PausedUnderReview JobsCountedOnce
PROPERTIES SevenDaysToAnswer SilenceCloses
CHECK_DEADLOCK FALSE
