SPECIFICATION FairSpec
CONSTANTS
  Procs = {p1, p2}
  p1 = p1
  p2 = p2
  MaxDevices = 2
  MaxSids = 2
  MaxSuspensions = 2
  MaxAsked = 4
  MaxFaults = 1
  JWT_ACCESS_EXPIRY = 1
  TERM = 1
  MAX_ACTIVE_SESSIONS = 1
INVARIANTS SignedOutStaysOut EndedNeverRefreshes
PROPERTIES ExpiryUndoesNothing SuspensionEnds
CHECK_DEADLOCK FALSE
