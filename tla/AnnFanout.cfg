SPECIFICATION FairSpec
CONSTANTS
  Members = {1, 2}
  Audiences <- MCAudiences
  OptedOut = {1}
  AUDIENCE_FLOOR = 2
  BATCH = 1
  ATTEMPTS = 2
  Calls = {c1, c2}
  c1 = c1
  c2 = c2
  Workers = {w1, w2}
  w1 = w1
  w2 = w2
  MaxFaults = 1
INVARIANTS OneFanoutAtATime CancelStopsTheRest
PROPERTIES SentMeansEveryone QueuedSendEnds
CHECK_DEADLOCK FALSE
