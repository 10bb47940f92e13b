SPECIFICATION ChainFairSpec
CONSTANTS
  ChainRuns = {c1, c2}
  c1 = c1
  c2 = c2
  PurgeRuns = {p1}
  p1 = p1
  Lag = 1
  Span = 1
  MaxRows = 2
  Retention = 5
  RunTime = 1
  MaxTime = 7
  RecordBy = 4
  MaxEntries = 3
  MaxDeaths = 1
INVARIANTS OneChain NoBrokenLink SealedForGood AlarmsPastRetention
PROPERTIES EntriesGetSealed RetentionKept
