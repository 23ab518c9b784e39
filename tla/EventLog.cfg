SPECIFICATION FairSpec
CONSTANTS
  Tuples = {t1, t2}
  Unlogged = {rst}
  ringCapacity = 2
  logFeedCapacity = 1
  logBatchCap = 2
  synAttemptWindow = 1
  MaxLag = 1
  MaxTime = 2
  MaxEvents = 3
INVARIANTS FeedAccounted RingHoldsLatest
PROPERTIES AttemptsAreRecent DropsReported
