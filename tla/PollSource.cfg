CONSTANTS
  Source = {1}
  Worker = {w1, w2}
  Concurrency = 1
  Limit = 1
  Lease = 1
  Interval = 1
  PageDelay = 0
  LastBackoff = 1
  Backoff <- MCBackoff
  RetryAfter = {}
  MaxTime = 1
  MaxEvents = 1
  MaxVideo = 3
  PageSize = 1
  NoTime = NoTime
  NoOwner = NoOwner
  w1 = w1
  w2 = w2
SPECIFICATION FairSpec
INVARIANTS
  PollsAreFenced
  NothingMissed
PROPERTIES
  CheckpointNeverRegresses
  DueIsPolled
