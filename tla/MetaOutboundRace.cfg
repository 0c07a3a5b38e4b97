CONSTANTS
  Outbound = {1}
  Worker = {w1, w2}
  Attempt = {a1, a2, a3}
  Concurrency = 2
  Limit = 1
  StaleAfter = 1
  MaxAttempt = 2
  RetryAfter = {0}
  MaxTime = 1
  MaxFaults = 2
  Backoff <- MCBackoff
  NoTime = NoTime
  NoToken = NoToken
  w1 = w1
  w2 = w2
  a1 = a1
  a2 = a2
  a3 = a3
SPECIFICATION FairSpec
INVARIANTS
  RowsStayAuthoritative
  AttemptHasOneOwner
  AttemptSentOnce
  OverlapNeedsStaleCycle
PROPERTIES
  ConfirmedNotResentByItsProcess
  ImplementsLedger
  NothingStaysPut
