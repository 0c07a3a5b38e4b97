SPECIFICATION FairIngestSpec
CONSTANTS
  Videos = {v0, v1}
  Historical = {v0}
  Notifiers = {n1}
  Workers = {k1, k2}
  Operators = {o1}
  None = None
  MaxFaults = 1
CHECK_DEADLOCK FALSE
INVARIANTS
  ActivationIsExact
  OneWorkerPerChannel
PROPERTIES
  MissedIsFound
