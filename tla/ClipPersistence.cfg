CONSTANTS
  Scan = {s1}
  Request = {r1, r2}
  Worker = {w1, w2}
  Limit = 2
  Optional = {"xtra", "outbound"}
  MaxAttempts = 2
  MaxScans = 2
  MaxFaults = 2
  s1 = s1
  r1 = r1
  r2 = r2
  w1 = w1
  w2 = w2
SPECIFICATION FairSpec
CHECK_DEADLOCK FALSE
INVARIANTS
  OneWorkerPerEvent
  NoWriteVanishes
PROPERTIES
  EventSettles
