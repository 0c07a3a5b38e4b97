SPECIFICATION Spec
CONSTANTS
  Callbacks = {c1, c2}
  Refreshers = {r1, r2}
  OAuthStates = {s1}
  Events = {e1, e2}
  None = None
  Ttl = 2
  Lease = 1
  CancelLease = 2
  AccessLife = 3
  Inspections = {"default"}
  MaxTime = 2
  MaxArrivals = 2
  MaxRefreshes = 2
  MaxFaults = 0
SYMMETRY Symmetry
CHECK_DEADLOCK FALSE
INVARIANTS
  ExpiryDoesNotPause
