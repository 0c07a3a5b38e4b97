SPECIFICATION Spec
CONSTANTS
  Requests = {q1, q2, q3}
  Checks = {v1, v2}
  Rows = {w1, w2}
  OAuthStates = {s1, s2}
  None = None
  MaxFaults = 2
SYMMETRY Symmetry
CHECK_DEADLOCK FALSE
INVARIANTS
  ChannelIsConsistent
  DispatchesAreAccountedFor
