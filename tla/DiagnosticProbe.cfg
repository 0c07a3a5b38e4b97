SPECIFICATION ProbeSpec
CONSTANTS
  Operations = {q1, q2, q3}
  Probes = {p1, p2}
  Bodies = {n1, n2}
  Entries = {e1, e2}
  None = None
  MaxFaults = 1
SYMMETRY Symmetry
CHECK_DEADLOCK FALSE
INVARIANTS
  CleanupIsExact
  AcceptedBodyIsObserved
PROPERTIES
  EndedProbesStayQuiet
