CONSTANTS
  Verticals <- MCVerticals
  Quantity <- MCQuantity
  Request = {r1, r2, r3}
  Scan = {s1, s2}
  Phone = {p1, p2}
  MaxRequests = 4
  None = None
  r1 = r1
  r2 = r2
  r3 = r3
  s1 = s1
  s2 = s2
  p1 = p1
  p2 = p2
SPECIFICATION Spec
SYMMETRY MCSymmetry
CHECK_DEADLOCK FALSE
INVARIANTS
  UnitsAreExact
  SecondUnitNeedsTrouble
  CertificatesMatchMembers
