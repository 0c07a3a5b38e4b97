CONSTANTS
  Kinds <- MCKinds
  Coupon = {c1, c2}
  Certificate = {x1, x2}
  Request = {r1, r2, r3}
  MaxRequests = 5
  None = None
  r1 = r1
  r2 = r2
  r3 = r3
  c1 = c1
  c2 = c2
  x1 = x1
  x2 = x2
SPECIFICATION Spec
SYMMETRY MCSymmetry
CHECK_DEADLOCK FALSE
INVARIANTS
  UsesAreAccountedFor
  CertificateHasOneClaim
PROPERTIES
  UseForgottenOnlyByStaleCopy
