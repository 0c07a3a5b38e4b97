SPECIFICATION Spec
CONSTANTS
  Event = {e1, e2}
  Request = {r1, r2}
  Operator = {o1, o2}
  NoEvent = NoEvent
  MaxPosts = 3
  MaxFaults = 1
  MaxRebinds = 1
CHECK_DEADLOCK FALSE
INVARIANTS
  AnswersAreTrue
  SecondRunNeedsExpiry
  OneRowPerMessage
