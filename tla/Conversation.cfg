SPECIFICATION ChatFairSpec
CONSTANTS
  r1 = r1
  r2 = r2
  r3 = r3
  None = None
  Request = {r1, r2, r3}
INVARIANT ContextStands
PROPERTY EveryChatEnds
CHECK_DEADLOCK FALSE
