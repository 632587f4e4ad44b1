CONSTANTS
  r = r
  a = a
  b = b
  a1 = a1
  Ids = {r, a}
  NoId = NoId
  Root = r
  Parent <- ParentOf
  Stack <- StackOf
  MaxAttempts = 1
  MaxEpoch = 1
  MaxVerbs = 3
  Retriers = 2
SPECIFICATION Spec
PROPERTIES PausedNeedsResume
CHECK_DEADLOCK FALSE
