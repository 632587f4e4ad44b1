SPECIFICATION Spec
CONSTANTS
  Workers = {w1}
  Rows = {r1}
  NoWorker = NoWorker
  LeaseDuration = 4
  PollEvery = 2
  MaxGap = 1
  MaxTime = 7
CHECK_DEADLOCK FALSE
INVARIANT LeaseFloor
PROPERTY NeverOwn
