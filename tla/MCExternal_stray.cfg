CONSTANTS
  once = once
  wait = wait
  other = other
  w1 = w1
  w2 = w2
  Tasks = {once, wait, other}
  ExternalTasks = {once, wait}
  OnceTasks = {once}
  Start = once
  Workers = {w1, w2}
  NoWorker = NoWorker
  MaxEpoch = 1
  MaxAnswers = 1
  MaxClaims = 1
  MaxLapses = 1
  MaxVerbs = 0
SPECIFICATION Spec
INVARIANTS ParkedIsArmed
CHECK_DEADLOCK FALSE
