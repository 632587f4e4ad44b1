CONSTANTS
  once = once
  wait = wait
  other = other
  w1 = w1
  w2 = w2
  Tasks = {once, wait, other}
  ExternalTasks = {once, wait}
  OnceTasks = {once}
  Start = once
  Workers = {w1, w2}
  NoWorker = NoWorker
  MaxEpoch = 0
  MaxAnswers = 1
  MaxClaims = 1
  MaxLapses = 0
  MaxVerbs = 2
SPECIFICATION Spec
INVARIANTS SignalFound
CHECK_DEADLOCK FALSE
