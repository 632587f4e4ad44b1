CONSTANTS
  once = once
  wait = wait
  other = other
  w1 = w1
  w2 = w2
  Tasks = {once, wait, other}
  ExternalTasks = {once, wait}
  OnceTasks = {once}
  Start = once
  Workers = {w1, w2}
  NoWorker = NoWorker
  MaxEpoch = 1
  MaxAnswers = 2
  MaxClaims = 2
  MaxLapses = 1
  MaxVerbs = 2
SPECIFICATION FairSpec
INVARIANTS TypeOK ResolvedIsUsed ConsumedOnceInOrder HandedOnce ClaimOfThisArming LostIsEarned
PROPERTIES AnsweredByHolder ResolvedAdvances
CHECK_DEADLOCK FALSE
