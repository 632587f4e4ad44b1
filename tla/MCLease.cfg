CONSTANTS
  Workers = {w1, w2}
  Instances = {i1}
  NoWorker = NoWorker
  Tasks = {sw, once, delay}
  FirstTask = sw
  NoTask = NoTask
  CallTasks = {}
  OnceTasks = {once}
  DelayTasks = {delay}
  MaxConcurrent = 2
  MaxRetries = 1
  MaxInline = 1
  MaxTaskEpoch = 1
  MaxGrants = 3
  MaxFaults = 1
  MaxVerbs = 2
SPECIFICATION FairSpec
INVARIANTS OnlyOnce StoppedIsUnheld NoLostUpdate
PROPERTIES StopsHold NoWedge
CHECK_DEADLOCK FALSE
