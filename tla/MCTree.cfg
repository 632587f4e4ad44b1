CONSTANTS
  r = r
  a = a
  b = b
  a1 = a1
  Ids = {r, a, b, a1}
  NoId = NoId
  Root = r
  Parent <- ParentOf
  Stack <- StackOf
  MaxAttempts = 2
  MaxEpoch = 1
  MaxVerbs = 4
  Retriers = 1
SPECIFICATION FairSpec
INVARIANTS TypeOK NothingBusyBelow TreeAgrees WaitsForSomeone CollectsItsBatch SettleUpIsTheLoop
PROPERTIES OutcomesKept DrainEnds
CHECK_DEADLOCK FALSE
