CONSTANTS
  Hashes = {h1}
  Instances = {i}
  Logs = {l}
  Subject <- OneSubject
  Grace = 1
  MaxFailures = 1
SPECIFICATION FairSpec
INVARIANT NoDangling
PROPERTIES GraceKept RevivedIsKept ReleasedIsCollected
