CONSTANTS
    Docs <- docs
    Sound <- sound
    Agree <- agree
    Batches <- batches
    Channels = {"latest", "prod"}
    Servers = {s1, s2}
    Clients = {c1, c2}
    MaxRequests = 4

SYMMETRY symmetry
SPECIFICATION Spec
INVARIANTS SpawnChecked CacheAgrees
PROPERTY VersionsKept
CHECK_DEADLOCK FALSE
