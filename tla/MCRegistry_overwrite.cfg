CONSTANTS
    Docs <- docs
    Sound <- sound
    Agree <- agree
    Batches <- batches
    Channels = {"latest", "prod"}
    Servers = {s1, s2}
    Clients = {c1, c2}
    MaxRequests = 2

SYMMETRY symmetry
SPECIFICATION Spec
PROPERTY VersionsFixed
CHECK_DEADLOCK FALSE
