SPECIFICATION FairSpec
CONSTANTS
    c1 = c1
    c2 = c2
    p1 = p1
    p2 = p2
    Calls = {c1}
    SyncCalls = {}
    Peers = {p1}
    MaxRetries = 1
    TryNext = FALSE
    Capacity <- OneSlot
    ForgetsLocal = {}
    MaxReconnects = 1
PROPERTIES
    SentCallResolves
