SPECIFICATION Spec
CONSTANTS
    c1 = c1
    c2 = c2
    p1 = p1
    p2 = p2
    Calls = {c1}
    SyncCalls = {}
    Peers = {p1, p2}
    MaxRetries = 1
    TryNext = TRUE
    Capacity <- OneSlot
    ForgetsLocal = {p1, p2}
    MaxReconnects = 1
INVARIANTS
    PendingIsCurrent
    NeverDoubleProcessed
    ExecutedAtMostOnce
SYMMETRY PeerSymmetry
