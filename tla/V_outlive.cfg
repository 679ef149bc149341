SPECIFICATION AllSpec
CONSTANTS
    b1 = b1
    b2 = b2
    b3 = b3
    b4 = b4
    Borrowers <- Some
    MaxOwners = 1
    Debug = FALSE
    Quiet = FALSE
    OwnerThread = OwnerThread
    None = None
    Jobs = {"j1", "j2", "j3"}
    Workers = {"w1", "w2"}
    WaitsFor <- OneWaits
    AsyncJobs = {"j1"}
    Batches <- TwoCycles
    ChannelCapacity = 1
    MaxStarts = 2
    Main = "main"
    Actors = {"a1", "a2", "a3"}
    MaxDepth = 2
INVARIANTS
    NoBorrowOutlivesOwner
CHECK_DEADLOCK FALSE
