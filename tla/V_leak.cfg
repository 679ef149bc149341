SPECIFICATION Spec
CONSTANTS
    a = a
    b = b
    c = c
    d = d
    e = e
    main = main
    client = client
    f1 = f1
    f2 = f2
    None = None
    Main = main
    Jobs <- OutsideJobs
    Ids <- AllIds
    IdOf <- OwnId
    PhaseOf <- MainPhase
    AsyncJobs <- NoJobs
    TimerJobs <- NoJobs
    Script <- OutsideScript
    Clients = {client}
    Fibers = {f1, f2}
    MaxCycles = 1
    ChannelCapacity = 1
INVARIANTS
    BlockedUntilSyncJobsDone
