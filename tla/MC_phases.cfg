SPECIFICATION Spec
CONSTANTS
    a = a
    b = b
    c = c
    d = d
    e = e
    main = main
    client = client
    f1 = f1
    f2 = f2
    None = None
    Main = main
    Jobs <- CascadeJobs
    Ids <- AllIds
    IdOf <- OwnId
    PhaseOf <- CascadePhase
    AsyncJobs <- CascadeAsync
    TimerJobs <- CascadeTimer
    Script <- CascadeScript
    Clients = {client}
    Fibers = {f1, f2}
    MaxCycles = 3
    ChannelCapacity = 1
PROPERTIES
    ImplementsBarrier
    PhaseLeavesNothingBehind
