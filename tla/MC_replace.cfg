SPECIFICATION Spec
CONSTANTS
    a = a
    b = b
    c = c
    d = d
    e = e
    main = main
    client = client
    f1 = f1
    f2 = f2
    None = None
    Main = main
    Jobs <- RenderJobs
    Ids <- AllIds
    IdOf <- RenderId
    PhaseOf <- RenderPhase
    AsyncJobs <- NoJobs
    TimerJobs <- RenderTimer
    Script <- ReplaceScript
    Clients = {client}
    Fibers = {f1, f2}
    MaxCycles = 4
    ChannelCapacity = 1
INVARIANTS
    OneInstancePerId
    DetachIsEffective
    BlockedUntilSyncJobsDone
