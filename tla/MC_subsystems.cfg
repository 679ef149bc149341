SPECIFICATION Spec
CONSTANTS
    Listeners = {"l1"}
    Paths <- PathsOfTwo
    MaxChanges = 2
    Loaders = {"file", "other"}
    FileLoader = "file"
    Requests = {1, 2, 3}
    Uri <- SomeUris
    Pool = {"w1", "w2"}
    Plugins = {"p1", "p2", "p3"}
    Name <- TwoNames
    Listed <- OneIsBroken
    Broken = "broken"
    Absent = "absent"
    Null = "null"
    Calls = {"r1", "r2", "r3", "r4", "r5"}
    RequestSize <- Extents
    RequestCamera <- Cameras
    Malformed = {"r5"}
    Invalid = {"r4"}
    DefaultSize = "large"
    NoCamera = "none"
    UseDepth = TRUE
    Shared = TRUE
    Widths = {6, 8}
    Registrations = {"e1", "e2"}
    InitialServices = 1
    MaxFrames = 1
    MaxLost = 1
    PluginInit = "init"
    Nobody = "nobody"
    Names = {"result", "transaction-id", "service", "status", "meta"}
    Texts = {1}
    Id = 100
    Service = 200
    Statuses = {0, 40}
    RenderRequests <- Renders
    Precision = 10
    Types = {"IPluginManager", "IServiceRegistry", "JobManager"}
    WithJob = TRUE
    WithPlugin = TRUE
INVARIANTS
    TypesOK
    NoChangeIsMissed
    NoLoadIsForgotten
    ManagedIsRunning
    
    ImageFitsItsTile
    
    RenderingSurvivesSwap
CHECK_DEADLOCK FALSE
