SPECIFICATION FairSpec
CONSTANTS
    a = a
    b = b
    c = c
    Scans = {a, b, c}
    Mixes <- SomeMixes
    Settings <- SomeSettings
    HeavySlots = 1
    ChartSlots = 1
    ChartShare = 2
    Fallback = 20
    NoLimit = 100
    DefaultRatio = 90
    Threads = 2
    Queries = 2
    Endless = {a}
    Batches = 3
    QueueDepth = 1
    MaxFails = 1
CHECK_DEADLOCK FALSE
INVARIANTS
    GatesAddUp
    OneDownloadAboveTheBudget
    CompletedRulesHaveTheirHits
PROPERTIES
    WaitsEnd
    KillsReachRunningQueries
    StoppedProducersLetGo
