SPECIFICATION FairSpec
CONSTANTS
    None = None
    Sources = {s1}
    Timelines = {t1}
    Enrichers = {e1}
    Jobs = {j1, j2}
    Workers = {w1, w2}
    Batches = {b1, b2}
    Members <- AllMembers
    MaxVersion = 1
    Resolves <- ResolvesAll
    MaxFails = 1
    MaxCrashes = 1
    MaxDeletes = 1
    MaxFills = 0
    MaxFaults = 1
CHECK_DEADLOCK FALSE
PROPERTY
    DeletedRowsAreDiscarded
    SlotsAreReleased
    UnfinishedRunsAreRecovered
INVARIANT StaleStatsAreRefreshed
