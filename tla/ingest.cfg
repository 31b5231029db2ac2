SPECIFICATION FairSpec
CONSTANTS
    None = None
    Uploads = {u1, u2}
    Cases = {c1, c2}
    Hashes = {h1}
    CaseOf <- OneApart
    HashOf <- SameBytes
    Size = 2
    RetainWays = {"link", "copy"}
    MaxFails = 1
    MaxCrashes = 1
    MaxDeletes = 1
CHECK_DEADLOCK FALSE
PROPERTIES
    IngestsSettle
    OrphansAreTriedIndependently
INVARIANTS
    ReadyIsComplete
    NoOrphanEvents
