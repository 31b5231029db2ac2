SPECIFICATION Spec
CONSTANTS
    None = None
    Sources = {s1}
    Timelines = {t1, t2}
    Enrichers = {e1}
    Jobs = {j1, j2, j3}
    Workers = {w1, w2}
    Batches = {b1, b2}
    Members <- AllMembers
    MaxVersion = 2
    Resolves <- ResolvesLessLater
    MaxFails = 0
    MaxCrashes = 0
    MaxDeletes = 0
    MaxFills = 1
    MaxFaults = 0
SYMMETRY Symmetry
INVARIANTS
    ProvenanceDescribesPartition
    ApplyIsExclusive
