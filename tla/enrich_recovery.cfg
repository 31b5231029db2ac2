SPECIFICATION Spec
CONSTANTS
    None = None
    Sources = {s1, s2}
    Timelines = {t1}
    Enrichers = {e1}
    Jobs = {j1, j2}
    Workers = {w1, w2}
    Batches = {b1, b2}
    Members <- AllMembers
    MaxVersion = 1
    Resolves <- ResolvesAll
    MaxFails = 1
    MaxCrashes = 1
    MaxDeletes = 1
    MaxFills = 0
    MaxFaults = 2
SYMMETRY FullSymmetry
INVARIANTS
    LiveRunHoldsSlot
    NoStrandedStaging
    ScansAreWhole
PROPERTY
    ImplementsEvidence
CONSTRAINT DeletesAlone
VIEW RecoveryView
