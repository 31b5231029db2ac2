SPECIFICATION Spec
CONSTANTS
    Generations = {g1, g2}
    Reuses = {r1}
    Saved = {s1}
    None = None
    MaxAttempts = 2
    MaxUpsets = 1
CHECK_DEADLOCK FALSE
INVARIANTS
    OneSourcePerConversion
    DraftsAreJudgedFairly
    SentIsOnRecord
    TrailTellsTheFate
    RawIsRetained
PROPERTIES
    WorkingIsFinal
    GeneratingEnds
