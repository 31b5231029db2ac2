SPECIFICATION Spec
CONSTANTS
    Turns = {t1, t2}
    None = None
    MaxRevision = 1
    MaxAged = 0
    MaxCrashes = 0
CHECK_DEADLOCK FALSE
INVARIANTS
    EveryAnswerIsReplayable
