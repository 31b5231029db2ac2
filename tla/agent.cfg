SPECIFICATION Spec
CONSTANTS
    Turns = {t1, t2}
    None = None
    MaxRevision = 2
    MaxAged = 1
    MaxCrashes = 1
CHECK_DEADLOCK FALSE
INVARIANTS
    RunningTurnIsReserved
    PartialFlagIsTrue
PROPERTIES
    InterruptionsKeepTheWork
    FinishedTurnsStayFinished
    StopsAreObeyed
    LocksAreReleased
