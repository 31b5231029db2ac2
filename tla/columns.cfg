SPECIFICATION FairSpec
CONSTANTS
    loud = loud
    quiet = quiet
    Sources = {loud, quiet}
    Telling = {loud}
    NumJobs = 3
    None = None
    MaxAsks = 1
    MaxFails = 2
    MaxCrashes = 1
CHECK_DEADLOCK FALSE
INVARIANTS
    ClaimIsOfTheLiveJob
    MarksHaveAHolder
    AnswersAreDatedTruly
PROPERTIES
    AnswersSurvive
    ReadySourcesAreCovered
    RunningEnds
