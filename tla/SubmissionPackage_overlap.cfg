SPECIFICATION FairSpec
CONSTANTS
    None = None
    MaxRuns = 2
    MaxFailures = 2
INVARIANT TypeOK
INVARIANT NothingDangles
INVARIANT MovedCasesAreProven
PROPERTY SubmittedStands
PROPERTY SubmittedOnce
PROPERTY SupportedRunsComplete
CHECK_DEADLOCK FALSE
