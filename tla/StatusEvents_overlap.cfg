SPECIFICATION FairSpec
CONSTANTS
    None = None
    c1 = c1
    c2 = c2
    a1 = a1
    a2 = a2
    e1 = e1
    e2 = e2
    Case = {c1, c2}
    Attempt = {a1, a2}
    Event = {e1, e2}
    AttemptCase <- Attempts
    Ask <- Asks
    MaxRequests = 2
    MaxRuns = 2
    MaxFailures = 1
INVARIANT TypeOK
INVARIANT AnswersAreStored
INVARIANT RecordsMatchEvents
PROPERTY EventsAreLoggedOnce
PROPERTY TakenSignalsAreRecorded
CHECK_DEADLOCK FALSE
