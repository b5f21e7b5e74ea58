SPECIFICATION RaceSpec
CONSTANTS
    None = None
    c1 = c1
    r1 = r1
    o1 = o1
    Case = {c1}
    ReviewId = {r1}
    ContradictionId = {}
    OverrideId = {}
    Execution = {x1, x2}
    RequestId = {q1, q2}
    MaxCrashes = 1
    MaxNow = 0
    PipelineCase = {c1}
    MaxPending = 2
    MaxRows = 1
    OverrideSurfaces <- NoSurfaces
    Template <- RaceTemplates
    ComplianceWindow = 2
    IncentiveWindow = 1
INVARIANT TypeOK
INVARIANT AnswersRepeatTheLedger
INVARIANT VerdictsHoldUntilCommit
INVARIANT LedgerIsAPath
PROPERTY AtomicTransitions
PROPERTY EveryRequestAnswered
CHECK_DEADLOCK FALSE
