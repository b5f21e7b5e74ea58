SPECIFICATION GuardsSpec
CONSTANTS
    None = None
    c1 = c1
    r1 = r1
    o1 = o1
    Case = {c1, c2}
    ReviewId = {r1}
    ContradictionId = {k1}
    OverrideId = {o1}
    Execution = {x1}
    RequestId = {q1, q2, q3}
    MaxCrashes = 0
    MaxNow = 1
    PipelineCase = {c1}
    MaxPending = 2
    MaxRows = 2
    OverrideSurfaces <- BothSurfaces
    Template <- GuardTemplates
    ComplianceWindow = 0
    IncentiveWindow = 0
PROPERTY ApprovalsSeeContradictions
INVARIANT ContradictionsGateApproval
INVARIANT ApprovalsAreReviewed
INVARIANT AdvancesAreSupported
INVARIANT LedgerIsAPath
CONSTRAINT OneStory
CHECK_DEADLOCK FALSE
