SPECIFICATION FairSpec
CONSTANTS
    None = None
    Case = {c1}
    ReviewId = {r1, r2}
    ContradictionId = {k1}
    OverrideId = {}
    EmergencyId = {e1}
    HandlerSlot = {h1}
    EntryTarget = {"EMERGENCY_HOLD", "INTAKE_COMPLETE"}
    ExitTarget = {"REVIEW_PENDING"}
    MaxRuns = 1
    MaxSignals = 1
    SignalsAreLost = TRUE
    CliSignals = TRUE
    MaxNow = 0
    PipelineCase = {}
    MaxRows = 0
    OverrideSurfaces <- NoSurfaces
    ComplianceWindow = 0
    IncentiveWindow = 0
PROPERTY RunsSettle
PROPERTY SignalledReviewApproves
CHECK_DEADLOCK FALSE
