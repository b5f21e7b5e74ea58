SPECIFICATION Spec
CONSTANTS
    None = None
    Case = {c1}
    ReviewId = {r1}
    ContradictionId = {}
    OverrideId = {}
    EmergencyId = {e1}
    HandlerSlot = {h1}
    EntryTarget = {"EMERGENCY_HOLD"}
    ExitTarget = {"APPROVED_FOR_SUBMISSION"}
    MaxRuns = 1
    MaxSignals = 2
    SignalsAreLost = FALSE
    CliSignals = FALSE
    MaxNow = 0
    PipelineCase = {}
    MaxRows = 0
    OverrideSurfaces <- NoSurfaces
    ComplianceWindow = 0
    IncentiveWindow = 0
INVARIANT ApprovedCasesAreReviewed
CHECK_DEADLOCK FALSE
