SPECIFICATION Spec
CONSTANTS
    None = None
    Case = {c1}
    ReviewId = {r1}
    ContradictionId = {}
    OverrideId = {}
    EmergencyId = {}
    HandlerSlot = {}
    EntryTarget = {}
    ExitTarget = {}
    MaxRuns = 1
    MaxSignals = 0
    SignalsAreLost = TRUE
    CliSignals = TRUE
    MaxNow = 0
    PipelineCase = {}
    MaxRows = 0
    OverrideSurfaces <- NoSurfaces
    ComplianceWindow = 0
    IncentiveWindow = 0
INVARIANT ResignalledRunsProceed
CHECK_DEADLOCK FALSE
