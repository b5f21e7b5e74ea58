SPECIFICATION Spec
CONSTANTS
    None = None
    Case = {c1}
    ReviewId = {}
    ContradictionId = {}
    OverrideId = {}
    EmergencyId = {}
    HandlerSlot = {}
    EntryTarget = {}
    ExitTarget = {}
    MaxRuns = 6
    MaxSignals = 0
    SignalsAreLost = FALSE
    CliSignals = FALSE
    MaxNow = 0
    PipelineCase = {}
    MaxRows = 0
    OverrideSurfaces <- NoSurfaces
    ComplianceWindow = 0
    IncentiveWindow = 0
INVARIANT CurrentPackageWasSubmitted
CHECK_DEADLOCK FALSE
