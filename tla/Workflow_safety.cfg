SPECIFICATION Spec
CONSTANTS
    None = None
    Case = {c1}
    ReviewId = {r1}
    ContradictionId = {k1}
    OverrideId = {}
    EmergencyId = {e1}
    HandlerSlot = {h1, h2}
    EntryTarget = {"EMERGENCY_HOLD", "INTAKE_COMPLETE", "SUBMITTED"}
    ExitTarget = {"INCENTIVES_COMPLETE"}
    MaxRuns = 7
    MaxSignals = 2
    SignalsAreLost = FALSE
    CliSignals = TRUE
    MaxNow = 1
    PipelineCase = {}
    MaxRows = 0
    OverrideSurfaces <- NoSurfaces
    ComplianceWindow = 0
    IncentiveWindow = 0
INVARIANT TypeOK
INVARIANT RequestIdsAreFresh
PROPERTY HoldIsLeftBySignal
PROPERTY StatesMoveByDecision
INVARIANT StagesInOrder
INVARIANT SubmissionsHaveAttempts
INVARIANT CompletedRunsAdvanced
CONSTRAINT OneStory
CHECK_DEADLOCK FALSE
SYMMETRY SlotSymmetry
