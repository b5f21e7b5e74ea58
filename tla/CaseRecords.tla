---------------------------- MODULE CaseRecords ----------------------------
(***************************************************************************)
(* The Postgres tables that decide whether a permit case may advance, and  *)
(* the guard that apply_state_transition evaluates over them               *)
(* (src/sps/workflows/permit_case/activities_impl.py), with the requests   *)
(* and activities that write those tables.  Every write is one committed   *)
(* transaction.  CaseTransition composes the tables with concurrent,       *)
(* crashing executions of apply_state_transition.                          *)
(***************************************************************************)
EXTENDS Naturals, FiniteSets

CONSTANTS
    Case,              \* permit case identifiers
    ReviewId,          \* review_decisions.decision_id values
    ContradictionId,   \* contradiction_artifacts.contradiction_id values
    OverrideId,        \* override_artifacts.override_id values
    None,              \* Python's None: an absent optional field
    ComplianceWindow,  \* age limit of a compliance evaluation (30 days)
    IncentiveWindow,   \* age limit of an incentive assessment (3 days)
    PipelineCase,      \* bound: the cases the data activities run for
    MaxRows,           \* bound: the rows those activities produce for a case
    OverrideSurfaces,  \* bound: the affected_surfaces an override may name
    MaxNow             \* bound: the last clock value

ASSUME WindowAssumption == ComplianceWindow \in Nat /\ IncentiveWindow \in Nat
ASSUME BoundAssumption ==
    PipelineCase \subseteq Case /\ MaxNow \in Nat /\ MaxRows \in Nat
ASSUME NoneAssumption ==
    None \notin ReviewId \cup OverrideId \cup {"FRESH", "STALE", "INVALIDATED"}

VARIABLES
    case_state,      \* permit_cases.case_state, or "ABSENT" without a row
    artifacts,       \* per case: the rows its transition guards look for
    reviews,         \* review_decisions
    contradictions,  \* contradiction_artifacts
    overrides,       \* override_artifacts
    now              \* the clock workflow.now() and the API read

recordVars == <<case_state, artifacts, reviews, contradictions, overrides, now>>

CaseState ==
    {"DRAFT", "INTAKE_PENDING", "INTAKE_COMPLETE", "JURISDICTION_PENDING",
     "JURISDICTION_COMPLETE", "RESEARCH_PENDING", "RESEARCH_COMPLETE",
     "COMPLIANCE_PENDING", "COMPLIANCE_COMPLETE", "INCENTIVES_PENDING",
     "INCENTIVES_COMPLETE", "DOCUMENT_PENDING", "DOCUMENT_COMPLETE",
     "REVIEW_PENDING", "BLOCKED", "APPROVED_FOR_SUBMISSION",
     "SUBMISSION_PENDING", "SUBMITTED", "COMMENT_REVIEW_PENDING",
     "CORRECTION_PENDING", "RESUBMISSION_PENDING", "APPROVED", "CLOSED",
     "CANCELLED", "MANUAL_SUBMISSION_REQUIRED", "EMERGENCY_HOLD",
     "ROLLED_BACK"}

Exists(c) == case_state[c] # "ABSENT"

ReviewOutcome == {"ACCEPT", "ACCEPT_WITH_DISSENT", "BLOCK"}
AcceptingOutcome == {"ACCEPT", "ACCEPT_WITH_DISSENT"}

Artifacts ==
    [project       : BOOLEAN,                    \* a Project row exists
     jurisdiction  : BOOLEAN,                    \* a JurisdictionResolution row
     requirements  : SUBSET {"FRESH", "STALE", "INVALIDATED"},
     evaluated_at  : SUBSET Nat,                 \* ComplianceEvaluation rows
     assessed_at   : SUBSET Nat,                 \* IncentiveAssessment rows
     package       : BOOLEAN,                    \* a SubmissionPackage row
     proof_bundle  : {"NONE", "PENDING_REVIEW", "CONFIRMED"}]
                                   \* of the newest ManualFallbackPackage

NoArtifacts ==
    [project |-> FALSE, jurisdiction |-> FALSE, requirements |-> {},
     evaluated_at |-> {}, assessed_at |-> {}, package |-> FALSE,
     proof_bundle |-> "NONE"]

Review == [id : ReviewId, case : Case, outcome : ReviewOutcome]

Contradiction ==
    [id : ContradictionId, case : Case, blocking : BOOLEAN,
     status : {"OPEN", "RESOLVED"}, created_at : Nat]

Edge == CaseState \X CaseState

ASSUME SurfacesAssumption == OverrideSurfaces \subseteq SUBSET Edge

\* affected_surfaces holds the transitions an override names.
Override ==
    [id : OverrideId, case : Case, expires_at : Nat,
     affected_surfaces : SUBSET Edge]

(***************************************************************************)
(* StateTransitionRequest, without its id.  requested_at is workflow.now() *)
(* when the activity is scheduled: a retry carries the same value.         *)
(***************************************************************************)
Transition ==
    [case : Case, from : CaseState, to : CaseState,
     review : ReviewId \cup {None}, override : OverrideId \cup {None},
     requested_at : Nat]

EdgeOf(q) == <<q.from, q.to>>

Denial ==
    {"FROM_STATE_MISMATCH", "FORBIDDEN_TRANSITION", "UNKNOWN_TRANSITION",
     "OVERRIDE_DENIED", "BLOCKING_CONTRADICTION_UNRESOLVED",
     "REVIEW_DECISION_REQUIRED", "PROJECT_REQUIRED",
     "JURISDICTION_RESOLUTION_REQUIRED", "REQUIREMENT_SET_REQUIRED",
     "REQUIREMENT_SET_STALE", "COMPLIANCE_EVALUATION_REQUIRED",
     "COMPLIANCE_EVALUATION_STALE", "INCENTIVE_ASSESSMENT_REQUIRED",
     "INCENTIVE_ASSESSMENT_STALE", "SUBMISSION_PACKAGE_REQUIRED",
     "MANUAL_FALLBACK_REQUIRED", "PROOF_BUNDLE_REQUIRED"}

Verdict == {"APPLIED"} \cup Denial

-----------------------------------------------------------------------------
(***************************************************************************)
(* The guard of each edge of the case-state graph.                         *)
(***************************************************************************)
\* An override counts when it is the case's own, unexpired at the time the
\* transition was requested, and names this transition.
ValidOverride(q) ==
    \E o \in overrides :
        /\ o.id = q.override
        /\ o.case = q.case
        /\ o.expires_at > q.requested_at
        /\ EdgeOf(q) \in o.affected_surfaces

Blocked(c) ==
    \E k \in contradictions : k.case = c /\ k.blocking /\ k.status = "OPEN"

AcceptingReview(q) ==
    \E v \in reviews :
        v.id = q.review /\ v.case = q.case /\ v.outcome \in AcceptingOutcome

ReviewGateVerdict(q) ==
    IF AcceptingReview(q) THEN "APPLIED" ELSE "REVIEW_DECISION_REQUIRED"

\* Mutant: any override stands in for the contradiction check.
ApprovalVerdictAnyOverride(q) ==
    IF q.override = None /\ Blocked(q.case)
    THEN "BLOCKING_CONTRADICTION_UNRESOLVED" ELSE ReviewGateVerdict(q)

\* Mutant: a valid override stands in for the review too.
ApprovalVerdictOverrideSuffices(q) ==
    IF q.override # None /\ ValidOverride(q) THEN "APPLIED" ELSE ReviewGateVerdict(q)

\* An override is judged first, and a valid one replaces the contradiction
\* check; the review gate applies in either case.
ApprovalVerdict(q) ==
    CASE q.override # None /\ ~ValidOverride(q) -> "OVERRIDE_DENIED"
      [] q.override = None /\ Blocked(q.case)   ->
            "BLOCKING_CONTRADICTION_UNRESOLVED"
      [] OTHER -> ReviewGateVerdict(q)

IntakeVerdict(a) == IF a.project THEN "APPLIED" ELSE "PROJECT_REQUIRED"

JurisdictionVerdict(a) ==
    IF a.jurisdiction THEN "APPLIED" ELSE "JURISDICTION_RESOLUTION_REQUIRED"

\* Mutant: the freshness state of the row is not read.
ResearchVerdictAnyState(row) ==
    IF row = None THEN "REQUIREMENT_SET_REQUIRED" ELSE "APPLIED"

\* The query takes the first row in no stated order: row is the one it got.
ResearchVerdict(row) ==
    CASE row = None    -> "REQUIREMENT_SET_REQUIRED"
      [] row = "FRESH" -> "APPLIED"
      [] OTHER         -> "REQUIREMENT_SET_STALE"

\* Mutant: the window is one day too long.
FreshOneMore(times, window, requested_at) ==
    \E t \in times : t + window + 1 >= requested_at

\* The newest evaluation is within the window iff some evaluation is; the
\* boundary day itself is still fresh.
Fresh(times, window, requested_at) ==
    \E t \in times : t + window >= requested_at

ComplianceVerdict(a, requested_at) ==
    CASE a.evaluated_at = {} -> "COMPLIANCE_EVALUATION_REQUIRED"
      [] Fresh(a.evaluated_at, ComplianceWindow, requested_at) -> "APPLIED"
      [] OTHER -> "COMPLIANCE_EVALUATION_STALE"

\* Mutant: no assessment at all passes.
IncentivesVerdictMissingPasses(a, requested_at) ==
    IF a.assessed_at = {} \/ Fresh(a.assessed_at, IncentiveWindow, requested_at)
    THEN "APPLIED" ELSE "INCENTIVE_ASSESSMENT_STALE"

IncentivesVerdict(a, requested_at) ==
    CASE a.assessed_at = {} -> "INCENTIVE_ASSESSMENT_REQUIRED"
      [] Fresh(a.assessed_at, IncentiveWindow, requested_at) -> "APPLIED"
      [] OTHER -> "INCENTIVE_ASSESSMENT_STALE"

DocumentVerdict(a) ==
    IF a.package THEN "APPLIED" ELSE "SUBMISSION_PACKAGE_REQUIRED"

ManualSubmissionVerdict(a) ==
    IF a.proof_bundle = "NONE" THEN "MANUAL_FALLBACK_REQUIRED" ELSE "APPLIED"

SubmittedVerdict(a) ==
    IF a.proof_bundle = "PENDING_REVIEW"
    THEN "PROOF_BUNDLE_REQUIRED" ELSE "APPLIED"

UnguardedEdge ==
    {<<"SUBMITTED", "COMMENT_REVIEW_PENDING">>,
     <<"COMMENT_REVIEW_PENDING", "CORRECTION_PENDING">>,
     <<"CORRECTION_PENDING", "RESUBMISSION_PENDING">>,
     <<"RESUBMISSION_PENDING", "DOCUMENT_COMPLETE">>}

HoldExitVerdict(to) ==
    IF to = "SUBMITTED" THEN "FORBIDDEN_TRANSITION" ELSE "APPLIED"

EdgeVerdict(q, row) ==
    LET a == artifacts[q.case]
        e == EdgeOf(q)
    IN CASE e = <<"REVIEW_PENDING", "APPROVED_FOR_SUBMISSION">> -> ApprovalVerdict(q)
         [] e = <<"INTAKE_PENDING", "INTAKE_COMPLETE">> -> IntakeVerdict(a)
         [] e = <<"INTAKE_COMPLETE", "JURISDICTION_COMPLETE">> -> JurisdictionVerdict(a)
         [] e = <<"JURISDICTION_COMPLETE", "RESEARCH_COMPLETE">> -> ResearchVerdict(row)
         [] e = <<"RESEARCH_COMPLETE", "COMPLIANCE_COMPLETE">> ->
                ComplianceVerdict(a, q.requested_at)
         [] e = <<"COMPLIANCE_COMPLETE", "INCENTIVES_COMPLETE">> ->
                IncentivesVerdict(a, q.requested_at)
         [] e = <<"INCENTIVES_COMPLETE", "DOCUMENT_COMPLETE">> -> DocumentVerdict(a)
         [] e = <<"DOCUMENT_COMPLETE", "MANUAL_SUBMISSION_REQUIRED">> ->
                ManualSubmissionVerdict(a)
         [] e = <<"DOCUMENT_COMPLETE", "SUBMITTED">> -> SubmittedVerdict(a)
         [] e \in UnguardedEdge -> "APPLIED"
         [] OTHER -> "UNKNOWN_TRANSITION"

\* The requirement set the unordered query may return for a case.
FirstRequirementSet(c) ==
    IF artifacts[c].requirements = {} THEN {None} ELSE artifacts[c].requirements

\* Mutant: from_state is not compared with the state of the case.
VerdictOfUnchecked(q, row) ==
    CASE q.to = "EMERGENCY_HOLD" -> "APPLIED"
      [] q.from = "EMERGENCY_HOLD" /\ q.to # "EMERGENCY_HOLD" -> HoldExitVerdict(q.to)
      [] OTHER -> EdgeVerdict(q, row)

\* What apply_state_transition answers for q in the present state.
VerdictOf(q, row) ==
    CASE case_state[q.case] # q.from -> "FROM_STATE_MISMATCH"
      [] case_state[q.case] = q.from /\ q.to = "EMERGENCY_HOLD" -> "APPLIED"
      [] /\ case_state[q.case] = q.from
         /\ q.from = "EMERGENCY_HOLD"
         /\ q.to # "EMERGENCY_HOLD" -> HoldExitVerdict(q.to)
      [] OTHER -> EdgeVerdict(q, row)

\* Mutant: the case moves before the verdict is looked at.
CaseStateMoved(q, verdict) == [case_state EXCEPT ![q.case] = q.to]

\* A denied request leaves the case where it is.
CaseStateAfter(q, verdict) ==
    IF verdict = "APPLIED" THEN [case_state EXCEPT ![q.case] = q.to] ELSE case_state

-----------------------------------------------------------------------------
(***************************************************************************)
(* Writers of the tables.  Each leaves the variables it does not name to   *)
(* the module that uses it.                                                *)
(***************************************************************************)
\* POST /cases inserts the case and its project in one transaction.
CreateCase(c) ==
    /\ ~Exists(c)
    /\ case_state' = [case_state EXCEPT ![c] = "INTAKE_PENDING"]
    /\ artifacts' = [artifacts EXCEPT ![c].project = TRUE]
    /\ UNCHANGED <<reviews, contradictions, overrides, now>>

\* ensure_permit_case_exists seeds a missing case, without a project.
EnsurePermitCaseExists(c) ==
    /\ ~Exists(c)
    /\ case_state' = [case_state EXCEPT ![c] = "REVIEW_PENDING"]
    /\ UNCHANGED <<artifacts, reviews, contradictions, overrides, now>>

RecordReview(id, c, outcome) ==
    /\ Exists(c)
    /\ ~\E v \in reviews : v.id = id
    /\ reviews' = reviews \cup {[id |-> id, case |-> c, outcome |-> outcome]}
    /\ UNCHANGED <<case_state, artifacts, contradictions, overrides, now>>

CreateContradiction(id, c, blocking) ==
    /\ Exists(c)
    /\ ~\E k \in contradictions : k.id = id
    /\ contradictions' = contradictions \cup
            {[id |-> id, case |-> c, blocking |-> blocking,
              status |-> "OPEN", created_at |-> now]}
    /\ UNCHANGED <<case_state, artifacts, reviews, overrides, now>>

ResolveContradiction(k) ==
    /\ k.status = "OPEN"
    /\ contradictions' =
            (contradictions \ {k}) \cup {[k EXCEPT !.status = "RESOLVED"]}
    /\ UNCHANGED <<case_state, artifacts, reviews, overrides, now>>

CreateOverride(id, c, duration, surfaces) ==
    /\ Exists(c)
    /\ ~\E o \in overrides : o.id = id
    /\ overrides' = overrides \cup
            {[id |-> id, case |-> c, expires_at |-> now + duration,
              affected_surfaces |-> surfaces]}
    /\ UNCHANGED <<case_state, artifacts, reviews, contradictions, now>>

\* A data activity replaces the artifacts of its case by a; rows that exist
\* already are left alone, so a can only grow.
Persist(c, a) ==
    /\ Exists(c)
    /\ artifacts' = [artifacts EXCEPT ![c] = a]
    /\ UNCHANGED <<case_state, reviews, contradictions, overrides, now>>

PersistJurisdictionResolutions(c) ==
    Persist(c, [artifacts[c] EXCEPT !.jurisdiction = TRUE])

PersistRequirementSets(c, freshness) ==
    Persist(c, [artifacts[c] EXCEPT !.requirements = @ \cup {freshness}])

PersistComplianceEvaluation(c, evaluated_at) ==
    Persist(c, [artifacts[c] EXCEPT !.evaluated_at = @ \cup {evaluated_at}])

PersistIncentiveAssessment(c, assessed_at) ==
    Persist(c, [artifacts[c] EXCEPT !.assessed_at = @ \cup {assessed_at}])

\* Mutant: the case is moved on whatever state it is found in.
PersistSubmissionPackageAnyState(c) ==
    /\ Exists(c)
    /\ artifacts' = [artifacts EXCEPT ![c].package = TRUE]
    /\ case_state' = [case_state EXCEPT ![c] = "DOCUMENT_COMPLETE"]
    /\ UNCHANGED <<reviews, contradictions, overrides, now>>

\* The transaction that adds a package also moves its case on, without a
\* transition request and without a ledger row.
PersistSubmissionPackage(c) ==
    /\ Exists(c)
    /\ artifacts' = [artifacts EXCEPT ![c].package = TRUE]
    /\ case_state' = IF case_state[c] = "INCENTIVES_COMPLETE"
                     THEN [case_state EXCEPT ![c] = "DOCUMENT_COMPLETE"]
                     ELSE case_state
    /\ UNCHANGED <<reviews, contradictions, overrides, now>>

\* The submission adapter on an unsupported portal.
PersistManualFallback(c) ==
    /\ artifacts[c].package
    /\ Persist(c, [artifacts[c] EXCEPT !.proof_bundle = "PENDING_REVIEW"])

\* Outside src/: an operator attaches and confirms the proof bundle.
ConfirmProofBundle(c) ==
    /\ artifacts[c].proof_bundle = "PENDING_REVIEW"
    /\ Persist(c, [artifacts[c] EXCEPT !.proof_bundle = "CONFIRMED"])

Tick ==
    /\ now < MaxNow
    /\ now' = now + 1
    /\ UNCHANGED <<case_state, artifacts, reviews, contradictions, overrides>>

ReviewingWrite ==
    \/ \E id \in ReviewId, c \in Case, outcome \in ReviewOutcome :
           RecordReview(id, c, outcome)
    \/ \E id \in ContradictionId, c \in Case, blocking \in BOOLEAN :
           CreateContradiction(id, c, blocking)
    \/ \E k \in contradictions : ResolveContradiction(k)
    \/ \E id \in OverrideId, c \in Case, surfaces \in OverrideSurfaces :
           \E duration \in 1 .. MaxNow : CreateOverride(id, c, duration, surfaces)

Rows(c) ==
    LET a == artifacts[c] IN
    Cardinality(a.requirements) + Cardinality(a.evaluated_at)
    + Cardinality(a.assessed_at)
    + Cardinality({row \in {"jurisdiction", "package"} : a[row]})
    + (IF a.proof_bundle = "NONE" THEN 0 ELSE 1)

PipelineWrite ==
    \E c \in PipelineCase :
        \/ /\ Rows(c) < MaxRows
           /\ \/ PersistJurisdictionResolutions(c)
              \/ \E f \in {"FRESH", "STALE", "INVALIDATED"} : PersistRequirementSets(c, f)
              \/ \E t \in 0 .. now : PersistComplianceEvaluation(c, t)
              \/ \E t \in 0 .. now : PersistIncentiveAssessment(c, t)
              \/ PersistSubmissionPackage(c)
              \/ PersistManualFallback(c)
        \/ ConfirmProofBundle(c)

RecordsWrite ==
    \/ \E c \in Case : CreateCase(c) \/ EnsurePermitCaseExists(c)
    \/ ReviewingWrite
    \/ PipelineWrite
    \/ Tick

RecordsInit ==
    /\ case_state = [c \in Case |-> "ABSENT"]
    /\ artifacts = [c \in Case |-> NoArtifacts]
    /\ reviews = {}
    /\ contradictions = {}
    /\ overrides = {}
    /\ now = 0

-----------------------------------------------------------------------------
Approval == <<"REVIEW_PENDING", "APPROVED_FOR_SUBMISSION">>

\* The edges apply_state_transition can apply.
GuardedEdge ==
    {Approval,
     <<"INTAKE_PENDING", "INTAKE_COMPLETE">>,
     <<"INTAKE_COMPLETE", "JURISDICTION_COMPLETE">>,
     <<"JURISDICTION_COMPLETE", "RESEARCH_COMPLETE">>,
     <<"RESEARCH_COMPLETE", "COMPLIANCE_COMPLETE">>,
     <<"COMPLIANCE_COMPLETE", "INCENTIVES_COMPLETE">>,
     <<"INCENTIVES_COMPLETE", "DOCUMENT_COMPLETE">>,
     <<"DOCUMENT_COMPLETE", "MANUAL_SUBMISSION_REQUIRED">>,
     <<"DOCUMENT_COMPLETE", "SUBMITTED">>}

HoldEdge ==
    {e \in Edge : \/ e[2] = "EMERGENCY_HOLD"
                  \/ e[1] = "EMERGENCY_HOLD" /\ e[2] # "SUBMITTED"}

LegalEdge == GuardedEdge \cup UnguardedEdge \cup HoldEdge

RecordsTypeOK ==
    /\ case_state \in [Case -> CaseState \cup {"ABSENT"}]
    /\ artifacts \in [Case -> Artifacts]
    /\ reviews \subseteq Review
    /\ contradictions \subseteq Contradiction
    /\ overrides \subseteq Override
    /\ now \in Nat
=============================================================================
