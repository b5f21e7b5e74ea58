------------------------- MODULE CaseRecordsProofs -------------------------
(***************************************************************************)
(* Lemmas about the guard and the writers of CaseRecords, for the modules  *)
(* that compose them.                                                      *)
(***************************************************************************)
EXTENDS CaseRecords, TLAPS

-----------------------------------------------------------------------------
(***************************************************************************)
(* The guard.                                                              *)
(***************************************************************************)
\* The guard answers APPLIED or a denial the code names, for any request.
LEMMA VerdictType ==
    ASSUME NEW q, NEW row
    PROVE  VerdictOf(q, row) \in Verdict
<1>1. EdgeVerdict(q, row) \in Verdict
  BY DEF EdgeVerdict, ApprovalVerdict, ReviewGateVerdict, IntakeVerdict,
         JurisdictionVerdict, ResearchVerdict, ComplianceVerdict,
         IncentivesVerdict, DocumentVerdict, ManualSubmissionVerdict,
         SubmittedVerdict, Verdict, Denial
<1>2. HoldExitVerdict(q.to) \in Verdict
  BY DEF HoldExitVerdict, Verdict, Denial
<1> QED
  BY <1>1, <1>2 DEF VerdictOf, Verdict, Denial

\* A request that passes the guard leaves the state the case is in: into the
\* hold, out of the hold but never to SUBMITTED, or along a guarded edge.
LEMMA AppliedPasses ==
    ASSUME NEW q, NEW row, VerdictOf(q, row) = "APPLIED"
    PROVE  /\ case_state[q.case] = q.from
           /\ \/ q.to = "EMERGENCY_HOLD"
              \/ q.from = "EMERGENCY_HOLD" /\ q.to # "SUBMITTED"
              \/ q.from # "EMERGENCY_HOLD" /\ EdgeVerdict(q, row) = "APPLIED"
BY DEF VerdictOf, HoldExitVerdict

\* The guard lets no request pass but along an edge of the state graph, from
\* the state the case is in.
LEMMA AppliedIsLegal ==
    ASSUME NEW q, EdgeOf(q) \in Edge, NEW row, VerdictOf(q, row) = "APPLIED"
    PROVE  /\ case_state[q.case] = q.from
           /\ EdgeOf(q) \in LegalEdge
<1>1. /\ case_state[q.case] = q.from
      /\ \/ q.to = "EMERGENCY_HOLD"
         \/ q.from = "EMERGENCY_HOLD" /\ q.to # "SUBMITTED"
         \/ q.from # "EMERGENCY_HOLD" /\ EdgeVerdict(q, row) = "APPLIED"
  BY AppliedPasses
<1>2. CASE q.to = "EMERGENCY_HOLD" \/ (q.from = "EMERGENCY_HOLD" /\ q.to # "SUBMITTED")
  BY <1>1, <1>2 DEF LegalEdge, HoldEdge, EdgeOf
<1>3. CASE EdgeVerdict(q, row) = "APPLIED"
  BY <1>1, <1>3 DEF EdgeVerdict, LegalEdge, GuardedEdge, Approval
<1> QED
  BY <1>1, <1>2, <1>3

\* What an applied approval has been checked for.
LEMMA AppliedApproval ==
    ASSUME NEW q, NEW row, VerdictOf(q, row) = "APPLIED", EdgeOf(q) = Approval
    PROVE  /\ AcceptingReview(q)
           /\ Blocked(q.case) => ValidOverride(q)
<1>1. q.from = "REVIEW_PENDING" /\ q.to = "APPROVED_FOR_SUBMISSION"
  BY DEF EdgeOf, Approval
<1>2. ApprovalVerdict(q) = "APPLIED"
  <2>1. EdgeVerdict(q, row) = "APPLIED"
    BY <1>1 DEF VerdictOf
  <2> QED
    BY <2>1 DEF EdgeVerdict, Approval, UnguardedEdge
<1>3. ~(q.override # None /\ ~ValidOverride(q))
  BY <1>2 DEF ApprovalVerdict
<1>4. ~(q.override = None /\ Blocked(q.case))
  BY <1>2 DEF ApprovalVerdict
<1>5. ReviewGateVerdict(q) = "APPLIED"
  BY <1>2, <1>3, <1>4 DEF ApprovalVerdict
<1> QED
  BY <1>3, <1>4, <1>5 DEF ReviewGateVerdict

\* The rows each guarded edge asks for.
Backed(q) ==
    LET a == artifacts[q.case]
        e == EdgeOf(q)
    IN  \/ e = <<"REVIEW_PENDING", "APPROVED_FOR_SUBMISSION">>
        \/ e = <<"INTAKE_PENDING", "INTAKE_COMPLETE">> /\ a.project
        \/ e = <<"INTAKE_COMPLETE", "JURISDICTION_COMPLETE">> /\ a.jurisdiction
        \/ e = <<"JURISDICTION_COMPLETE", "RESEARCH_COMPLETE">> /\ "FRESH" \in a.requirements
        \/ e = <<"RESEARCH_COMPLETE", "COMPLIANCE_COMPLETE">> /\ a.evaluated_at # {}
        \/ e = <<"COMPLIANCE_COMPLETE", "INCENTIVES_COMPLETE">> /\ a.assessed_at # {}
        \/ e = <<"INCENTIVES_COMPLETE", "DOCUMENT_COMPLETE">> /\ a.package
        \/ e = <<"DOCUMENT_COMPLETE", "MANUAL_SUBMISSION_REQUIRED">> /\ a.proof_bundle # "NONE"
        \/ e = <<"DOCUMENT_COMPLETE", "SUBMITTED">>
        \/ e \in UnguardedEdge

LEMMA GuardedEdgesAreBacked ==
    ASSUME NEW q, NEW row \in FirstRequirementSet(q.case),
           EdgeVerdict(q, row) = "APPLIED"
    PROVE  Backed(q)
<1> DEFINE a == artifacts[q.case]
           e == EdgeOf(q)
<1>1. row # None => row \in a.requirements
  BY DEF FirstRequirementSet
<1>2. ResearchVerdict(row) = "APPLIED" => "FRESH" \in a.requirements
  BY <1>1, NoneAssumption DEF ResearchVerdict
<1>3. /\ IntakeVerdict(a) = "APPLIED" => a.project
      /\ JurisdictionVerdict(a) = "APPLIED" => a.jurisdiction
      /\ DocumentVerdict(a) = "APPLIED" => a.package
  BY DEF IntakeVerdict, JurisdictionVerdict, DocumentVerdict
<1>4. /\ ComplianceVerdict(a, q.requested_at) = "APPLIED" => a.evaluated_at # {}
      /\ IncentivesVerdict(a, q.requested_at) = "APPLIED" => a.assessed_at # {}
  BY DEF ComplianceVerdict, IncentivesVerdict, Fresh
<1>5. ManualSubmissionVerdict(a) = "APPLIED" => a.proof_bundle # "NONE"
  BY DEF ManualSubmissionVerdict
<1>6. \/ e = <<"REVIEW_PENDING", "APPROVED_FOR_SUBMISSION">>
      \/ e = <<"INTAKE_PENDING", "INTAKE_COMPLETE">> /\ IntakeVerdict(a) = "APPLIED"
      \/ /\ e = <<"INTAKE_COMPLETE", "JURISDICTION_COMPLETE">>
         /\ JurisdictionVerdict(a) = "APPLIED"
      \/ /\ e = <<"JURISDICTION_COMPLETE", "RESEARCH_COMPLETE">>
         /\ ResearchVerdict(row) = "APPLIED"
      \/ /\ e = <<"RESEARCH_COMPLETE", "COMPLIANCE_COMPLETE">>
         /\ ComplianceVerdict(a, q.requested_at) = "APPLIED"
      \/ /\ e = <<"COMPLIANCE_COMPLETE", "INCENTIVES_COMPLETE">>
         /\ IncentivesVerdict(a, q.requested_at) = "APPLIED"
      \/ e = <<"INCENTIVES_COMPLETE", "DOCUMENT_COMPLETE">> /\ DocumentVerdict(a) = "APPLIED"
      \/ /\ e = <<"DOCUMENT_COMPLETE", "MANUAL_SUBMISSION_REQUIRED">>
         /\ ManualSubmissionVerdict(a) = "APPLIED"
      \/ e = <<"DOCUMENT_COMPLETE", "SUBMITTED">>
      \/ e \in UnguardedEdge
  BY DEF EdgeVerdict
<1> HIDE DEF a, e
<1> QED
  BY <1>2, <1>3, <1>4, <1>6, <1>5 DEF Backed, a, e

-----------------------------------------------------------------------------
(***************************************************************************)
(* Type correctness of the writers.                                        *)
(***************************************************************************)
LEMMA PersistType ==
    ASSUME RecordsTypeOK, NEW c \in Case, NEW a \in Artifacts, Persist(c, a)
    PROVE  RecordsTypeOK'
BY DEF RecordsTypeOK, Persist

\* What a data activity adds leaves the rows of its case well formed.
LEMMA StageRows ==
    ASSUME RecordsTypeOK, NEW c \in Case,
           \/ PersistJurisdictionResolutions(c)
           \/ \E f \in {"FRESH", "STALE", "INVALIDATED"} : PersistRequirementSets(c, f)
           \/ \E t \in 0 .. now : PersistComplianceEvaluation(c, t)
           \/ \E t \in 0 .. now : PersistIncentiveAssessment(c, t)
    PROVE  \E a \in Artifacts : Persist(c, a)
<1>0. artifacts[c] \in Artifacts /\ now \in Nat
  BY DEF RecordsTypeOK
<1>1. CASE PersistJurisdictionResolutions(c)
  BY <1>0, <1>1 DEF PersistJurisdictionResolutions, Artifacts
<1>2. ASSUME NEW f \in {"FRESH", "STALE", "INVALIDATED"}, PersistRequirementSets(c, f)
      PROVE  \E a \in Artifacts : Persist(c, a)
  BY <1>0, <1>2 DEF PersistRequirementSets, Artifacts
<1>3. ASSUME NEW t \in 0 .. now, PersistComplianceEvaluation(c, t)
      PROVE  \E a \in Artifacts : Persist(c, a)
  BY <1>0, <1>3 DEF PersistComplianceEvaluation, Artifacts
<1>4. ASSUME NEW t \in 0 .. now, PersistIncentiveAssessment(c, t)
      PROVE  \E a \in Artifacts : Persist(c, a)
  BY <1>0, <1>4 DEF PersistIncentiveAssessment, Artifacts
<1> QED
  BY <1>1, <1>2, <1>3, <1>4

\* Requests and data activities write well-formed rows.
LEMMA RecordsWriteType ==
    ASSUME RecordsTypeOK, RecordsWrite
    PROVE  RecordsTypeOK'
<1> USE DEF RecordsTypeOK
<1>1. ASSUME NEW c \in Case, CreateCase(c)
      PROVE  RecordsTypeOK'
  <2>1. [artifacts[c] EXCEPT !.project = TRUE] \in Artifacts
    BY DEF Artifacts
  <2>2. artifacts' \in [Case -> Artifacts]
    BY <1>1, <2>1 DEF CreateCase
  <2> QED
    BY <1>1, <2>2 DEF CreateCase, CaseState
<1>2. ASSUME NEW c \in Case, EnsurePermitCaseExists(c)
      PROVE  RecordsTypeOK'
  BY <1>2 DEF EnsurePermitCaseExists, CaseState
<1>3. CASE ReviewingWrite
  <2>1. ASSUME NEW id \in ReviewId, NEW c \in Case, NEW outcome \in ReviewOutcome,
               RecordReview(id, c, outcome)
        PROVE  RecordsTypeOK'
    BY <2>1 DEF RecordReview, Review
  <2>2. ASSUME NEW id \in ContradictionId, NEW c \in Case, NEW blocking \in BOOLEAN,
               CreateContradiction(id, c, blocking)
        PROVE  RecordsTypeOK'
    BY <2>2 DEF CreateContradiction, Contradiction
  <2>3. ASSUME NEW k \in contradictions, ResolveContradiction(k)
        PROVE  RecordsTypeOK'
    <3>1. [k EXCEPT !.status = "RESOLVED"] \in Contradiction
      BY DEF Contradiction
    <3> QED
      BY <2>3, <3>1 DEF ResolveContradiction
  <2>4. ASSUME NEW id \in OverrideId, NEW c \in Case,
               NEW surfaces \in OverrideSurfaces, NEW duration \in 1 .. MaxNow,
               CreateOverride(id, c, duration, surfaces)
        PROVE  RecordsTypeOK'
    <3>1. now + duration \in Nat
      BY BoundAssumption
    <3> QED
      BY <2>4, <3>1, SurfacesAssumption DEF CreateOverride, Override
  <2> QED
    BY <1>3, <2>1, <2>2, <2>3, <2>4 DEF ReviewingWrite
<1>4. CASE PipelineWrite
  <2>1. PICK c \in PipelineCase :
            \/ PersistJurisdictionResolutions(c)
            \/ \E f \in {"FRESH", "STALE", "INVALIDATED"} : PersistRequirementSets(c, f)
            \/ \E t \in 0 .. now : PersistComplianceEvaluation(c, t)
            \/ \E t \in 0 .. now : PersistIncentiveAssessment(c, t)
            \/ PersistSubmissionPackage(c)
            \/ PersistManualFallback(c)
            \/ ConfirmProofBundle(c)
    BY <1>4 DEF PipelineWrite
  <2>2. c \in Case /\ artifacts[c] \in Artifacts
    BY <2>1, BoundAssumption
  <2>3. CASE PersistSubmissionPackage(c)
    <3>1. [artifacts[c] EXCEPT !.package = TRUE] \in Artifacts
      BY <2>2 DEF Artifacts
    <3> QED
      BY <2>2, <2>3, <3>1 DEF PersistSubmissionPackage, CaseState
  <2>4. ASSUME ~PersistSubmissionPackage(c) PROVE \E a \in Artifacts : Persist(c, a)
    <3>2. CASE PersistManualFallback(c)
      BY <2>2, <3>2 DEF PersistManualFallback, Artifacts
    <3>3. CASE ConfirmProofBundle(c)
      BY <2>2, <3>3 DEF ConfirmProofBundle, Artifacts
    <3> QED
      BY <2>1, <2>2, <2>4, <3>2, <3>3, StageRows
  <2> QED
    BY <2>2, <2>3, <2>4, PersistType
<1>5. CASE Tick
  BY <1>5 DEF Tick
<1> QED
  BY <1>1, <1>2, <1>3, <1>4, <1>5 DEF RecordsWrite
=============================================================================
