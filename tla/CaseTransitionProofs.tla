------------------------ MODULE CaseTransitionProofs ------------------------
(***************************************************************************)
(* Theorems of CaseTransition, for every set of cases, requests and worker *)
(* threads and every number of crashes.  They rest on one inductive        *)
(* invariant, Inductive: the lock on the case row keeps a verdict true     *)
(* from the guard to the commit, and a request id names one request.       *)
(***************************************************************************)
EXTENDS CaseTransition, CaseRecordsProofs

-----------------------------------------------------------------------------
(***************************************************************************)
(* Type correctness.                                                       *)
(***************************************************************************)
\* The empty database and an empty history are well formed.
THEOREM InitType == Init => TypeOK
<1> SUFFICES ASSUME Init PROVE TypeOK
  OBVIOUS
<1>1. RecordsTypeOK
  BY DEF Init, RecordsInit, RecordsTypeOK, Artifacts, NoArtifacts
<1>2. audit \in Seq(RequestId \X Verdict)
  BY DEF Init
<1> QED
  BY <1>1, <1>2 DEF Init, TypeOK, ExecutionState

\* Every step of an execution, a client or a writer keeps them well formed.
THEOREM NextType == TypeOK /\ [Next]_vars => TypeOK'
<1> SUFFICES ASSUME TypeOK, [Next]_vars PROVE TypeOK'
  OBVIOUS
<1> USE DEF TypeOK, activityVars, recordVars
<1>0. ASSUME UNCHANGED recordVars PROVE RecordsTypeOK'
  BY <1>0 DEF RecordsTypeOK
<1>1. ASSUME NEW id \in RequestId, NEW t \in Template, Schedule(id, t)
      PROVE  TypeOK'
  <2>1. [id |-> id, case |-> t.case, from |-> t.from, to |-> t.to,
         review |-> t.review, override |-> t.override, requested_at |-> now]
           \in Request
    BY TemplateAssumption DEF RecordsTypeOK, Request
  <2>2. scheduled' \subseteq Request
    BY <1>1, <2>1 DEF Schedule
  <2> QED
    BY <1>0, <1>1, <2>2 DEF Schedule
<1>2. ASSUME NEW x \in Execution, NEW q \in scheduled, LookupMiss(x, q)
      PROVE  TypeOK'
  <2>1. [step |-> "missed", request |-> q] \in ExecutionState
    BY DEF ExecutionState
  <2> QED
    BY <1>0, <1>2, <2>1 DEF LookupMiss
<1>3. ASSUME NEW x \in Execution, NEW q \in scheduled, LookupHit(x, q)
      PROVE  TypeOK'
  <2>1. PICK row \in ledger :
            execution' = [execution EXCEPT ![x] =
                [step |-> "answering", request |-> q, verdict |-> row.verdict]]
    BY <1>3 DEF LookupHit
  <2>2. [step |-> "answering", request |-> q, verdict |-> row.verdict]
            \in ExecutionState
    BY DEF ExecutionState, LedgerRow
  <2> QED
    BY <1>0, <1>3, <2>1, <2>2 DEF LookupHit
<1>4. ASSUME NEW x \in Execution, Decide(x)
      PROVE  TypeOK'
  <2>1. PICK row : execution' = [execution EXCEPT ![x] =
                [step |-> "decided", request |-> execution[x].request,
                 verdict |-> VerdictOf(execution[x].request, row)]]
    BY <1>4 DEF Decide
  <2>2. execution[x].request \in Request
    BY <1>4 DEF Decide, ExecutionState, Idle
  <2>3. [step |-> "decided", request |-> execution[x].request,
         verdict |-> VerdictOf(execution[x].request, row)] \in ExecutionState
    BY <2>2, VerdictType DEF ExecutionState
  <2> QED
    BY <1>0, <1>4, <2>1, <2>3 DEF Decide
<1>5. ASSUME NEW x \in Execution, CaseMissing(x)
      PROVE  TypeOK'
  BY <1>0, <1>5 DEF CaseMissing, ExecutionState
<1>6. ASSUME NEW x \in Execution, Commit(x)
      PROVE  TypeOK'
  <2> DEFINE q == execution[x].request
             verdict == execution[x].verdict
  <2>1. q \in Request /\ verdict \in Verdict
    BY <1>6 DEF Commit, ExecutionState, Idle
  <2>2. RowFor(q, verdict) \in LedgerRow
    BY <2>1 DEF RowFor, LedgerRow, Request
  <2>3. RecordsTypeOK'
    BY <1>6, <2>1 DEF Commit, CaseStateAfter, RecordsTypeOK, Request
  <2>4. audit' \in Seq(RequestId \X Verdict)
    <3>1. <<q.id, verdict>> \in RequestId \X Verdict
      BY <2>1 DEF Request
    <3> QED
      BY <1>6, <3>1 DEF Commit, CaseStateAfter
  <2>5. [execution[x] EXCEPT !.step = "answering"] \in ExecutionState
    BY <1>6 DEF Commit, ExecutionState, Idle
  <2>6. execution' \in [Execution -> ExecutionState]
    BY <1>6, <2>5 DEF Commit, CaseStateAfter
  <2> QED
    BY <1>6, <2>2, <2>3, <2>4, <2>6 DEF Commit, CaseStateAfter
<1>7. ASSUME NEW x \in Execution, CommitConflict(x)
      PROVE  TypeOK'
  <2>1. [step |-> "raced", request |-> execution[x].request] \in ExecutionState
    BY <1>7 DEF CommitConflict, ExecutionState, Idle
  <2> QED
    BY <1>0, <1>7, <2>1 DEF CommitConflict
<1>8. ASSUME NEW x \in Execution, Reload(x)
      PROVE  TypeOK'
  <2>1. PICK row \in ledger :
            execution' = [execution EXCEPT ![x] =
                [step |-> "answering", request |-> execution[x].request,
                 verdict |-> row.verdict]]
    BY <1>8 DEF Reload
  <2>2. [step |-> "answering", request |-> execution[x].request,
         verdict |-> row.verdict] \in ExecutionState
    BY <1>8 DEF Reload, ExecutionState, Idle, LedgerRow
  <2> QED
    BY <1>0, <1>8, <2>1, <2>2 DEF Reload
<1>9. ASSUME NEW x \in Execution, Return(x)
      PROVE  TypeOK'
  <2>1. <<execution[x].request.id, execution[x].verdict>> \in RequestId \X Verdict
    BY <1>9 DEF Return, ExecutionState, Idle, Request
  <2> QED
    BY <1>0, <1>9, <2>1 DEF Return, ExecutionState
<1>10. ASSUME NEW x \in Execution, Crash(x)
       PROVE  TypeOK'
  BY <1>0, <1>10 DEF Crash, ExecutionState
<1>11. CASE WriteRecords
  BY <1>11, RecordsWriteType DEF WriteRecords
<1>12. CASE UNCHANGED vars
  BY <1>0, <1>12 DEF vars
<1> QED
  BY <1>1, <1>2, <1>3, <1>4, <1>5, <1>6, <1>7, <1>8, <1>9, <1>10, <1>11, <1>12
     DEF Next, Run

\* Every reachable state is made of the rows, requests and executions the
\* tables and Temporal can hold.
THEOREM TypeCorrect == Spec => []TypeOK
<1> QED
  BY InitType, NextType, PTL DEF Spec

-----------------------------------------------------------------------------
(***************************************************************************)
(* The inductive invariant.                                                *)
(***************************************************************************)
\* A request id names one request of Temporal's history.
RequestsAreNamed ==
    \A q1, q2 \in scheduled : q1.id = q2.id => q1 = q2

\* requested_at is a reading of the clock.
RequestedInThePast == \A q \in scheduled : q.requested_at <= now

\* An execution works on a request that was scheduled.
ExecutionsServeRequests ==
    \A x \in Execution :
        execution[x] # Idle => execution[x].request \in scheduled

\* A ledger row copies the request it answers.
LedgerServesRequests ==
    \A row \in ledger : \E q \in scheduled : row = RowFor(q, row.verdict)

\* What the guard found when it let q pass, and what no later write undoes.
Justified(q) ==
    /\ Supported(q)
    /\ EdgeOf(q) = Approval =>
          /\ AcceptingReview(q)
          /\ PassedContradictions(q) = {} \/ ValidOverride(q)

\* The guard's findings hold for the verdict about to be written and for every
\* applied row.
AppliedIsJustified ==
    /\ \A x \in Execution :
          execution[x].step = "decided" /\ execution[x].verdict = "APPLIED" =>
              Justified(execution[x].request)
    /\ \A q \in scheduled :
          RowFor(q, "APPLIED") \in ledger => Justified(q)

\* An approval about to be written is not blocked, or overridden.
PendingApprovalsAreClear ==
    \A x \in Execution :
        /\ execution[x].step = "decided" /\ execution[x].verdict = "APPLIED"
        /\ EdgeOf(execution[x].request) = Approval
        => \/ ~Blocked(execution[x].request.case)
           \/ ValidOverride(execution[x].request)

\* The inductive invariant.
Inductive ==
    /\ TypeOK
    /\ RequestsAreNamed
    /\ RequestedInThePast
    /\ ExecutionsServeRequests
    /\ LedgerServesRequests
    /\ AnswersRepeatTheLedger
    /\ VerdictsHoldUntilCommit
    /\ AppliedIsJustified
    /\ PendingApprovalsAreClear

\* The guard establishes the justification.
LEMMA GuardJustifies ==
    ASSUME TypeOK, NEW q \in Request, NEW row \in FirstRequirementSet(q.case),
           VerdictOf(q, row) = "APPLIED"
    PROVE  Justified(q)
<1>1. artifacts[q.case] \in Artifacts
  BY DEF TypeOK, RecordsTypeOK, Request
<1>2. EdgeOf(q) = Approval =>
          /\ AcceptingReview(q)
          /\ PassedContradictions(q) = {} \/ ValidOverride(q)
  <2>1. ~Blocked(q.case) => PassedContradictions(q) = {}
    BY DEF Blocked, PassedContradictions
  <2> QED
    BY <2>1, AppliedApproval
<1>3. CASE q.to = "EMERGENCY_HOLD" \/ q.from = "EMERGENCY_HOLD"
  BY <1>2, <1>3 DEF Justified, Supported, EdgeOf
<1>4. CASE q.to # "EMERGENCY_HOLD" /\ q.from # "EMERGENCY_HOLD"
  <2>1. EdgeVerdict(q, row) = "APPLIED"
    BY <1>4 DEF VerdictOf
  <2> DEFINE a == artifacts[q.case]
             edge == EdgeOf(q)
  <2>2. edge = <<"INTAKE_PENDING", "INTAKE_COMPLETE">> => a.project
    BY <2>1 DEF EdgeVerdict, UnguardedEdge, IntakeVerdict
  <2>3. edge = <<"INTAKE_COMPLETE", "JURISDICTION_COMPLETE">> => a.jurisdiction
    BY <2>1 DEF EdgeVerdict, UnguardedEdge, JurisdictionVerdict
  <2>4. edge = <<"JURISDICTION_COMPLETE", "RESEARCH_COMPLETE">> =>
            "FRESH" \in a.requirements
    <3> SUFFICES ASSUME edge = <<"JURISDICTION_COMPLETE", "RESEARCH_COMPLETE">>
                 PROVE  "FRESH" \in a.requirements
      OBVIOUS
    <3>1. ResearchVerdict(row) = "APPLIED"
      BY <2>1 DEF EdgeVerdict, UnguardedEdge
    <3>2. row = "FRESH"
      BY <3>1, NoneAssumption DEF ResearchVerdict
    <3> QED
      BY <3>2, NoneAssumption DEF FirstRequirementSet
  <2>5. edge = <<"RESEARCH_COMPLETE", "COMPLIANCE_COMPLETE">> =>
            \E t \in a.evaluated_at : q.requested_at - t <= ComplianceWindow
    <3> SUFFICES ASSUME edge = <<"RESEARCH_COMPLETE", "COMPLIANCE_COMPLETE">>
                 PROVE  \E t \in a.evaluated_at : q.requested_at - t <= ComplianceWindow
      OBVIOUS
    <3>1. ComplianceVerdict(a, q.requested_at) = "APPLIED"
      BY <2>1 DEF EdgeVerdict, UnguardedEdge
    <3>2. Fresh(a.evaluated_at, ComplianceWindow, q.requested_at)
      BY <3>1 DEF ComplianceVerdict
    <3> QED
      BY <1>1, <3>2, WindowAssumption DEF Fresh, Artifacts, Request
  <2>6. edge = <<"COMPLIANCE_COMPLETE", "INCENTIVES_COMPLETE">> =>
            \E t \in a.assessed_at : q.requested_at - t <= IncentiveWindow
    <3> SUFFICES ASSUME edge = <<"COMPLIANCE_COMPLETE", "INCENTIVES_COMPLETE">>
                 PROVE  \E t \in a.assessed_at : q.requested_at - t <= IncentiveWindow
      OBVIOUS
    <3>1. IncentivesVerdict(a, q.requested_at) = "APPLIED"
      BY <2>1 DEF EdgeVerdict, UnguardedEdge
    <3>2. Fresh(a.assessed_at, IncentiveWindow, q.requested_at)
      BY <3>1 DEF IncentivesVerdict
    <3> QED
      BY <1>1, <3>2, WindowAssumption DEF Fresh, Artifacts, Request
  <2>7. edge = <<"INCENTIVES_COMPLETE", "DOCUMENT_COMPLETE">> => a.package
    BY <2>1 DEF EdgeVerdict, UnguardedEdge, DocumentVerdict
  <2>8. edge = <<"DOCUMENT_COMPLETE", "MANUAL_SUBMISSION_REQUIRED">> =>
            a.proof_bundle # "NONE"
    BY <2>1 DEF EdgeVerdict, UnguardedEdge, ManualSubmissionVerdict
  <2> QED
    BY <1>2, <2>2, <2>3, <2>4, <2>5, <2>6, <2>7, <2>8 DEF Justified, Supported
<1> QED
  BY <1>3, <1>4

\* Rows are added and never taken away, and a resolved contradiction stays so.
RowsGrow(a, b) ==
    /\ a.project => b.project
    /\ a.jurisdiction => b.jurisdiction
    /\ a.requirements \subseteq b.requirements
    /\ a.evaluated_at \subseteq b.evaluated_at
    /\ a.assessed_at \subseteq b.assessed_at
    /\ a.package => b.package
    /\ a.proof_bundle # "NONE" => b.proof_bundle # "NONE"

RecordsGrow ==
    /\ \A c \in Case : RowsGrow(artifacts[c], artifacts'[c])
    /\ reviews \subseteq reviews'
    /\ overrides \subseteq overrides'
    /\ \A k \in contradictions' :
          k.status = "OPEN" => k \in contradictions \/ k.created_at = now
    /\ now <= now'

\* Every write of the tables, CreateCase included, lets them grow only.
LEMMA WritesGrow ==
    ASSUME TypeOK, RecordsWrite
    PROVE  RecordsGrow
<1> USE DEF TypeOK, RecordsTypeOK, RecordsGrow, RowsGrow
<1>1. ASSUME NEW c \in Case, CreateCase(c)
      PROVE  RecordsGrow
  <2>1. \A d \in Case : artifacts[d] \in Artifacts
    OBVIOUS
  <2>2. \A d \in Case : RowsGrow(artifacts[d], artifacts'[d])
    BY <1>1, <2>1 DEF CreateCase, Artifacts
  <2> QED
    BY <1>1, <2>2 DEF CreateCase, Exists
<1>2. ASSUME NEW c \in Case, EnsurePermitCaseExists(c)
      PROVE  RecordsGrow
  BY <1>2 DEF EnsurePermitCaseExists, Exists
<1>3. CASE ReviewingWrite
  <2>1. ASSUME NEW id \in ReviewId, NEW c \in Case, NEW outcome \in ReviewOutcome,
               RecordReview(id, c, outcome)
        PROVE  RecordsGrow
    BY <2>1 DEF RecordReview
  <2>2. ASSUME NEW id \in ContradictionId, NEW c \in Case, NEW blocking \in BOOLEAN,
               CreateContradiction(id, c, blocking)
        PROVE  RecordsGrow
    BY <2>2 DEF CreateContradiction
  <2>3. ASSUME NEW k \in contradictions, ResolveContradiction(k)
        PROVE  RecordsGrow
    <3>1. [k EXCEPT !.status = "RESOLVED"].status = "RESOLVED"
      BY DEF Contradiction
    <3>2. \A j \in contradictions' : j.status = "OPEN" => j \in contradictions
      BY <2>3, <3>1 DEF ResolveContradiction
    <3> QED
      BY <2>3, <3>2 DEF ResolveContradiction
  <2>4. ASSUME NEW id \in OverrideId, NEW c \in Case,
               NEW surfaces \in OverrideSurfaces, NEW duration \in 1 .. MaxNow,
               CreateOverride(id, c, duration, surfaces)
        PROVE  RecordsGrow
    BY <2>4 DEF CreateOverride
  <2> QED
    BY <1>3, <2>1, <2>2, <2>3, <2>4 DEF ReviewingWrite
<1>4. CASE PipelineWrite
  <2>1. PICK c \in PipelineCase :
            \/ PersistJurisdictionResolutions(c)
            \/ \E f \in {"FRESH", "STALE", "INVALIDATED"} : PersistRequirementSets(c, f)
            \/ \E t \in 0 .. now : PersistComplianceEvaluation(c, t)
            \/ \E t \in 0 .. now : PersistIncentiveAssessment(c, t)
            \/ PersistSubmissionPackage(c)
            \/ PersistManualFallback(c)
            \/ ConfirmProofBundle(c)
    BY <1>4 DEF PipelineWrite
  <2>2. c \in Case /\ artifacts[c] \in Artifacts
    BY <2>1, BoundAssumption
  <2>3. CASE PersistSubmissionPackage(c)
    <3>1. RowsGrow(artifacts[c], [artifacts[c] EXCEPT !.package = TRUE])
      BY <2>2 DEF Artifacts
    <3>2. \A d \in Case \ {c} : artifacts'[d] = artifacts[d]
      BY <2>3 DEF PersistSubmissionPackage
    <3>3. artifacts'[c] = [artifacts[c] EXCEPT !.package = TRUE]
      BY <2>2, <2>3 DEF PersistSubmissionPackage
    <3>4. \A d \in Case : RowsGrow(artifacts[d], artifacts'[d])
      BY <3>1, <3>2, <3>3
    <3> QED
      BY <2>3, <3>4 DEF PersistSubmissionPackage
  <2>4. ASSUME ~PersistSubmissionPackage(c)
        PROVE  \E a : Persist(c, a) /\ RowsGrow(artifacts[c], a)
    <3>1. CASE PersistJurisdictionResolutions(c)
      BY <2>2, <3>1 DEF PersistJurisdictionResolutions, Artifacts
    <3>2. ASSUME NEW f \in {"FRESH", "STALE", "INVALIDATED"},
                 PersistRequirementSets(c, f)
          PROVE  \E a : Persist(c, a) /\ RowsGrow(artifacts[c], a)
      <4> DEFINE a == [artifacts[c] EXCEPT !.requirements = @ \cup {f}]
      <4>1. Persist(c, a)
        BY <3>2 DEF PersistRequirementSets
      <4>2. RowsGrow(artifacts[c], a)
        BY <2>2 DEF Artifacts
      <4> QED
        BY <4>1, <4>2
    <3>3. ASSUME NEW t \in 0 .. now, PersistComplianceEvaluation(c, t)
          PROVE  \E a : Persist(c, a) /\ RowsGrow(artifacts[c], a)
      <4> DEFINE a == [artifacts[c] EXCEPT !.evaluated_at = @ \cup {t}]
      <4>1. Persist(c, a)
        BY <3>3 DEF PersistComplianceEvaluation
      <4>2. RowsGrow(artifacts[c], a)
        BY <2>2 DEF Artifacts
      <4> QED
        BY <4>1, <4>2
    <3>4. ASSUME NEW t \in 0 .. now, PersistIncentiveAssessment(c, t)
          PROVE  \E a : Persist(c, a) /\ RowsGrow(artifacts[c], a)
      <4> DEFINE a == [artifacts[c] EXCEPT !.assessed_at = @ \cup {t}]
      <4>1. Persist(c, a)
        BY <3>4 DEF PersistIncentiveAssessment
      <4>2. RowsGrow(artifacts[c], a)
        BY <2>2 DEF Artifacts
      <4> QED
        BY <4>1, <4>2
    <3>6. CASE PersistManualFallback(c)
      <4> DEFINE a == [artifacts[c] EXCEPT !.proof_bundle = "PENDING_REVIEW"]
      <4>1. Persist(c, a)
        BY <3>6 DEF PersistManualFallback
      <4>2. RowsGrow(artifacts[c], a)
        BY <2>2 DEF Artifacts
      <4> QED
        BY <4>1, <4>2
    <3>7. CASE ConfirmProofBundle(c)
      <4> DEFINE a == [artifacts[c] EXCEPT !.proof_bundle = "CONFIRMED"]
      <4>1. Persist(c, a)
        BY <3>7 DEF ConfirmProofBundle
      <4>2. RowsGrow(artifacts[c], a)
        BY <2>2 DEF Artifacts
      <4> QED
        BY <4>1, <4>2
    <3> QED
      BY <2>1, <2>4, <3>1, <3>2, <3>3, <3>4, <3>6, <3>7
  <2> QED
    BY <2>2, <2>3, <2>4 DEF Persist
<1>5. CASE Tick
  BY <1>5 DEF Tick
<1> QED
  BY <1>1, <1>2, <1>3, <1>4, <1>5 DEF RecordsWrite

\* Hence what justified a request keeps justifying it.
LEMMA JustificationLasts ==
    ASSUME TypeOK, TypeOK', RecordsGrow, NEW q \in Request,
           q.requested_at <= now, Justified(q)
    PROVE  Justified(q)'
<1> USE DEF TypeOK, RecordsTypeOK
<1>1. Supported(q)'
  BY DEF Justified, Supported, RecordsGrow, RowsGrow, Request, EdgeOf
<1>2. AcceptingReview(q) => AcceptingReview(q)'
  BY DEF AcceptingReview, RecordsGrow
<1>3. ValidOverride(q) => ValidOverride(q)'
  BY DEF ValidOverride, RecordsGrow, EdgeOf
<1>4. PassedContradictions(q) = {} => PassedContradictions(q)' = {}
  <2> SUFFICES ASSUME NEW k \in PassedContradictions(q)'
               PROVE  k \in PassedContradictions(q)
    OBVIOUS
  <2>1. k \in contradictions' /\ k.status = "OPEN" /\ k.created_at < q.requested_at
    BY DEF PassedContradictions
  <2>2. k.created_at # now
    BY <2>1 DEF Request
  <2> QED
    BY <2>1, <2>2 DEF PassedContradictions, RecordsGrow
<1> QED
  BY <1>1, <1>2, <1>3, <1>4 DEF Justified, EdgeOf

\* A step that writes none of the tables leaves justifications alone.
LEMMA JustificationUnchanged ==
    ASSUME UNCHANGED <<artifacts, reviews, contradictions, overrides>>, NEW q
    PROVE  Justified(q)' = Justified(q)
BY DEF Justified, Supported, AcceptingReview, ValidOverride,
       PassedContradictions, EdgeOf

\* Nor does it block or clear an approval.
LEMMA ClearanceUnchanged ==
    ASSUME UNCHANGED <<contradictions, overrides>>, NEW q
    PROVE  /\ Blocked(q.case)' = Blocked(q.case)
           /\ ValidOverride(q)' = ValidOverride(q)
BY DEF Blocked, ValidOverride, EdgeOf

\* A ledger row with the id of a request is that request's row.
LEMMA RowOfRequest ==
    ASSUME RequestsAreNamed, LedgerServesRequests,
           NEW q \in scheduled, NEW row \in ledger, row.id = q.id
    PROVE  row = RowFor(q, row.verdict)
<1>1. PICK p \in scheduled : row = RowFor(p, row.verdict)
  BY DEF LedgerServesRequests
<1>2. p = q
  BY <1>1 DEF RowFor, RequestsAreNamed
<1> QED
  BY <1>1, <1>2

\* Nothing is scheduled, decided or ledgered at first.
LEMMA InitInductive == Init => Inductive
<1> SUFFICES ASSUME Init PROVE Inductive
  OBVIOUS
<1>1. TypeOK
  BY InitType
<1>2. \A x \in Execution : execution[x] = Idle
  BY DEF Init
<1> QED
  BY <1>1, <1>2
     DEF Init, Idle, Inductive, RequestsAreNamed, RequestedInThePast,
         ExecutionsServeRequests, LedgerServesRequests, AnswersRepeatTheLedger,
         VerdictsHoldUntilCommit, AppliedIsJustified, PendingApprovalsAreClear

\* A step that leaves the records and the ledger alone, and moves one
\* execution to a step where it holds no verdict yet to be written.
LEMMA QuietStep ==
    ASSUME Inductive, TypeOK',
           UNCHANGED <<recordVars, scheduled, ledger>>,
           NEW x \in Execution, NEW r,
           execution' = [execution EXCEPT ![x] = r],
           r.step # "decided",
           r # Idle => r.request \in scheduled,
           r.step = "answering" => RowFor(r.request, r.verdict) \in ledger,
           \A a \in answers' :
              \E row \in ledger : row.id = a[1] /\ row.verdict = a[2]
    PROVE  Inductive'
<1> USE DEF Inductive, recordVars
<1>1. \A y \in Execution : execution'[y] = IF y = x THEN r ELSE execution[y]
  BY DEF TypeOK
<1>2. RequestsAreNamed' /\ RequestedInThePast' /\ LedgerServesRequests'
  BY DEF RequestsAreNamed, RequestedInThePast, LedgerServesRequests, RowFor
<1>3. ExecutionsServeRequests'
  BY <1>1 DEF ExecutionsServeRequests
<1>4. AnswersRepeatTheLedger'
  BY <1>1 DEF AnswersRepeatTheLedger, RowFor
<1>5. VerdictsHoldUntilCommit'
  BY <1>1 DEF VerdictsHoldUntilCommit, EdgeOf
<1>6. AppliedIsJustified'
  BY <1>1, JustificationUnchanged DEF AppliedIsJustified, RowFor
<1>7. PendingApprovalsAreClear'
  BY <1>1, ClearanceUnchanged DEF PendingApprovalsAreClear, EdgeOf
<1> QED
  BY <1>2, <1>3, <1>4, <1>5, <1>6, <1>7

\* A new request is named by a new id and asked for now.
LEMMA ScheduleInductive ==
    ASSUME Inductive, TypeOK', NEW id \in RequestId, NEW t \in Template,
           Schedule(id, t)
    PROVE  Inductive'
<1> USE DEF Inductive, recordVars
<1> DEFINE p == [id |-> id, case |-> t.case, from |-> t.from, to |-> t.to,
                 review |-> t.review, override |-> t.override,
                 requested_at |-> now]
<1>1. scheduled' = scheduled \cup {p} /\ ~\E q \in scheduled : q.id = id
  BY DEF Schedule
<1>2. RequestsAreNamed'
  BY <1>1 DEF RequestsAreNamed
<1>3. RequestedInThePast'
  BY <1>1 DEF Schedule, RequestedInThePast, TypeOK, RecordsTypeOK
<1>4. ExecutionsServeRequests' /\ LedgerServesRequests' /\ VerdictsHoldUntilCommit'
  BY <1>1 DEF Schedule, ExecutionsServeRequests, LedgerServesRequests,
              VerdictsHoldUntilCommit, RowFor, EdgeOf
<1>5. AnswersRepeatTheLedger'
  BY DEF Schedule, AnswersRepeatTheLedger, RowFor
<1>6. AppliedIsJustified'
  <2>1. RowFor(p, "APPLIED") \notin ledger
    BY <1>1 DEF LedgerServesRequests, RowFor
  <2> QED
    BY <1>1, <2>1, JustificationUnchanged DEF Schedule, AppliedIsJustified, RowFor
<1>7. PendingApprovalsAreClear'
  BY ClearanceUnchanged DEF Schedule, PendingApprovalsAreClear, EdgeOf
<1> QED
  BY <1>2, <1>3, <1>4, <1>5, <1>6, <1>7

\* The guard under the lock: the new verdict is the only one of its case.
LEMMA DecideInductive ==
    ASSUME Inductive, TypeOK', NEW x \in Execution, Decide(x)
    PROVE  Inductive'
<1> USE DEF Inductive, recordVars
<1> DEFINE q == execution[x].request
<1>1. PICK row \in FirstRequirementSet(q.case) :
          execution' = [execution EXCEPT ![x] =
              [step |-> "decided", request |-> q, verdict |-> VerdictOf(q, row)]]
  BY DEF Decide
<1>2. \A y \in Execution : execution'[y] =
          IF y = x
          THEN [step |-> "decided", request |-> q, verdict |-> VerdictOf(q, row)]
          ELSE execution[y]
  BY <1>1 DEF TypeOK
<1>3. q \in scheduled /\ q \in Request
  BY DEF Decide, ExecutionsServeRequests, Idle, TypeOK
<1>4. RequestsAreNamed' /\ RequestedInThePast' /\ LedgerServesRequests'
  BY DEF Decide, RequestsAreNamed, RequestedInThePast, LedgerServesRequests, RowFor
<1>5. ExecutionsServeRequests'
  BY <1>2, <1>3 DEF Decide, ExecutionsServeRequests
<1>6. AnswersRepeatTheLedger'
  BY <1>2 DEF Decide, AnswersRepeatTheLedger, RowFor
<1>7. VerdictsHoldUntilCommit'
  <2>1. \A y \in Execution :
            execution[y].step = "decided" => execution[y].request.case # q.case
    BY DEF Decide, Locked
  <2>2. VerdictOf(q, row) = "APPLIED" =>
            case_state[q.case] = q.from /\ EdgeOf(q) \in LegalEdge
    <3>1. EdgeOf(q) \in Edge
      BY <1>3 DEF Request, EdgeOf, Edge
    <3> QED
      BY <3>1, AppliedIsLegal
  <2> QED
    BY <1>2, <2>1, <2>2 DEF Decide, VerdictsHoldUntilCommit, EdgeOf
<1>8. AppliedIsJustified'
  <2>1. VerdictOf(q, row) = "APPLIED" => Justified(q)
    BY <1>3, GuardJustifies
  <2> QED
    BY <1>2, <2>1, JustificationUnchanged DEF Decide, AppliedIsJustified, RowFor
<1>9. PendingApprovalsAreClear'
  <2>1. VerdictOf(q, row) = "APPLIED" /\ EdgeOf(q) = Approval =>
            ~Blocked(q.case) \/ ValidOverride(q)
    BY AppliedApproval
  <2> QED
    BY <1>2, <2>1, ClearanceUnchanged DEF Decide, PendingApprovalsAreClear, EdgeOf
<1> QED
  BY <1>4, <1>5, <1>6, <1>7, <1>8, <1>9

\* The commit writes the row of a verdict that still holds, and moves no case
\* another verdict is about: the lock has kept the others out.
LEMMA CommitInductive ==
    ASSUME Inductive, TypeOK', NEW x \in Execution, Commit(x)
    PROVE  Inductive'
<1> USE DEF Inductive, recordVars
<1> DEFINE q == execution[x].request
           verdict == execution[x].verdict
<1>1. \A y \in Execution : execution'[y] =
          IF y = x THEN [execution[x] EXCEPT !.step = "answering"]
          ELSE execution[y]
  BY DEF Commit, CaseStateAfter, TypeOK
<1>2. execution[x] \in [step : {"decided", "answering"}, request : Request,
                        verdict : Verdict]
  BY DEF Commit, TypeOK, ExecutionState, Idle
<1>3. q \in scheduled
  BY <1>2 DEF Commit, ExecutionsServeRequests, Idle
<1>4. execution'[x] =
          [step |-> "answering", request |-> q, verdict |-> verdict]
  BY <1>1, <1>2
<1>5. ledger' = ledger \cup {RowFor(q, verdict)}
      /\ ~\E row \in ledger : row.id = q.id
  BY DEF Commit, Ledgered
<1>6. RequestsAreNamed' /\ RequestedInThePast'
  BY DEF Commit, RequestsAreNamed, RequestedInThePast
<1>7. ExecutionsServeRequests'
  BY <1>1, <1>3, <1>4 DEF Commit, ExecutionsServeRequests
<1>8. LedgerServesRequests'
  BY <1>3, <1>5 DEF Commit, LedgerServesRequests, RowFor
<1>9. AnswersRepeatTheLedger'
  <2>1. \A r1, r2 \in ledger' : r1.id = r2.id => r1 = r2
    BY <1>5 DEF AnswersRepeatTheLedger, RowFor
  <2>2. \A y \in Execution : execution'[y].step = "answering" =>
            RowFor(execution'[y].request, execution'[y].verdict) \in ledger'
    BY <1>1, <1>4, <1>5 DEF AnswersRepeatTheLedger
  <2>3. \A a \in answers' : \E row \in ledger' : row.id = a[1] /\ row.verdict = a[2]
    BY <1>5 DEF Commit, AnswersRepeatTheLedger
  <2> QED
    BY <2>1, <2>2, <2>3 DEF AnswersRepeatTheLedger, RowFor
<1>10. VerdictsHoldUntilCommit'
  <2>1. ASSUME NEW y \in Execution, execution'[y].step = "decided"
        PROVE  /\ y # x
               /\ execution'[y] = execution[y]
               /\ case_state'[execution[y].request.case] =
                      case_state[execution[y].request.case]
    <3>1. y # x /\ execution'[y] = execution[y]
      BY <2>1, <1>1, <1>4
    <3>2. execution[y].request.case # q.case
      BY <3>1, <2>1 DEF Commit, VerdictsHoldUntilCommit
    <3> QED
      BY <3>1, <3>2 DEF Commit, CaseStateAfter, TypeOK, RecordsTypeOK
  <2> QED
    BY <2>1 DEF VerdictsHoldUntilCommit, EdgeOf
<1>11. AppliedIsJustified'
  <2>1. ASSUME NEW p \in scheduled, RowFor(p, "APPLIED") \in ledger'
        PROVE  Justified(p)
    <3>1. CASE RowFor(p, "APPLIED") \in ledger
      BY <3>1 DEF AppliedIsJustified
    <3>2. CASE RowFor(p, "APPLIED") = RowFor(q, verdict)
      <4>1. p = q /\ verdict = "APPLIED"
        BY <3>2, <1>3 DEF RowFor, RequestsAreNamed
      <4> QED
        BY <4>1 DEF Commit, AppliedIsJustified
    <3> QED
      BY <2>1, <1>5, <3>1, <3>2
  <2>2. UNCHANGED <<artifacts, reviews, contradictions, overrides, scheduled>>
    BY DEF Commit, CaseStateAfter
  <2>3. \A y \in Execution : execution'[y].step = "decided" =>
            execution'[y] = execution[y]
    BY <1>1, <1>4
  <2> QED
    BY <2>1, <2>2, <2>3, JustificationUnchanged DEF AppliedIsJustified, RowFor
<1>12. PendingApprovalsAreClear'
  BY <1>1, <1>4, ClearanceUnchanged DEF Commit, PendingApprovalsAreClear, EdgeOf
<1> QED
  BY <1>6, <1>7, <1>8, <1>9, <1>10, <1>11, <1>12

\* A write beside the executions undoes no verdict and no justification.
LEMMA WriteInductive ==
    ASSUME Inductive, TypeOK', WriteRecords
    PROVE  Inductive'
<1> USE DEF Inductive
<1>1. RecordsGrow
  BY WritesGrow DEF WriteRecords
<1>2. UNCHANGED <<scheduled, ledger, audit, execution, answers, crashes>>
  BY DEF WriteRecords, activityVars
<1>3. RequestsAreNamed' /\ ExecutionsServeRequests' /\ LedgerServesRequests'
      /\ AnswersRepeatTheLedger'
  BY <1>2 DEF RequestsAreNamed, ExecutionsServeRequests, LedgerServesRequests,
              AnswersRepeatTheLedger, RowFor
<1>4. RequestedInThePast'
  BY <1>1, <1>2
     DEF RecordsGrow, RequestedInThePast, TypeOK, RecordsTypeOK, Request
<1>5. VerdictsHoldUntilCommit'
  <2>1. ASSUME NEW x \in Execution, execution[x].step = "decided",
               execution[x].verdict = "APPLIED"
        PROVE  case_state'[execution[x].request.case] = execution[x].request.from
    <3>1. Locked(execution[x].request.case) /\ execution[x].request.case \in Case
      BY <2>1 DEF Locked, TypeOK, ExecutionState, Idle, Request
    <3> QED
      BY <2>1, <3>1 DEF VerdictsHoldUntilCommit, WriteRecords, InsertsWait
  <2> QED
    BY <1>2, <2>1 DEF VerdictsHoldUntilCommit, EdgeOf
<1>6. AppliedIsJustified'
  <2>1. ASSUME NEW q \in scheduled, Justified(q) PROVE Justified(q)'
    BY <1>1, <2>1, JustificationLasts DEF TypeOK, RequestedInThePast
  <2>2. \A x \in Execution :
            execution[x].step = "decided" => execution[x].request \in scheduled
    BY DEF ExecutionsServeRequests, Idle
  <2> QED
    BY <1>2, <2>1, <2>2 DEF AppliedIsJustified, RowFor
<1>7. PendingApprovalsAreClear'
  <2>1. ASSUME NEW x \in Execution, execution[x].step = "decided",
               Blocked(execution[x].request.case)'
        PROVE  Blocked(execution[x].request.case)
    <3>1. Locked(execution[x].request.case) /\ execution[x].request.case \in Case
      BY <2>1 DEF Locked, TypeOK, ExecutionState, Idle, Request
    <3> QED
      BY <1>2, <2>1, <3>1 DEF WriteRecords, InsertsWait, Blocked
  <2>2. ASSUME NEW q, ValidOverride(q) PROVE ValidOverride(q)'
    BY <1>1, <2>2 DEF ValidOverride, RecordsGrow, EdgeOf
  <2> QED
    BY <1>2, <2>1, <2>2 DEF PendingApprovalsAreClear, EdgeOf
<1> QED
  BY <1>3, <1>4, <1>5, <1>6, <1>7

\* Every step keeps the inductive invariant.
THEOREM NextInductive == Inductive /\ [Next]_vars => Inductive'
<1> SUFFICES ASSUME Inductive, [Next]_vars PROVE Inductive'
  OBVIOUS
<1>0. TypeOK'
  BY NextType DEF Inductive
<1> USE <1>0
<1>1. ASSUME NEW id \in RequestId, NEW t \in Template, Schedule(id, t)
      PROVE  Inductive'
  BY <1>1, ScheduleInductive
<1>2. ASSUME NEW x \in Execution, NEW q \in scheduled, LookupMiss(x, q)
      PROVE  Inductive'
  <2> DEFINE r == [step |-> "missed", request |-> q]
  <2>1. execution' = [execution EXCEPT ![x] = r] /\ r.step # "decided"
    BY <1>2 DEF LookupMiss
  <2>2. \A a \in answers' : \E row \in ledger : row.id = a[1] /\ row.verdict = a[2]
    BY <1>2 DEF LookupMiss, Inductive, AnswersRepeatTheLedger
  <2> QED
    BY <1>2, <2>1, <2>2, QuietStep DEF LookupMiss
<1>3. ASSUME NEW x \in Execution, NEW q \in scheduled, LookupHit(x, q)
      PROVE  Inductive'
  <2>1. PICK row \in ledger :
            /\ row.id = q.id
            /\ execution' = [execution EXCEPT ![x] =
                  [step |-> "answering", request |-> q, verdict |-> row.verdict]]
    BY <1>3 DEF LookupHit
  <2> DEFINE r == [step |-> "answering", request |-> q, verdict |-> row.verdict]
  <2>2. RowFor(r.request, r.verdict) \in ledger
    BY <2>1, RowOfRequest DEF Inductive
  <2>3. \A a \in answers' : \E w \in ledger : w.id = a[1] /\ w.verdict = a[2]
    BY <1>3 DEF LookupHit, Inductive, AnswersRepeatTheLedger
  <2>4. /\ execution' = [execution EXCEPT ![x] = r]
        /\ r.step = "answering"
        /\ r.request \in scheduled
        /\ UNCHANGED <<recordVars, scheduled, ledger>>
    BY <1>3, <2>1 DEF LookupHit
  <2> HIDE DEF r
  <2> QED
    BY <2>2, <2>3, <2>4, QuietStep
<1>4. ASSUME NEW x \in Execution, Decide(x)
      PROVE  Inductive'
  BY <1>4, DecideInductive
<1>5. ASSUME NEW x \in Execution, CaseMissing(x)
      PROVE  Inductive'
  <2>1. \A a \in answers' : \E row \in ledger : row.id = a[1] /\ row.verdict = a[2]
    BY <1>5 DEF CaseMissing, Inductive, AnswersRepeatTheLedger
  <2>3. /\ execution' = [execution EXCEPT ![x] = Idle]
        /\ UNCHANGED <<recordVars, scheduled, ledger>>
    BY <1>5 DEF CaseMissing
  <2>4. Idle.step = "idle"
    BY DEF Idle
  <2> QED
    BY <2>1, <2>3, <2>4, QuietStep
<1>6. ASSUME NEW x \in Execution, Commit(x)
      PROVE  Inductive'
  BY <1>6, CommitInductive
<1>7. ASSUME NEW x \in Execution, CommitConflict(x)
      PROVE  Inductive'
  <2> DEFINE r == [step |-> "raced", request |-> execution[x].request]
  <2>1. r.request \in scheduled
    BY <1>7 DEF CommitConflict, Inductive, ExecutionsServeRequests, Idle
  <2>2. \A a \in answers' : \E row \in ledger : row.id = a[1] /\ row.verdict = a[2]
    BY <1>7 DEF CommitConflict, Inductive, AnswersRepeatTheLedger
  <2>3. r.step = "raced" /\ execution' = [execution EXCEPT ![x] = r]
    BY <1>7 DEF CommitConflict
  <2> QED
    BY <1>7, <2>1, <2>2, <2>3, QuietStep DEF CommitConflict
<1>8. ASSUME NEW x \in Execution, Reload(x)
      PROVE  Inductive'
  <2>1. PICK row \in ledger :
            /\ row.id = execution[x].request.id
            /\ execution' = [execution EXCEPT ![x] =
                  [step |-> "answering", request |-> execution[x].request,
                   verdict |-> row.verdict]]
    BY <1>8 DEF Reload
  <2> DEFINE r == [step |-> "answering", request |-> execution[x].request,
                   verdict |-> row.verdict]
  <2>2. r.request \in scheduled
    BY <1>8 DEF Reload, Inductive, ExecutionsServeRequests, Idle
  <2>3. RowFor(r.request, r.verdict) \in ledger
    BY <2>1, <2>2, RowOfRequest DEF Inductive
  <2>4. \A a \in answers' : \E w \in ledger : w.id = a[1] /\ w.verdict = a[2]
    BY <1>8 DEF Reload, Inductive, AnswersRepeatTheLedger
  <2>5. /\ execution' = [execution EXCEPT ![x] = r]
        /\ r.step = "answering"
        /\ UNCHANGED <<recordVars, scheduled, ledger>>
    BY <1>8, <2>1 DEF Reload
  <2> HIDE DEF r
  <2> QED
    BY <2>2, <2>3, <2>4, <2>5, QuietStep
<1>9. ASSUME NEW x \in Execution, Return(x)
      PROVE  Inductive'
  <2>1. RowFor(execution[x].request, execution[x].verdict) \in ledger
    BY <1>9 DEF Return, Inductive, AnswersRepeatTheLedger
  <2>2. \A a \in answers' : \E row \in ledger : row.id = a[1] /\ row.verdict = a[2]
    BY <1>9, <2>1 DEF Return, Inductive, AnswersRepeatTheLedger, RowFor
  <2>3. /\ execution' = [execution EXCEPT ![x] = Idle]
        /\ UNCHANGED <<recordVars, scheduled, ledger>>
    BY <1>9 DEF Return
  <2>4. Idle.step = "idle"
    BY DEF Idle
  <2> QED
    BY <2>2, <2>3, <2>4, QuietStep
<1>10. ASSUME NEW x \in Execution, Crash(x)
       PROVE  Inductive'
  <2>1. \A a \in answers' : \E row \in ledger : row.id = a[1] /\ row.verdict = a[2]
    BY <1>10 DEF Crash, Inductive, AnswersRepeatTheLedger
  <2>3. /\ execution' = [execution EXCEPT ![x] = Idle]
        /\ UNCHANGED <<recordVars, scheduled, ledger>>
    BY <1>10 DEF Crash
  <2>4. Idle.step = "idle"
    BY DEF Idle
  <2> QED
    BY <2>1, <2>3, <2>4, QuietStep
<1>11. CASE WriteRecords
  BY <1>11, WriteInductive
<1>12. CASE UNCHANGED vars
  <2>1. RequestsAreNamed' /\ RequestedInThePast' /\ ExecutionsServeRequests'
        /\ LedgerServesRequests'
    BY <1>12
       DEF vars, recordVars, activityVars, Inductive, RequestsAreNamed,
           RequestedInThePast, ExecutionsServeRequests, LedgerServesRequests, RowFor
  <2>2. AnswersRepeatTheLedger' /\ VerdictsHoldUntilCommit'
    BY <1>12
       DEF vars, recordVars, activityVars, Inductive, AnswersRepeatTheLedger,
           VerdictsHoldUntilCommit, RowFor, EdgeOf
  <2>3. AppliedIsJustified'
    BY <1>12, JustificationUnchanged
       DEF vars, recordVars, activityVars, Inductive, AppliedIsJustified, RowFor
  <2>4. PendingApprovalsAreClear'
    BY <1>12, ClearanceUnchanged
       DEF vars, recordVars, activityVars, Inductive, PendingApprovalsAreClear, EdgeOf
  <2> QED
    BY <2>1, <2>2, <2>3, <2>4 DEF Inductive
<1> QED
  BY <1>1, <1>2, <1>3, <1>4, <1>5, <1>6, <1>7, <1>8, <1>9, <1>10, <1>11, <1>12
     DEF Next, Run

\* The inductive invariant holds in every reachable state.
THEOREM InductiveInvariant == Spec => []Inductive
<1> QED
  BY InitInductive, NextInductive, PTL DEF Spec

-----------------------------------------------------------------------------
(***************************************************************************)
(* What follows from it.                                                   *)
(***************************************************************************)
\* apply_state_transition is idempotent on request_id.
THEOREM Idempotent == Spec => []AnswersRepeatTheLedger
<1>1. Inductive => AnswersRepeatTheLedger
  BY DEF Inductive
<1> QED
  BY <1>1, InductiveInvariant, PTL

\* The case row's lock keeps a verdict true from the guard to the commit.
THEOREM VerdictsHold == Spec => []VerdictsHoldUntilCommit
<1>1. Inductive => VerdictsHoldUntilCommit
  BY DEF Inductive
<1> QED
  BY <1>1, InductiveInvariant, PTL

\* The request an applied row records was justified, and still is.
LEMMA AppliedRowIsJustified ==
    ASSUME Inductive, NEW row \in Applied
    PROVE  Justified(RequestOf(row)) /\ EdgeOf(RequestOf(row)) = EdgeOf(row)
<1>1. row \in ledger /\ row.verdict = "APPLIED"
  BY DEF Applied
<1>2. PICK q \in scheduled : row = RowFor(q, row.verdict)
  BY <1>1 DEF Inductive, LedgerServesRequests
<1>3. RequestOf(row) = q
  BY <1>2 DEF RequestOf, RowFor, Inductive, RequestsAreNamed
<1>4. Justified(q)
  BY <1>1, <1>2 DEF Inductive, AppliedIsJustified
<1> QED
  BY <1>2, <1>3, <1>4 DEF RowFor, EdgeOf

\* Every approval rests on an accepting decision about its own case.
THEOREM ApprovalNeedsReview == Spec => []ApprovalsAreReviewed
<1>1. Inductive => ApprovalsAreReviewed
  BY AppliedRowIsJustified DEF ApprovalsAreReviewed, Justified
<1> QED
  BY <1>1, InductiveInvariant, PTL

\* No approval passes a contradiction without a valid override.
THEOREM ContradictionsGate == Spec => []ContradictionsGateApproval
<1>1. Inductive => ContradictionsGateApproval
  BY AppliedRowIsJustified DEF ContradictionsGateApproval, Justified
<1> QED
  BY <1>1, InductiveInvariant, PTL

\* What the guard has read about contradictions is still so at the commit.
THEOREM ContradictionsAreSeen == Spec => ApprovalsSeeContradictions
<1> DEFINE Seen == \A row \in ledger' \ ledger :
                       row.verdict = "APPLIED" /\ EdgeOf(row) = Approval =>
                           \/ ~Blocked(row.case)
                           \/ \E q \in scheduled : q.id = row.id /\ ValidOverride(q)
<1>1. ASSUME Inductive, NEW x \in Execution, Commit(x) PROVE Seen
  <2> DEFINE q == execution[x].request
             verdict == execution[x].verdict
  <2>1. ledger' = ledger \cup {RowFor(q, verdict)} /\ execution[x].step = "decided"
    BY <1>1 DEF Commit
  <2>2. q \in scheduled
    BY <1>1, <2>1 DEF Inductive, ExecutionsServeRequests, Idle
  <2>3. verdict = "APPLIED" /\ EdgeOf(q) = Approval =>
            ~Blocked(q.case) \/ ValidOverride(q)
    BY <1>1, <2>1 DEF Inductive, PendingApprovalsAreClear
  <2> QED
    BY <2>1, <2>2, <2>3 DEF RowFor, EdgeOf
<1>2. ASSUME NEW x \in Execution, Run(x), ~Commit(x) PROVE UNCHANGED ledger
  BY <1>2 DEF Run, LookupMiss, LookupHit, Decide, CaseMissing, CommitConflict,
              Reload, Return
<1>3. ASSUME [Next]_vars, \A x \in Execution : ~Commit(x) PROVE UNCHANGED ledger
  BY <1>2, <1>3 DEF Next, Schedule, Crash, WriteRecords, activityVars, vars
<1>4. Inductive /\ [Next]_vars => [Seen]_vars
  BY <1>1, <1>3
<1> QED
  BY <1>4, InductiveInvariant, PTL DEF Spec, ApprovalsSeeContradictions

\* Every pipeline advance is supported by rows that are still there.
THEOREM AdvanceNeedsRows == Spec => []AdvancesAreSupported
<1>1. Inductive => AdvancesAreSupported
  BY AppliedRowIsJustified DEF AdvancesAreSupported, Justified
<1> QED
  BY <1>1, InductiveInvariant, PTL

-----------------------------------------------------------------------------
(***************************************************************************)
(* No lost update: the audit trail of a case is a path to its state.       *)
(***************************************************************************)
\* A ledger id names one row, so an event reports the row that has its id.
LEMMA RowAtIsTheRow ==
    ASSUME AnswersRepeatTheLedger, NEW i, NEW row \in ledger, row.id = audit[i][1]
    PROVE  RowAt(i) = row
BY DEF RowAt, AnswersRepeatTheLedger

LEMMA RowAtIsLedgered ==
    ASSUME AuditMatchesLedger, AnswersRepeatTheLedger, NEW i \in DOMAIN audit
    PROVE  RowAt(i) \in ledger /\ audit[i] = <<RowAt(i).id, RowAt(i).verdict>>
<1>1. PICK row \in ledger : audit[i] = <<row.id, row.verdict>>
  BY DEF AuditMatchesLedger
<1>2. RowAt(i) = row
  BY <1>1, RowAtIsTheRow
<1> QED
  BY <1>1, <1>2

\* The case of a path's last row has been created.
LEMMA PathReachesAState ==
    ASSUME TypeOK, AnswersRepeatTheLedger, AuditMatchesLedger, NEW c,
           TrailIsAPath(c), Trail(c) # {}
    PROVE  case_state[c] # "ABSENT"
<1>1. PICK last \in Trail(c) : Connected(c, RowAt(last).to, case_state[c])
  BY DEF TrailIsAPath
<1>2. RowAt(last) \in LedgerRow
  BY RowAtIsLedgered DEF Trail, TypeOK
<1> QED
  BY <1>1, <1>2 DEF LedgerRow, CaseState, Connected, PackageMove

\* A case is left where it is, created, or taken on with its package stored.
LeftOrMovedOn(c) ==
    \/ case_state'[c] = case_state[c]
    \/ case_state[c] = "ABSENT" /\ case_state'[c] \in CreationState
    \/ <<case_state[c], case_state'[c]>> = PackageMove /\ artifacts'[c].package

\* A step that writes neither the ledger nor the trail may create a case or
\* take it on.
LEMMA QuietStepKeepsPath ==
    ASSUME Inductive, LedgerIsAPath, UNCHANGED <<ledger, audit>>,
           \A c \in Case : artifacts[c].package => artifacts'[c].package,
           \A c \in Case : LeftOrMovedOn(c)
    PROVE  LedgerIsAPath'
<1>1. AuditMatchesLedger'
  BY DEF LedgerIsAPath, AuditMatchesLedger
<1>2. \A i : RowAt(i)' = RowAt(i)
  BY DEF RowAt
<1>3. ASSUME NEW c \in Case PROVE TrailIsAPath(c)'
  <2>1. TrailIsAPath(c) /\ AuditMatchesLedger
    BY DEF LedgerIsAPath
  <2>2. Trail(c)' = Trail(c)
    BY <1>2 DEF Trail
  <2>5. ASSUME NEW s, NEW t, Connected(c, s, t) PROVE Connected(c, s, t)'
    BY <2>5 DEF Connected
  <2>3. CASE case_state'[c] = case_state[c]
    BY <1>2, <2>1, <2>2, <2>3, <2>5 DEF TrailIsAPath
  <2>6. CASE <<case_state[c], case_state'[c]>> = PackageMove /\ artifacts'[c].package
    <3>1. Trail(c) # {}
      BY <2>1, <2>6 DEF TrailIsAPath, PackageMove, CreationState
    <3>2. ASSUME NEW s, Connected(c, s, case_state[c])
          PROVE  Connected(c, s, case_state[c])'
      BY <2>6, <3>2 DEF Connected, PackageMove
    <3> QED
      BY <1>2, <2>1, <2>2, <2>5, <3>1, <3>2 DEF TrailIsAPath
  <2>4. CASE case_state[c] = "ABSENT" /\ case_state'[c] \in CreationState
    <3>1. Trail(c) = {}
      BY <2>1, <2>4, PathReachesAState DEF Inductive
    <3> QED
      BY <2>2, <2>4, <3>1 DEF TrailIsAPath
  <2> QED
    BY <2>3, <2>4, <2>6 DEF LeftOrMovedOn
<1> QED
  BY <1>1, <1>3 DEF LedgerIsAPath

\* A write of the records creates cases, and moves none but the one whose
\* package it stores.
LEMMA WritesLeaveOrMoveOn ==
    ASSUME Inductive, RecordsWrite, NEW c \in Case
    PROVE  LeftOrMovedOn(c)
<1> USE DEF LeftOrMovedOn
<1>1. ASSUME NEW d \in Case, CreateCase(d) \/ EnsurePermitCaseExists(d)
      PROVE  LeftOrMovedOn(c)
  BY <1>1 DEF CreateCase, EnsurePermitCaseExists, Exists, CreationState, Inductive,
              TypeOK, RecordsTypeOK
<1>3. ASSUME NEW d \in PipelineCase, PersistSubmissionPackage(d)
      PROVE  LeftOrMovedOn(c)
  <2>1. d \in Case /\ artifacts \in [Case -> Artifacts]
           /\ case_state \in [Case -> CaseState \cup {"ABSENT"}]
    BY BoundAssumption DEF Inductive, TypeOK, RecordsTypeOK
  <2>2. artifacts'[d].package
    BY <1>3, <2>1 DEF PersistSubmissionPackage, Artifacts
  <2> QED
    BY <1>3, <2>1, <2>2 DEF PersistSubmissionPackage, PackageMove
<1>2. CASE ReviewingWrite \/ PipelineWrite \/ Tick
  BY <1>2, <1>3
     DEF ReviewingWrite, RecordReview, CreateContradiction, ResolveContradiction,
         CreateOverride, PipelineWrite, Persist, PersistJurisdictionResolutions,
         PersistRequirementSets, PersistComplianceEvaluation,
         PersistIncentiveAssessment, PersistManualFallback, ConfirmProofBundle, Tick
<1> QED
  BY <1>1, <1>2 DEF RecordsWrite

\* A commit adds one event at the end of the trail, for the row it adds.
LEMMA CommitExtendsTrail ==
    ASSUME Inductive, Inductive', LedgerIsAPath, NEW x \in Execution, Commit(x),
           NEW q, q = execution[x].request, NEW n, n = Len(audit) + 1,
           NEW verdict, verdict = execution[x].verdict
    PROVE  /\ AuditMatchesLedger'
           /\ \A i \in DOMAIN audit : i < n /\ RowAt(i)' = RowAt(i)
           /\ RowAt(n)' = RowFor(q, verdict)
           /\ \A c : Trail(c)' = IF verdict = "APPLIED" /\ c = q.case
                                 THEN Trail(c) \cup {n} ELSE Trail(c)
<1> USE DEF Inductive
<1>1. ledger' = ledger \cup {RowFor(q, verdict)} /\ \A row \in ledger : row.id # q.id
  BY DEF Commit, Ledgered
<1>2. audit \in Seq(RequestId \X Verdict) /\ AuditMatchesLedger
  BY DEF TypeOK, LedgerIsAPath
<1>3. DOMAIN audit \in SUBSET Nat /\ \A i \in DOMAIN audit : i < n
  BY <1>2
<1>4. /\ DOMAIN audit' = DOMAIN audit \cup {n}
      /\ audit'[n] = <<q.id, verdict>>
      /\ \A i \in DOMAIN audit : audit'[i] = audit[i]
  BY <1>2 DEF Commit
<1>5. \A i \in DOMAIN audit : RowAt(i) \in ledger /\ audit[i] = <<RowAt(i).id, RowAt(i).verdict>>
  BY <1>2, RowAtIsLedgered
<1>6. RowFor(q, verdict).id = q.id /\ RowFor(q, verdict).verdict = verdict
      /\ RowFor(q, verdict).case = q.case
  BY DEF RowFor
<1>7. AuditMatchesLedger'
  <2>1. \A row \in ledger' : \E i \in DOMAIN audit' : audit'[i] = <<row.id, row.verdict>>
    <3>1. \A row \in ledger : \E i \in DOMAIN audit' : audit'[i] = <<row.id, row.verdict>>
      BY <1>2, <1>4 DEF AuditMatchesLedger
    <3>2. audit'[n] = <<RowFor(q, verdict).id, RowFor(q, verdict).verdict>>
      BY <1>4, <1>6
    <3> QED
      BY <1>1, <1>4, <3>1, <3>2
  <2>2. \A i \in DOMAIN audit' : \E row \in ledger' : audit'[i] = <<row.id, row.verdict>>
    <3>1. \A i \in DOMAIN audit : \E row \in ledger : audit'[i] = <<row.id, row.verdict>>
      BY <1>2, <1>4 DEF AuditMatchesLedger
    <3>2. audit'[n] = <<RowFor(q, verdict).id, RowFor(q, verdict).verdict>>
      BY <1>4, <1>6
    <3> QED
      BY <1>1, <1>4, <3>1, <3>2
  <2>3. \A i, j \in DOMAIN audit' : audit'[i][1] = audit'[j][1] => i = j
    <3>1. \A i \in DOMAIN audit : audit'[i][1] # q.id
      BY <1>1, <1>4, <1>5
    <3>2. \A i, j \in DOMAIN audit : audit'[i][1] = audit'[j][1] => i = j
      BY <1>2, <1>4 DEF AuditMatchesLedger
    <3>3. audit'[n][1] = q.id
      BY <1>4
    <3> QED
      BY <1>4, <3>1, <3>2, <3>3
  <2> QED
    BY <2>1, <2>2, <2>3 DEF AuditMatchesLedger
<1>8. \A r1, r2 \in ledger' : r1.id = r2.id => r1 = r2
  BY DEF AnswersRepeatTheLedger
<1>9. ASSUME NEW i \in DOMAIN audit PROVE RowAt(i)' = RowAt(i)
  <2>1. RowAt(i) \in ledger' /\ RowAt(i).id = audit'[i][1]
    BY <1>1, <1>4, <1>5
  <2> QED
    BY <1>8, <2>1 DEF RowAt
<1>10. RowAt(n)' = RowFor(q, verdict)
  BY <1>1, <1>4, <1>6, <1>8 DEF RowAt
<1>11. ASSUME NEW c
       PROVE  Trail(c)' = IF verdict = "APPLIED" /\ c = q.case
                          THEN Trail(c) \cup {n} ELSE Trail(c)
  <2>1. Trail(c)' = {i \in DOMAIN audit' : audit'[i][2] = "APPLIED" /\ RowAt(i)'.case = c}
    BY DEF Trail
  <2>2. n \in Trail(c)' <=> verdict = "APPLIED" /\ c = q.case
    BY <1>4, <1>6, <1>10, <2>1
  <2>3. \A i \in DOMAIN audit : i \in Trail(c)' <=> i \in Trail(c)
    BY <1>4, <1>9, <2>1 DEF Trail
  <2>4. Trail(c) \subseteq DOMAIN audit /\ Trail(c)' \subseteq DOMAIN audit \cup {n}
    BY <1>4, <2>1 DEF Trail
  <2>5. n \notin DOMAIN audit
    BY <1>3
  <2> QED
    BY <2>2, <2>3, <2>4, <2>5
<1> QED
  BY <1>3, <1>7, <1>9, <1>10, <1>11

\* A commit under the lock extends the path of its case from where it ends.
LEMMA CommitKeepsPath ==
    ASSUME Inductive, Inductive', LedgerIsAPath, NEW x \in Execution, Commit(x)
    PROVE  LedgerIsAPath'
<1>1. PICK q, n, verdict :
          /\ q = execution[x].request
          /\ n = Len(audit) + 1
          /\ verdict = execution[x].verdict
  OBVIOUS
<1>2. /\ AuditMatchesLedger'
      /\ \A i \in DOMAIN audit : i < n /\ RowAt(i)' = RowAt(i)
      /\ RowAt(n)' = RowFor(q, verdict)
      /\ \A c : Trail(c)' = IF verdict = "APPLIED" /\ c = q.case
                            THEN Trail(c) \cup {n} ELSE Trail(c)
  BY <1>1, CommitExtendsTrail
<1>3. q \in Request /\ verdict \in Verdict /\ case_state \in [Case -> CaseState \cup {"ABSENT"}]
  BY <1>1 DEF Commit, Inductive, TypeOK, RecordsTypeOK, ExecutionState, Idle
<1>4. case_state' = CaseStateAfter(q, verdict)
  BY <1>1 DEF Commit
<1>5. n \in Nat /\ \A c : Trail(c) \subseteq DOMAIN audit /\ Trail(c) \subseteq Nat
  BY <1>1 DEF Inductive, TypeOK, Trail
<1>6. ASSUME NEW c \in Case PROVE TrailIsAPath(c)'
  <2>1. TrailIsAPath(c) /\ \A i \in Trail(c) : i < n /\ RowAt(i)' = RowAt(i)
    BY <1>2, <1>5 DEF LedgerIsAPath
  <2>4. \A s, t : Connected(c, s, t)' <=> Connected(c, s, t)
    BY DEF Connected, Commit
  <2>2. CASE ~(verdict = "APPLIED" /\ c = q.case)
    <3>1. Trail(c)' = Trail(c) /\ case_state'[c] = case_state[c]
      BY <1>2, <1>3, <1>4, <2>2 DEF CaseStateAfter
    <3> QED
      BY <2>1, <2>4, <3>1 DEF TrailIsAPath, Connected
  <2>3. CASE verdict = "APPLIED" /\ c = q.case
    <3>1. Trail(c)' = Trail(c) \cup {n} /\ n \notin Trail(c)
      BY <1>2, <1>5, <2>1, <2>3
    <3>2. case_state[c] = q.from /\ case_state'[c] = q.to
      BY <1>1, <1>3, <1>4, <2>3
         DEF Commit, CaseStateAfter, Inductive, VerdictsHoldUntilCommit
    <3>3. RowAt(n)'.from = case_state[c] /\ RowAt(n)'.to = case_state'[c]
      BY <1>2, <3>2 DEF RowFor
    <3>4. ASSUME NEW i \in Trail(c)', NEW j \in Trail(c)', i < j,
                 \A k \in Trail(c)' : k <= i \/ j <= k
          PROVE  Connected(c, RowAt(i)'.to, RowAt(j)'.from)
      <4>1. i \in Trail(c)
        BY <1>5, <2>1, <3>1, <3>4
      <4>2. CASE j \in Trail(c)
        BY <2>1, <3>1, <3>4, <4>1, <4>2 DEF TrailIsAPath
      <4>3. CASE j = n
        <5>1. PICK last \in Trail(c) :
                  Connected(c, RowAt(last).to, case_state[c]) /\ \A k \in Trail(c) : k <= last
          BY <2>1, <4>1 DEF TrailIsAPath
        <5>2. i = last
          BY <1>5, <2>1, <3>1, <3>4, <4>1, <4>3, <5>1
        <5> QED
          BY <2>1, <3>3, <4>1, <4>3, <5>1, <5>2
      <4> QED
        BY <3>1, <4>2, <4>3
    <3>5. \E first, last \in Trail(c)' :
              /\ \A k \in Trail(c)' : first <= k /\ k <= last
              /\ RowAt(first)'.from \in CreationState
              /\ Connected(c, RowAt(last)'.to, case_state'[c])
      <4> USE DEF Connected
      <4>1. CASE Trail(c) = {}
        <5>1. case_state[c] \in CreationState
          BY <1>3, <2>1, <3>2, <4>1 DEF TrailIsAPath, Request, CaseState
        <5> QED
          BY <1>5, <3>1, <3>3, <4>1, <5>1
      <4>2. CASE Trail(c) # {}
        <5>1. PICK first \in Trail(c) :
                  RowAt(first).from \in CreationState /\ \A k \in Trail(c) : first <= k
          BY <2>1, <4>2 DEF TrailIsAPath
        <5>2. RowAt(first)'.from \in CreationState /\ \A k \in Trail(c)' : first <= k /\ k <= n
          BY <1>5, <2>1, <3>1, <5>1
        <5> QED
          BY <3>1, <3>3, <5>1, <5>2
      <4> QED
        BY <4>1, <4>2
    <3>6. Trail(c)' # {}
      BY <3>1
    <3> QED
      BY <2>4, <3>4, <3>5, <3>6 DEF TrailIsAPath, Connected
  <2> QED
    BY <2>2, <2>3
<1> QED
  BY <1>2, <1>6 DEF LedgerIsAPath

\* No update of a case's state is lost: a path leads through every applied
\* transition, in commit order, to the state the case is in.
THEOREM LedgerPath == Spec => []LedgerIsAPath
<1>1. Init => LedgerIsAPath
  BY DEF Init, RecordsInit, LedgerIsAPath, AuditMatchesLedger, TrailIsAPath, Trail,
         CreationState
<1>2. ASSUME Inductive, Inductive', LedgerIsAPath, [Next]_vars
      PROVE  LedgerIsAPath'
  <2>1. ASSUME NEW x \in Execution, Commit(x) PROVE LedgerIsAPath'
    BY <1>2, <2>1, CommitKeepsPath
  <2>2. CASE \A x \in Execution : ~Commit(x)
    <3>1. UNCHANGED <<ledger, audit>>
      BY <1>2, <2>2
         DEF Next, Run, Schedule, LookupMiss, LookupHit, Decide, CaseMissing,
             CommitConflict, Reload, Return, Crash, WriteRecords, activityVars, vars
    <3>2. ASSUME NEW c \in Case
          PROVE  /\ LeftOrMovedOn(c)
                 /\ artifacts[c].package => artifacts'[c].package
      <4>1. CASE WriteRecords
        <5>1. RecordsGrow
          BY <1>2, <4>1, WritesGrow DEF WriteRecords, Inductive
        <5> QED
          BY <1>2, <4>1, <5>1, WritesLeaveOrMoveOn DEF WriteRecords, RecordsGrow, RowsGrow
      <4>2. CASE ~WriteRecords
        <5>1. UNCHANGED <<case_state, artifacts>>
          BY <1>2, <2>2, <4>2
             DEF Next, Run, Schedule, LookupMiss, LookupHit, Decide, CaseMissing,
                 CommitConflict, Reload, Return, Crash, recordVars, vars
        <5> QED
          BY <5>1 DEF LeftOrMovedOn
      <4> QED
        BY <4>1, <4>2
    <3> QED
      BY <1>2, <3>1, <3>2, QuietStepKeepsPath
  <2> QED
    BY <2>1, <2>2
<1> QED
  BY <1>1, <1>2, InductiveInvariant, PTL DEF Spec

-----------------------------------------------------------------------------
(***************************************************************************)
(* Refinement: executions that overlap, crash and repeat implement one     *)
(* atomic decision per request.                                            *)
(***************************************************************************)
\* No case, no decision and no answer at first.
LEMMA InitRefines == Init => Lifecycle!Init
BY DEF Init, RecordsInit, Lifecycle!Init

\* A commit maps to one decision, the recorded answer to one answer, a new
\* case row to a creation, and every other step to a stutter.
LEMMA NextRefines ==
    ASSUME Inductive, Inductive', [Next]_vars
    PROVE  [Lifecycle!Next]_(Lifecycle!vars)
<1> USE DEF recordVars
<1>1. ASSUME NEW id \in RequestId, NEW t \in Template, Schedule(id, t)
      PROVE  UNCHANGED Lifecycle!vars
  BY <1>1 DEF Schedule, Lifecycle!vars
<1>2. ASSUME NEW x \in Execution, NEW q \in scheduled,
             LookupMiss(x, q) \/ LookupHit(x, q)
      PROVE  UNCHANGED Lifecycle!vars
  BY <1>2 DEF LookupMiss, LookupHit, Lifecycle!vars
<1>3. ASSUME NEW x \in Execution,
             \/ Decide(x) \/ CaseMissing(x) \/ CommitConflict(x)
             \/ Reload(x) \/ Crash(x)
      PROVE  UNCHANGED Lifecycle!vars
  BY <1>3 DEF Decide, CaseMissing, CommitConflict, Reload, Crash, Lifecycle!vars
<1>4. ASSUME NEW x \in Execution, Commit(x)
      PROVE  Lifecycle!Next
  <2> DEFINE q == execution[x].request
             d == RowFor(q, execution[x].verdict)
  <2>1. q \in Request /\ execution[x].verdict \in Verdict
    BY <1>4 DEF Commit, Inductive, TypeOK, ExecutionState, Idle
  <2>2. d \in Lifecycle!Decision
    BY <2>1 DEF RowFor, Request, Lifecycle!Decision
  <2>3. Lifecycle!Undecided(d.id) /\ d \in ledger' /\ ledger' = ledger \cup {d}
    BY <1>4 DEF Commit, Ledgered, RowFor, Lifecycle!Undecided
  <2>4. CASE execution[x].verdict = "APPLIED"
    <3>1. case_state[q.case] = q.from /\ EdgeOf(q) \in LegalEdge
      BY <1>4, <2>4 DEF Commit, Inductive, VerdictsHoldUntilCommit
    <3>2. Lifecycle!Apply(d)
      BY <1>4, <2>4, <3>1 DEF Commit, CaseStateAfter, RowFor, EdgeOf, Lifecycle!Apply
    <3> QED
      BY <1>4, <2>2, <2>3, <3>2
         DEF Commit, Lifecycle!Decide, Lifecycle!DecisionNext, Lifecycle!Next
  <2>5. CASE execution[x].verdict # "APPLIED"
    <3>1. Lifecycle!Deny(d)
      BY <1>4, <2>5 DEF Commit, CaseStateAfter, RowFor, Lifecycle!Deny
    <3> QED
      BY <1>4, <2>2, <2>3, <3>1
         DEF Commit, Lifecycle!Decide, Lifecycle!DecisionNext, Lifecycle!Next
  <2> QED
    BY <2>4, <2>5
<1>5. ASSUME NEW x \in Execution, Return(x)
      PROVE  [Lifecycle!Next]_(Lifecycle!vars)
  <2> DEFINE d == RowFor(execution[x].request, execution[x].verdict)
  <2>1. d \in ledger
    BY <1>5 DEF Return, Inductive, AnswersRepeatTheLedger
  <2>2. CASE Answered(execution[x].request.id)
    BY <1>5, <2>2 DEF Return, Lifecycle!vars
  <2>3. CASE ~Answered(execution[x].request.id)
    <3>1. Lifecycle!Answer(d)
      BY <1>5, <2>3 DEF Return, Answered, RowFor, Lifecycle!Answer
    <3> QED
      BY <2>1, <3>1 DEF Lifecycle!DecisionNext, Lifecycle!Next
  <2> QED
    BY <2>2, <2>3
<1>6. CASE WriteRecords
  <2>1. UNCHANGED <<ledger, answers>>
    BY <1>6 DEF WriteRecords, activityVars
  <2>2. ASSUME NEW c \in Case, CreateCase(c) \/ EnsurePermitCaseExists(c)
        PROVE  Lifecycle!Next
    BY <2>1, <2>2
       DEF CreateCase, EnsurePermitCaseExists, Exists, Lifecycle!Create,
           Lifecycle!InitialState, Lifecycle!DecisionNext, Lifecycle!Next
  <2>4. ASSUME NEW c \in PipelineCase, PersistSubmissionPackage(c)
        PROVE  [Lifecycle!Next]_(Lifecycle!vars)
    <3>1. c \in Case
      BY BoundAssumption
    <3>2. CASE case_state[c] = "INCENTIVES_COMPLETE"
      BY <2>1, <2>4, <3>1, <3>2
         DEF PersistSubmissionPackage, Lifecycle!CompleteDocuments, Lifecycle!Next
    <3>3. CASE case_state[c] # "INCENTIVES_COMPLETE"
      BY <2>1, <2>4, <3>3 DEF PersistSubmissionPackage, Lifecycle!vars
    <3> QED
      BY <3>2, <3>3
  <2>3. CASE /\ ReviewingWrite \/ PipelineWrite \/ Tick
             /\ \A c \in PipelineCase : ~PersistSubmissionPackage(c)
    <3>1. UNCHANGED case_state
      BY <2>3
         DEF ReviewingWrite, RecordReview, CreateContradiction,
             ResolveContradiction, CreateOverride, PipelineWrite, Persist,
             PersistJurisdictionResolutions, PersistRequirementSets,
             PersistComplianceEvaluation, PersistIncentiveAssessment,
             PersistManualFallback, ConfirmProofBundle, Tick
    <3> QED
      BY <2>1, <3>1 DEF Lifecycle!vars
  <2> QED
    BY <1>6, <2>2, <2>3, <2>4 DEF WriteRecords, RecordsWrite
<1>7. CASE UNCHANGED vars
  BY <1>7 DEF vars, activityVars, Lifecycle!vars
<1> QED
  BY <1>1, <1>2, <1>3, <1>4, <1>5, <1>6, <1>7 DEF Next, Run

\* apply_state_transition keeps its promise: one atomic decision per request.
THEOREM Refinement == Spec => AtomicTransitions
<1>1. Inductive /\ Inductive' /\ [Next]_vars => [Lifecycle!Next]_(Lifecycle!vars)
  BY NextRefines
<1> QED
  BY <1>1, InitRefines, InductiveInvariant, PTL
     DEF Spec, AtomicTransitions, Lifecycle!Spec
=============================================================================
