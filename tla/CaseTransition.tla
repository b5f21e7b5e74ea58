--------------------------- MODULE CaseTransition ---------------------------
(***************************************************************************)
(* apply_state_transition (activities_impl.py) as worker threads run it:   *)
(* Temporal starts an execution again whenever an answer is missing, so    *)
(* executions of one request overlap, a worker dies between any two steps, *)
(* and a dead execution's transaction rolls back.  The steps are the       *)
(* statements other transactions can come between: the ledger lookup, the  *)
(* locked read of the case with the guard, the commit, and the answer.     *)
(***************************************************************************)
EXTENDS CaseRecords, Integers, Sequences, FiniteSets

CONSTANTS
    RequestId,      \* transition request ids (the ledger's primary key)
    Execution,      \* activity executions that may run at the same time
    Template,       \* bound: the requests a client may schedule
    MaxPending,     \* bound: the requests unanswered at one time
    MaxCrashes      \* bound: how often a worker dies

ASSUME TemplateAssumption ==
    Template \subseteq [case : Case, from : CaseState, to : CaseState,
                        review : ReviewId \cup {None},
                        override : OverrideId \cup {None}]
ASSUME CrashAssumption == MaxCrashes \in Nat /\ MaxPending \in Nat

VARIABLES
    scheduled,  \* requests in Temporal's history: transitions with their id
    ledger,     \* case_transition_ledger rows
    audit,      \* audit_events in commit order: <<request id, verdict>>
    execution,  \* what each execution of the activity is doing
    answers,    \* completions Temporal recorded: <<request id, verdict>>
    crashes     \* worker deaths so far

activityVars == <<scheduled, ledger, audit, execution, answers, crashes>>
vars == <<recordVars, activityVars>>

Request ==
    [id : RequestId, case : Case, from : CaseState, to : CaseState,
     review : ReviewId \cup {None}, override : OverrideId \cup {None},
     requested_at : Nat]

LedgerRow ==
    [id : RequestId, case : Case, from : CaseState, to : CaseState,
     verdict : Verdict]

Idle == [step |-> "idle"]

(***************************************************************************)
(* An execution between two of its steps: "missed" the ledger; "decided",  *)
(* holding the case row's lock, with the verdict it is about to write;     *)
(* "raced", its insert refused; "answering", with the verdict to report.   *)
(***************************************************************************)
ExecutionState ==
    {Idle}
    \cup [step : {"missed", "raced"}, request : Request]
    \cup [step : {"decided", "answering"}, request : Request, verdict : Verdict]

Init ==
    /\ RecordsInit
    /\ scheduled = {}
    /\ ledger = {}
    /\ audit = <<>>
    /\ execution = [x \in Execution |-> Idle]
    /\ answers = {}
    /\ crashes = 0

Answered(id) == \E a \in answers : a[1] = id
Ledgered(id) == \E row \in ledger : row.id = id

\* Mutant: the case is read without FOR UPDATE.
NeverLocked(c) == FALSE

\* The case row is locked from the locking read to the end of the transaction.
Locked(c) ==
    \E x \in Execution :
        execution[x].step = "decided" /\ execution[x].request.case = c

RowFor(q, verdict) ==
    [id |-> q.id, case |-> q.case, from |-> q.from, to |-> q.to,
     verdict |-> verdict]

-----------------------------------------------------------------------------
\* A workflow schedules the activity; the request id is new in its history.
Schedule(id, t) ==
    /\ ~\E q \in scheduled : q.id = id
    /\ Cardinality({q \in scheduled : ~Answered(q.id)}) < MaxPending
    /\ scheduled' = scheduled \cup
            {[id |-> id, case |-> t.case, from |-> t.from, to |-> t.to,
              review |-> t.review, override |-> t.override,
              requested_at |-> now]}
    /\ UNCHANGED <<recordVars, ledger, audit, execution, answers, crashes>>

\* Temporal starts an execution of a request it has no completion for: the
\* first, or a retry while an earlier one still runs.
LookupMiss(x, q) ==
    /\ execution[x] = Idle
    /\ ~Answered(q.id)
    /\ ~Ledgered(q.id)
    /\ execution' = [execution EXCEPT ![x] = [step |-> "missed", request |-> q]]
    /\ UNCHANGED <<recordVars, scheduled, ledger, audit, answers, crashes>>

LookupHit(x, q) ==
    /\ execution[x] = Idle
    /\ ~Answered(q.id)
    /\ \E row \in ledger :
        /\ row.id = q.id
        /\ execution' = [execution EXCEPT ![x] =
                [step |-> "answering", request |-> q, verdict |-> row.verdict]]
    /\ UNCHANGED <<recordVars, scheduled, ledger, audit, answers, crashes>>

\* SELECT ... FOR UPDATE on the case, then the guard.
Decide(x) ==
    /\ execution[x].step = "missed"
    /\ LET q == execution[x].request IN
        /\ Exists(q.case)
        /\ ~Locked(q.case)
        /\ \E row \in FirstRequirementSet(q.case) :
              execution' = [execution EXCEPT ![x] =
                  [step |-> "decided", request |-> q, verdict |-> VerdictOf(q, row)]]
    /\ UNCHANGED <<recordVars, scheduled, ledger, audit, answers, crashes>>

\* No such case: LookupError, and Temporal will try again.
CaseMissing(x) ==
    /\ execution[x].step = "missed"
    /\ ~Exists(execution[x].request.case)
    /\ execution' = [execution EXCEPT ![x] = Idle]
    /\ UNCHANGED <<recordVars, scheduled, ledger, audit, answers, crashes>>

\* The case update, the audit event and the ledger row commit together.
Commit(x) ==
    /\ execution[x].step = "decided"
    /\ LET q == execution[x].request
           verdict == execution[x].verdict IN
        /\ ~Ledgered(q.id)
        /\ ledger' = ledger \cup {RowFor(q, verdict)}
        /\ audit' = Append(audit, <<q.id, verdict>>)
        /\ case_state' = CaseStateAfter(q, verdict)
        /\ execution' = [execution EXCEPT ![x].step = "answering"]
    /\ UNCHANGED <<artifacts, reviews, contradictions, overrides, now,
                   scheduled, answers, crashes>>

\* Mutant: the execution that lost reports the verdict it had.
CommitConflictAnswersOwn(x) ==
    /\ execution[x].step = "decided"
    /\ Ledgered(execution[x].request.id)
    /\ execution' = [execution EXCEPT ![x].step = "answering"]
    /\ UNCHANGED <<recordVars, scheduled, ledger, audit, answers, crashes>>

\* The ledger's primary key refuses a second row: everything rolls back.
CommitConflict(x) ==
    /\ execution[x].step = "decided"
    /\ Ledgered(execution[x].request.id)
    /\ execution' = [execution EXCEPT ![x] =
            [step |-> "raced", request |-> execution[x].request]]
    /\ UNCHANGED <<recordVars, scheduled, ledger, audit, answers, crashes>>

\* Mutant: the new session's result is not read.
ReloadWithoutRow(x) ==
    /\ execution[x].step = "raced"
    /\ execution' = [execution EXCEPT ![x] =
            [step |-> "answering", request |-> execution[x].request, verdict |-> None]]
    /\ UNCHANGED <<recordVars, scheduled, ledger, audit, answers, crashes>>

\* A new session reads the row that won.
Reload(x) ==
    /\ execution[x].step = "raced"
    /\ \E row \in ledger :
        /\ row.id = execution[x].request.id
        /\ execution' = [execution EXCEPT ![x] =
                [step |-> "answering", request |-> execution[x].request,
                 verdict |-> row.verdict]]
    /\ UNCHANGED <<recordVars, scheduled, ledger, audit, answers, crashes>>

\* Mutant: a denial is raised, not returned.
ReturnRaisesDenials(x) ==
    /\ execution[x].step = "answering"
    /\ execution' = [execution EXCEPT ![x] = Idle]
    /\ answers' = IF Answered(execution[x].request.id)
                     \/ execution[x].verdict # "APPLIED" THEN answers
                  ELSE answers \cup
                       {<<execution[x].request.id, execution[x].verdict>>}
    /\ UNCHANGED <<recordVars, scheduled, ledger, audit, crashes>>

\* Temporal records one completion per request and drops late ones.
Return(x) ==
    /\ execution[x].step = "answering"
    /\ execution' = [execution EXCEPT ![x] = Idle]
    /\ answers' = IF Answered(execution[x].request.id) THEN answers
                  ELSE answers \cup
                       {<<execution[x].request.id, execution[x].verdict>>}
    /\ UNCHANGED <<recordVars, scheduled, ledger, audit, crashes>>

\* A worker dies: before the commit (rollback) or after it (answer lost, as
\* the after_commit failpoint provokes).
Crash(x) ==
    /\ crashes < MaxCrashes
    /\ execution[x] # Idle
    /\ execution' = [execution EXCEPT ![x] = Idle]
    /\ crashes' = crashes + 1
    /\ UNCHANGED <<recordVars, scheduled, ledger, audit, answers>>

(***************************************************************************)
(* Every table refers to the case by a foreign key, so an insert takes a   *)
(* key-share lock on the case's row, which FOR UPDATE refuses: while an    *)
(* execution holds the lock, rows of the case may change but none arrive.  *)
(* The package activity inserts its rows before it reads the case, so its  *)
(* move of the case waits as well.                                         *)
(***************************************************************************)
InsertsWait ==
    \A c \in Case : Locked(c) =>
        /\ case_state'[c] = case_state[c]
        /\ artifacts'[c] \in
              {artifacts[c], [artifacts[c] EXCEPT !.proof_bundle = "CONFIRMED"]}
        /\ \A v \in reviews' \ reviews : v.case # c
        /\ \A k \in contradictions' \ contradictions :
              k.case = c => k.status = "RESOLVED"
        /\ \A o \in overrides' \ overrides : o.case # c

\* Mutant: a lock inserts do not wait for (FOR NO KEY UPDATE).
WriteRecordsUnblocked == RecordsWrite /\ UNCHANGED activityVars

WriteRecords == RecordsWrite /\ InsertsWait /\ UNCHANGED activityVars

Run(x) ==
    \/ \E q \in scheduled : LookupMiss(x, q) \/ LookupHit(x, q)
    \/ Decide(x) \/ CaseMissing(x) \/ Commit(x) \/ CommitConflict(x)
    \/ Reload(x) \/ Return(x)

Next ==
    \/ \E id \in RequestId, t \in Template : Schedule(id, t)
    \/ \E x \in Execution : Run(x) \/ Crash(x)
    \/ WriteRecords

Spec == Init /\ [][Next]_vars

(***************************************************************************)
(* Temporal starts an unanswered activity again without limit (no retry    *)
(* policy is set) and a running execution keeps running, so every step of  *)
(* Run is fair; nothing makes a client or a crash happen.                  *)
(***************************************************************************)
FairSpec == Spec /\ \A x \in Execution : WF_vars(Run(x))

-----------------------------------------------------------------------------
TypeOK ==
    /\ RecordsTypeOK
    /\ scheduled \subseteq Request
    /\ ledger \subseteq LedgerRow
    /\ audit \in Seq(RequestId \X Verdict)
    /\ execution \in [Execution -> ExecutionState]
    /\ answers \subseteq RequestId \X Verdict
    /\ crashes \in Nat

\* apply_state_transition is idempotent on request_id: however many
\* executions of a request overlap, crash or retry, the ledger keeps one row
\* for it and every completion reports that row's verdict.
AnswersRepeatTheLedger ==
    /\ \A r1, r2 \in ledger : r1.id = r2.id => r1 = r2
    /\ \A x \in Execution :
          execution[x].step = "answering" =>
              RowFor(execution[x].request, execution[x].verdict) \in ledger
    /\ \A a \in answers : \E row \in ledger : row.id = a[1] /\ row.verdict = a[2]

Applied == {row \in ledger : row.verdict = "APPLIED"}
RequestOf(row) == CHOOSE q \in scheduled : q.id = row.id

\* The ledger row an audit event reports, and the positions in the audit trail
\* of the transitions applied to a case.
RowAt(i) == CHOOSE row \in ledger : row.id = audit[i][1]
Trail(c) == {i \in DOMAIN audit : audit[i][2] = "APPLIED" /\ RowAt(i).case = c}

CreationState == {"INTAKE_PENDING", "REVIEW_PENDING"}

\* The audit trail reports each ledgered request once, with its verdict.
AuditMatchesLedger ==
    /\ \A row \in ledger : \E i \in DOMAIN audit : audit[i] = <<row.id, row.verdict>>
    /\ \A i \in DOMAIN audit : \E row \in ledger : audit[i] = <<row.id, row.verdict>>
    /\ \A i, j \in DOMAIN audit : audit[i][1] = audit[j][1] => i = j

\* The one write of a case's state that is no transition: that of the package
\* activity, which leaves its package behind.
PackageMove == <<"INCENTIVES_COMPLETE", "DOCUMENT_COMPLETE">>

Connected(c, s, t) ==
    \/ s = t
    \/ <<s, t>> = PackageMove /\ artifacts[c].package

\* The transitions applied to c lead, in commit order and each from where the
\* one before it went or the package activity took the case from there, from a
\* state c may be created in to the state it is in.
TrailIsAPath(c) ==
    /\ \A i, j \in Trail(c) :
          /\ i < j
          /\ \A k \in Trail(c) : k <= i \/ j <= k
          => Connected(c, RowAt(i).to, RowAt(j).from)
    /\ IF Trail(c) = {}
       THEN case_state[c] \in CreationState \cup {"ABSENT"}
       ELSE \E first, last \in Trail(c) :
              /\ \A k \in Trail(c) : first <= k /\ k <= last
              /\ RowAt(first).from \in CreationState
              /\ Connected(c, RowAt(last).to, case_state[c])

\* No lost update: in commit order, the applied transitions of a case and the
\* moves of its package activity form a path from the state it was created in
\* to the state it is in, and the audit trail names each ledgered request
\* exactly once.
LedgerIsAPath ==
    /\ AuditMatchesLedger
    /\ \A c \in Case : TrailIsAPath(c)

\* A verdict is still true when it is committed: no other execution has a
\* verdict pending on the case, and one that applies finds the case in the
\* state it was judged in.  The lock on the case row is what this rests on.
VerdictsHoldUntilCommit ==
    \A x \in Execution :
        execution[x].step = "decided" =>
            /\ \A y \in Execution :
                  /\ execution[y].step = "decided"
                  /\ execution[y].request.case = execution[x].request.case
                  => x = y
            /\ execution[x].verdict = "APPLIED" =>
                  /\ case_state[execution[x].request.case] = execution[x].request.from
                  /\ EdgeOf(execution[x].request) \in LegalEdge

\* An approval ignores no contradiction that blocked the case before it was
\* requested and is open to this day, unless an unexpired override of the
\* same case names the approval.
PassedContradictions(q) ==
    {k \in contradictions :
        /\ k.case = q.case
        /\ k.blocking
        /\ k.status = "OPEN"
        /\ k.created_at < q.requested_at}

ContradictionsGateApproval ==
    \A row \in Applied :
        EdgeOf(row) = Approval =>
            \/ PassedContradictions(RequestOf(row)) = {}
            \/ ValidOverride(RequestOf(row))

\* At the moment a case is approved nothing blocks it, or an override names the
\* approval: a contradiction recorded after the guard has read the table cannot
\* be committed before the approval is.
ApprovalsSeeContradictions ==
    [][\A row \in ledger' \ ledger :
          row.verdict = "APPLIED" /\ EdgeOf(row) = Approval =>
              \/ ~Blocked(row.case)
              \/ \E q \in scheduled : q.id = row.id /\ ValidOverride(q)]_vars

\* Every approval of the ledger rests on an accepting decision about the same
\* case, whatever happened to the request between its guard and its commit.
\* (Of the case: the guard asks for no package, as INV-001 would have it.)
ApprovalsAreReviewed ==
    \A row \in Applied :
        EdgeOf(row) = Approval => AcceptingReview(RequestOf(row))

\* The rows an edge of the pipeline rests on, at the time it was requested.
Supported(q) ==
    LET a == artifacts[q.case]
        edge == EdgeOf(q)
    IN  /\ edge = <<"INTAKE_PENDING", "INTAKE_COMPLETE">> => a.project
        /\ edge = <<"INTAKE_COMPLETE", "JURISDICTION_COMPLETE">> => a.jurisdiction
        /\ edge = <<"JURISDICTION_COMPLETE", "RESEARCH_COMPLETE">> =>
              "FRESH" \in a.requirements
        /\ edge = <<"RESEARCH_COMPLETE", "COMPLIANCE_COMPLETE">> =>
              \E t \in a.evaluated_at : q.requested_at - t <= ComplianceWindow
        /\ edge = <<"COMPLIANCE_COMPLETE", "INCENTIVES_COMPLETE">> =>
              \E t \in a.assessed_at : q.requested_at - t <= IncentiveWindow
        /\ edge = <<"INCENTIVES_COMPLETE", "DOCUMENT_COMPLETE">> => a.package
        /\ edge = <<"DOCUMENT_COMPLETE", "MANUAL_SUBMISSION_REQUIRED">> =>
              a.proof_bundle # "NONE"

\* Every advance in the ledger is still supported by rows of the database: a
\* guard that was read before its commit cannot be undone in between.
AdvancesAreSupported == \A row \in Applied : Supported(RequestOf(row))

(***************************************************************************)
(* Overlapping, crashing and repeated executions are indistinguishable     *)
(* from one atomic decision per request.                                   *)
(***************************************************************************)
Lifecycle == INSTANCE CaseLifecycle WITH Id <- RequestId, decisions <- ledger

AtomicTransitions == Lifecycle!Spec

\* Every scheduled request of an existing case is answered in the end: no
\* crash, retry or race leaves the workflow waiting for ever.
EveryRequestAnswered ==
    \A id \in RequestId :
        (\E q \in scheduled : q.id = id /\ Exists(q.case)) ~> Answered(id)
=============================================================================
