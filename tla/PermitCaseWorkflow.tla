------------------------- MODULE PermitCaseWorkflow -------------------------
(***************************************************************************)
(* PermitCaseWorkflow (workflow.py): the durable workflow that drives a    *)
(* permit case, the signals it takes, and the rows its activities write.   *)
(* One workflow id belongs to each case; a new run of it may start when    *)
(* the last one has closed.  apply_state_transition is one atomic step     *)
(* here, which CaseTransition shows is all its callers can see.            *)
(*                                                                         *)
(* What Temporal does is modelled from how workflow.py relies on it: an    *)
(* exception raised by workflow code fails the workflow task, which is     *)
(* replayed to the same end for ever, so the run neither advances nor      *)
(* closes (WEDGED); an activity that fails for good fails the run; a run   *)
(* that closes drops its signal handlers.  An activity that had been       *)
(* scheduled when its run stopped may still take effect.                   *)
(***************************************************************************)
EXTENDS CaseRecords, Sequences, FiniteSets

CONSTANTS
    EmergencyId,     \* emergency_records ids
    HandlerSlot,     \* bound: emergency signals handled at one time
    EntryTarget,     \* bound: the target_state values an entry signal carries
    ExitTarget,      \* bound: the target_state values an exit signal carries
    MaxRuns,         \* bound: runs of a case's workflow
    MaxSignals,      \* bound: emergency signals delivered to a run
    SignalsAreLost,  \* whether sending a review signal may fail
    CliSignals       \* whether an operator uses the CLI's signal-review

ASSUME TargetAssumption == EntryTarget \cup ExitTarget \subseteq CaseState
ASSUME LossAssumption == SignalsAreLost \in BOOLEAN /\ CliSignals \in BOOLEAN
ASSUME RunAssumption == MaxRuns \in Nat /\ MaxSignals \in Nat
ASSUME PackageAssumption == None \notin Case \X (1 .. MaxRuns)

VARIABLES
    workflow,       \* per case: status of the latest run
    runs,           \* per case: how many runs were started (the run id)
    script,         \* per case: what run() has left to do
    review_signal,  \* per case: self._review_decision
    handlers,       \* emergency signal handlers in flight
    signals,        \* per case: emergency signals its run took and acted on
    undelivered,    \* reviews committed but not signalled yet
    emergencies,    \* emergency_records: <<id, expires_at>>
    ledger,         \* case_transition_ledger
    packages,       \* submission_packages: <<case, run that made it>>
    current_package,\* permit_cases.current_package_id
    attempts        \* submission_attempts

workflowVars ==
    <<workflow, runs, script, review_signal, handlers, signals, undelivered>>
tableVars == <<emergencies, ledger, packages, current_package, attempts>>
vars == <<recordVars, workflowVars, tableVars>>

WorkflowStatus == {"NONE", "RUNNING", "COMPLETED", "FAILED", "WEDGED"}

-----------------------------------------------------------------------------
(***************************************************************************)
(* The body of run(), as the steps it awaits.                              *)
(***************************************************************************)
Move(from, to) == [op |-> "move", from |-> from, to |-> to]
PersistStep(field) == [op |-> "persist", field |-> field]
Package == [op |-> "package"]
Recheck == [op |-> "recheck"]
Submit == [op |-> "submit"]
Ensure == [op |-> "ensure"]
Fetch == [op |-> "fetch"]
Gate == [op |-> "gate"]
AwaitReview == [op |-> "await"]
ReviewedGate == [op |-> "reviewed_gate"]

PersistStage == {"jurisdiction", "requirements", "evaluated_at", "assessed_at"}

\* run() would return at once from these, with a result whose required fields
\* are None: building it raises a ValidationError.
UnreturnableState == {"SUBMITTED", "CORRECTION_PENDING"}

\* What run() does for the state its first snapshot shows.
ScriptFor(s) ==
    CASE s = "INTAKE_PENDING" -> <<Move("INTAKE_PENDING", "INTAKE_COMPLETE")>>
      [] s = "INTAKE_COMPLETE" ->
            <<PersistStep("jurisdiction"),
              Move("INTAKE_COMPLETE", "JURISDICTION_COMPLETE"),
              PersistStep("requirements"),
              Move("JURISDICTION_COMPLETE", "RESEARCH_COMPLETE"),
              PersistStep("evaluated_at"),
              Move("RESEARCH_COMPLETE", "COMPLIANCE_COMPLETE"),
              PersistStep("assessed_at"),
              Move("COMPLIANCE_COMPLETE", "INCENTIVES_COMPLETE")>>
      [] s = "COMPLIANCE_COMPLETE" ->
            <<PersistStep("assessed_at"),
              Move("COMPLIANCE_COMPLETE", "INCENTIVES_COMPLETE")>>
      [] s = "INCENTIVES_COMPLETE" -> <<Package, Recheck, Submit>>
      [] s = "DOCUMENT_COMPLETE" -> <<Package, Submit>>
      [] s \in UnreturnableState -> <<>>
      [] s = "COMMENT_REVIEW_PENDING" ->
            <<Move("COMMENT_REVIEW_PENDING", "CORRECTION_PENDING")>>
      [] s = "RESUBMISSION_PENDING" ->
            <<Move("RESUBMISSION_PENDING", "DOCUMENT_COMPLETE"), Package, Submit>>
      [] OTHER -> <<Gate, AwaitReview, ReviewedGate>>

Running(c) == workflow[c] = "RUNNING"
NoSignals == [taken |-> 0, entry |-> 0, exit |-> 0]
Closed(c) == workflow[c] \in {"NONE", "COMPLETED", "FAILED"}

At(c, op) == script[c] # <<>> /\ Head(script[c]).op = op

\* run() goes on to its next step, unless the run has stopped meanwhile: then
\* the activity that was in flight was its last.
Continue(c, steps) ==
    script' = [script EXCEPT ![c] = IF Running(c) THEN steps ELSE <<>>]

\* Mutant: a denial is not raised.
WedgeNever(c) == workflow

\* An exception of run() fails its task: RuntimeError for a denial the code does
\* not expect, ValidationError for a result that cannot be built.
Wedge(c) == [workflow EXCEPT ![c] = IF Running(c) THEN "WEDGED" ELSE @]

-----------------------------------------------------------------------------
(***************************************************************************)
(* apply_state_transition, as one step.                                    *)
(***************************************************************************)
RequestFor(c, from, to, review) ==
    [case |-> c, from |-> from, to |-> to, review |-> review,
     override |-> None, requested_at |-> now]

\* The request id names the run, the transition and the attempt.
RequestId(c, run, name, attempt) == <<c, run, name, attempt>>

Recorded(id) == {row \in ledger : row.id = id}

\* The verdicts the activity may answer; a request id already in the ledger
\* gets the recorded one again.
Verdicts(id, q) ==
    IF Recorded(id) # {} THEN {row.verdict : row \in Recorded(id)}
    ELSE {VerdictOf(q, row) : row \in FirstRequirementSet(q.case)}

ApplyStateTransition(id, q, verdict) ==
    IF Recorded(id) # {} THEN UNCHANGED <<case_state, ledger>>
    ELSE /\ ledger' = ledger \cup {[id |-> id, case |-> q.case, from |-> q.from,
                                    to |-> q.to, verdict |-> verdict]}
         /\ case_state' = CaseStateAfter(q, verdict)

\* The id of the transition run() is at: each edge is asked for once in a run,
\* the approval a second time with its review.
StepId(c, q) ==
    RequestId(c, runs[c], EdgeOf(q), IF At(c, "reviewed_gate") THEN 2 ELSE 1)

\* The tables and variables a transition of run() leaves alone.
TransitionFrame ==
    UNCHANGED <<artifacts, reviews, contradictions, overrides, now, runs,
                review_signal, handlers, signals, undelivered, emergencies,
                packages, current_package, attempts>>

-----------------------------------------------------------------------------
(***************************************************************************)
(* run().                                                                  *)
(***************************************************************************)
\* POST /cases starts a run, and so does the CLI, of a case there is or not.
StartWorkflow(c) ==
    /\ Closed(c)
    /\ runs[c] < MaxRuns
    /\ workflow' = [workflow EXCEPT ![c] = "RUNNING"]
    /\ runs' = [runs EXCEPT ![c] = @ + 1]
    /\ script' = [script EXCEPT ![c] = <<Ensure, Fetch>>]
    /\ review_signal' = [review_signal EXCEPT ![c] = None]
    /\ signals' = [signals EXCEPT ![c] = NoSignals]
    /\ UNCHANGED <<recordVars, handlers, undelivered, tableVars>>

EnsureCase(c) ==
    /\ At(c, "ensure")
    /\ case_state' = IF Exists(c) THEN case_state
                     ELSE [case_state EXCEPT ![c] = "REVIEW_PENDING"]
    /\ Continue(c, Tail(script[c]))
    /\ UNCHANGED <<artifacts, reviews, contradictions, overrides, now, workflow,
                   runs, review_signal, handlers, signals, undelivered, tableVars>>

FetchSnapshot(c) ==
    /\ At(c, "fetch")
    /\ Continue(c, ScriptFor(case_state[c]))
    /\ workflow' = IF case_state[c] \in UnreturnableState THEN Wedge(c) ELSE workflow
    /\ UNCHANGED <<recordVars, runs, review_signal, handlers, signals, undelivered,
                   tableVars>>

\* A data activity adds the rows of its fixture, or none when they were taken
\* for another case.
PersistRows(c) ==
    /\ At(c, "persist")
    /\ LET field == Head(script[c]).field IN
        \/ UNCHANGED artifacts
        \/ field = "jurisdiction" /\ PersistJurisdictionResolutions(c)
        \/ /\ field = "requirements"
           /\ \E f \in {"FRESH", "STALE"} : PersistRequirementSets(c, f)
        \/ /\ field = "evaluated_at"
           /\ \E t \in 0 .. now : PersistComplianceEvaluation(c, t)
        \/ /\ field = "assessed_at"
           /\ \E t \in 0 .. now : PersistIncentiveAssessment(c, t)
    /\ Continue(c, Tail(script[c]))
    /\ UNCHANGED <<case_state, reviews, contradictions, overrides, now, workflow,
                   runs, review_signal, handlers, signals, undelivered, tableVars>>

\* A transition of the pipeline; a denial raises RuntimeError.
MoveCase(c) ==
    /\ At(c, "move")
    /\ LET step == Head(script[c])
           q == RequestFor(c, step.from, step.to, None) IN
        \E verdict \in Verdicts(StepId(c, q), q) :
            /\ ApplyStateTransition(StepId(c, q), q, verdict)
            /\ workflow' = IF verdict = "APPLIED" THEN workflow ELSE Wedge(c)
            /\ Continue(c, IF verdict = "APPLIED" THEN Tail(script[c]) ELSE <<>>)
    /\ TransitionFrame

\* After the package: a transition of its own only if the case is not there.
RecheckState(c) ==
    /\ At(c, "recheck")
    /\ Continue(c, IF case_state[c] = "DOCUMENT_COMPLETE" THEN Tail(script[c])
                   ELSE <<Move("INCENTIVES_COMPLETE", "DOCUMENT_COMPLETE")>>
                        \o Tail(script[c]))
    /\ UNCHANGED <<recordVars, workflow, runs, review_signal, handlers, signals,
                   undelivered, tableVars>>

\* The attempt without a review.  APPROVAL_GATE_DENIED leads to the wait.
ReviewGate(c) ==
    /\ At(c, "gate")
    /\ LET q == RequestFor(c, "REVIEW_PENDING", "APPROVED_FOR_SUBMISSION", None) IN
        \E verdict \in Verdicts(StepId(c, q), q) :
            /\ ApplyStateTransition(StepId(c, q), q, verdict)
            /\ workflow' = IF verdict \in {"APPLIED", "REVIEW_DECISION_REQUIRED"}
                           THEN workflow ELSE Wedge(c)
            /\ Continue(c, IF verdict = "REVIEW_DECISION_REQUIRED"
                           THEN Tail(script[c]) ELSE <<>>)
    /\ TransitionFrame

\* Mutant: the wait ends only for an accepting review.
TakeReviewIfAccepting(c) ==
    /\ At(c, "await")
    /\ Running(c)
    /\ \E v \in reviews : v.id = review_signal[c] /\ v.outcome \in AcceptingOutcome
    /\ script' = [script EXCEPT ![c] = Tail(@)]
    /\ UNCHANGED <<recordVars, workflow, runs, review_signal, handlers, signals,
                   undelivered, tableVars>>

\* The wait ends with the signal; one that names no decision raises.
TakeReview(c) ==
    /\ At(c, "await")
    /\ Running(c)
    /\ review_signal[c] # None
    /\ workflow' = IF review_signal[c] = "LEGACY" THEN Wedge(c) ELSE workflow
    /\ script' = [script EXCEPT ![c] =
            IF review_signal[c] = "LEGACY" THEN <<>> ELSE Tail(@)]
    /\ UNCHANGED <<recordVars, runs, review_signal, handlers, signals,
                   undelivered, tableVars>>

ReviewedMove(c) ==
    /\ At(c, "reviewed_gate")
    /\ LET q == RequestFor(c, "REVIEW_PENDING", "APPROVED_FOR_SUBMISSION",
                           review_signal[c]) IN
        \E verdict \in Verdicts(StepId(c, q), q) :
            /\ ApplyStateTransition(StepId(c, q), q, verdict)
            /\ workflow' = IF verdict = "APPLIED" THEN workflow ELSE Wedge(c)
            /\ Continue(c, <<>>)
    /\ TransitionFrame

\* run() returns, and its handlers go with it.
Complete(c) ==
    /\ Running(c)
    /\ script[c] = <<>>
    /\ workflow' = [workflow EXCEPT ![c] = "COMPLETED"]
    /\ UNCHANGED <<recordVars, runs, script, review_signal, handlers, signals,
                   undelivered, tableVars>>

-----------------------------------------------------------------------------
(***************************************************************************)
(* The package and the submission.                                         *)
(***************************************************************************)
\* Mutant: the package activity does not look at the state it leaves.
PersistPackageAnyState(c) ==
    /\ At(c, "package")
    /\ packages' = packages \cup {<<c, runs[c]>>}
    /\ current_package' = [current_package EXCEPT ![c] = <<c, runs[c]>>]
    /\ artifacts' = [artifacts EXCEPT ![c].package = TRUE]
    /\ case_state' = [case_state EXCEPT ![c] = "DOCUMENT_COMPLETE"]
    /\ Continue(c, Tail(script[c]))
    /\ UNCHANGED <<reviews, contradictions, overrides, now, workflow, runs,
                   review_signal, handlers, signals, undelivered, emergencies,
                   ledger, attempts>>

\* persist_submission_package.  The foreign keys of the rows it inserts hold
\* off any transition of the case until it commits, so the case it reads is the
\* case it writes.
PersistPackage(c) ==
    /\ At(c, "package")
    /\ packages' = packages \cup {<<c, runs[c]>>}
    /\ current_package' = [current_package EXCEPT ![c] = <<c, runs[c]>>]
    /\ artifacts' = [artifacts EXCEPT ![c].package = TRUE]
    /\ case_state' = IF case_state[c] = "INCENTIVES_COMPLETE"
                     THEN [case_state EXCEPT ![c] = "DOCUMENT_COMPLETE"]
                     ELSE case_state
    /\ Continue(c, Tail(script[c]))
    /\ UNCHANGED <<reviews, contradictions, overrides, now, workflow, runs,
                   review_signal, handlers, signals, undelivered, emergencies,
                   ledger, attempts>>

OutcomeEdge(outcome) ==
    IF outcome = "SUCCESS" THEN Move("DOCUMENT_COMPLETE", "SUBMITTED")
    ELSE Move("DOCUMENT_COMPLETE", "MANUAL_SUBMISSION_REQUIRED")

\* Mutant: the attempt is not committed before the case is moved.
SubmitPackageUnrecorded(c) ==
    /\ At(c, "submit")
    /\ \E outcome \in {"SUCCESS", "UNSUPPORTED_WORKFLOW"} :
        /\ artifacts' = IF outcome = "SUCCESS" THEN artifacts
              ELSE [artifacts EXCEPT ![c].proof_bundle = "PENDING_REVIEW"]
        /\ Continue(c, <<OutcomeEdge(outcome)>>)
    /\ UNCHANGED <<case_state, reviews, contradictions, overrides, now, workflow,
                   runs, review_signal, handlers, signals, undelivered, tableVars>>

\* deterministic_submission_adapter.  The idempotency key of every run's
\* attempt is that of attempt 1 of the case, so an attempt the case already
\* has is the answer; else the portal's support decides.
SubmitPackage(c) ==
    /\ At(c, "submit")
    /\ \/ \E a \in attempts :
            /\ a.case = c
            /\ Continue(c, <<OutcomeEdge(a.outcome)>>)
            /\ UNCHANGED <<attempts, artifacts>>
       \/ \E outcome \in {"SUCCESS", "UNSUPPORTED_WORKFLOW"} :
            /\ ~\E a \in attempts : a.case = c
            /\ attempts' = attempts \cup
                  {[case |-> c, package |-> <<c, runs[c]>>, outcome |-> outcome]}
            /\ artifacts' = IF outcome = "SUCCESS" THEN artifacts
                  ELSE [artifacts EXCEPT ![c].proof_bundle = "PENDING_REVIEW"]
            /\ Continue(c, <<OutcomeEdge(outcome)>>)
    /\ UNCHANGED <<case_state, reviews, contradictions, overrides, now, workflow,
                   runs, review_signal, handlers, signals, undelivered, emergencies,
                   ledger, packages, current_package>>

-----------------------------------------------------------------------------
(***************************************************************************)
(* The emergency signals.                                                  *)
(***************************************************************************)
Free == [step |-> "free"]

\* A signal whose run has not closed or wedged since.
Live(h) ==
    /\ Running(handlers[h].case)
    /\ handlers[h].run = runs[handlers[h].case]

TakeSignal(h, c, kind, ref, target) ==
    /\ handlers[h] = Free
    /\ Running(c)
    /\ signals[c].taken < MaxSignals
    /\ signals' = [signals EXCEPT ![c].taken = @ + 1]
    /\ handlers' = [handlers EXCEPT ![h] =
            [step |-> "validate", kind |-> kind, case |-> c, run |-> runs[c],
             ref |-> ref, target |-> target]]
    /\ UNCHANGED <<recordVars, workflow, runs, script, review_signal, undelivered,
                   tableVars>>

EmergencyHoldEntry(h, c) ==
    \E e \in EmergencyId, target \in EntryTarget : TakeSignal(h, c, "entry", e, target)

EmergencyHoldExit(h, c) ==
    \E id \in ReviewId, target \in ExitTarget : TakeSignal(h, c, "exit", id, target)

\* validate_emergency_artifact and validate_reviewer_confirmation.
Valid(m) ==
    \/ m.kind = "entry" /\ \E e \in emergencies : e[1] = m.ref /\ e[2] > now
    \/ m.kind = "exit" /\ \E v \in reviews : v.id = m.ref

\* Either is tried once: when it fails, so does the run.
RejectSignal(h) ==
    /\ handlers[h].step = "validate"
    /\ Live(h)
    /\ ~Valid(handlers[h])
    /\ workflow' = [workflow EXCEPT ![handlers[h].case] = "FAILED"]
    /\ handlers' = [handlers EXCEPT ![h] = Free]
    /\ UNCHANGED <<recordVars, runs, script, review_signal, signals, undelivered,
                   tableVars>>

Transiting(m, from, attempt) ==
    [step |-> "transition", kind |-> m.kind, case |-> m.case, run |-> m.run,
     target |-> m.target, from |-> from, attempt |-> attempt]

AcceptEntry(h) ==
    /\ handlers[h].step = "validate"
    /\ handlers[h].kind = "entry"
    /\ Live(h)
    /\ Valid(handlers[h])
    /\ handlers' = [handlers EXCEPT ![h].step = "snapshot"]
    /\ UNCHANGED <<recordVars, workflow, runs, script, review_signal, signals,
                   undelivered, tableVars>>

\* The entry leaves the state its snapshot shows.
SnapshotEntry(h) ==
    /\ handlers[h].step = "snapshot"
    /\ Live(h)
    /\ LET c == handlers[h].case IN
        /\ Exists(c)
        /\ signals' = [signals EXCEPT ![c].entry = @ + 1]
        /\ handlers' = [handlers EXCEPT ![h] =
              Transiting(handlers[h], case_state[c], signals[c].entry + 1)]
    /\ UNCHANGED <<recordVars, workflow, runs, script, review_signal, undelivered,
                   tableVars>>

AcceptExit(h) ==
    /\ handlers[h].step = "validate"
    /\ handlers[h].kind = "exit"
    /\ Live(h)
    /\ Valid(handlers[h])
    /\ LET c == handlers[h].case IN
        /\ signals' = [signals EXCEPT ![c].exit = @ + 1]
        /\ handlers' = [handlers EXCEPT ![h] =
              Transiting(handlers[h], "EMERGENCY_HOLD", signals[c].exit + 1)]
    /\ UNCHANGED <<recordVars, workflow, runs, script, review_signal, undelivered,
                   tableVars>>

\* Mutant: the attempts of a handler are not numbered.
HandlerIdOfRun(m) == RequestId(m.case, m.run, <<"emergency_hold", m.kind>>, 1)

HandlerId(m) == RequestId(m.case, m.run, <<"emergency_hold", m.kind>>, m.attempt)

\* The handler's transition; a denial raises in the run that is still there.
EmergencyTransition(h) ==
    /\ handlers[h].step = "transition"
    /\ LET m == handlers[h]
           q == RequestFor(m.case, m.from, m.target, None) IN
        /\ Exists(m.case)
        /\ \E verdict \in Verdicts(HandlerId(m), q) :
            /\ ApplyStateTransition(HandlerId(m), q, verdict)
            /\ workflow' = IF verdict # "APPLIED" /\ Live(h) THEN Wedge(m.case)
                           ELSE workflow
    /\ handlers' = [handlers EXCEPT ![h] = Free]
    /\ UNCHANGED <<artifacts, reviews, contradictions, overrides, now, runs, script,
                   review_signal, signals, undelivered, emergencies, packages,
                   current_package, attempts>>

\* A handler whose run has stopped goes no further.
DropHandler(h) ==
    /\ handlers[h] # Free
    /\ ~Live(h)
    /\ handlers' = [handlers EXCEPT ![h] = Free]
    /\ UNCHANGED <<recordVars, workflow, runs, script, review_signal, signals,
                   undelivered, tableVars>>

-----------------------------------------------------------------------------
(***************************************************************************)
(* The reviewer API, the CLI, and what else writes the tables.             *)
(***************************************************************************)
\* POST /reviews/decisions commits the decision and then signals.
CreateReviewDecision(id, c, outcome) ==
    /\ RecordReview(id, c, outcome)
    /\ undelivered' = undelivered \cup {id}
    /\ UNCHANGED <<workflow, runs, script, review_signal, handlers, signals, tableVars>>

\* Mutant: the workflow keeps the last signal.
SendReviewSignalOverwrites(v) ==
    /\ v.id \in undelivered
    /\ undelivered' = undelivered \ {v.id}
    /\ review_signal' = IF Running(v.case)
                        THEN [review_signal EXCEPT ![v.case] = v.id] ELSE review_signal
    /\ UNCHANGED <<recordVars, workflow, runs, script, handlers, signals, tableVars>>

\* Mutant: the signal carries the case's id for the decision's.
SendReviewSignalOfCase(v) ==
    /\ v.id \in undelivered
    /\ undelivered' = undelivered \ {v.id}
    /\ review_signal' = IF Running(v.case) /\ review_signal[v.case] = None
                        THEN [review_signal EXCEPT ![v.case] = v.case]
                        ELSE review_signal
    /\ UNCHANGED <<recordVars, workflow, runs, script, handlers, signals, tableVars>>

\* The workflow keeps the first signal; without a run there is nobody to tell.
SendReviewSignal(v) ==
    /\ v.id \in undelivered
    /\ undelivered' = undelivered \ {v.id}
    /\ review_signal' = IF Running(v.case) /\ review_signal[v.case] = None
                        THEN [review_signal EXCEPT ![v.case] = v.id]
                        ELSE review_signal
    /\ UNCHANGED <<recordVars, workflow, runs, script, handlers, signals, tableVars>>

\* Sending is tried once, and a failure is logged.
SignalFailed(v) ==
    /\ SignalsAreLost
    /\ v.id \in undelivered
    /\ undelivered' = undelivered \ {v.id}
    /\ UNCHANGED <<recordVars, workflow, runs, script, review_signal, handlers,
                   signals, tableVars>>

\* The CLI's signal-review carries no decision_id.
CliSignalReview(c) ==
    /\ CliSignals
    /\ Running(c)
    /\ review_signal[c] = None
    /\ review_signal' = [review_signal EXCEPT ![c] = "LEGACY"]
    /\ UNCHANGED <<recordVars, workflow, runs, script, handlers, signals,
                   undelivered, tableVars>>

\* POST /emergencies.
DeclareEmergency(id, duration) ==
    /\ ~\E e \in emergencies : e[1] = id
    /\ emergencies' = emergencies \cup {<<id, now + duration>>}
    /\ UNCHANGED <<recordVars, workflowVars, ledger, packages, current_package,
                   attempts>>

\* Outside src/sps: nothing in it asks for these two transitions.
ExternalEdge ==
    {<<"SUBMITTED", "COMMENT_REVIEW_PENDING">>,
     <<"CORRECTION_PENDING", "RESUBMISSION_PENDING">>}

ExternalTransition(c, e) ==
    /\ case_state[c] = e[1]
    /\ LET q == RequestFor(c, e[1], e[2], None)
           id == RequestId(c, runs[c], e, 1) IN
        /\ Recorded(id) = {}
        /\ \E verdict \in Verdicts(id, q) : ApplyStateTransition(id, q, verdict)
    /\ UNCHANGED <<workflow, script>>
    /\ TransitionFrame

Records ==
    /\ \/ \E c \in Case : CreateCase(c)
       \/ \E id \in ContradictionId, c \in Case, blocking \in BOOLEAN :
             CreateContradiction(id, c, blocking)
       \/ \E k \in contradictions : ResolveContradiction(k)
       \/ Tick
    /\ UNCHANGED <<workflowVars, tableVars>>

RunStep(c) ==
    \/ EnsureCase(c) \/ FetchSnapshot(c) \/ PersistRows(c) \/ MoveCase(c)
    \/ RecheckState(c) \/ ReviewGate(c) \/ TakeReview(c) \/ ReviewedMove(c)
    \/ PersistPackage(c) \/ SubmitPackage(c) \/ Complete(c)

HandlerStep(h) ==
    \/ RejectSignal(h) \/ AcceptEntry(h) \/ SnapshotEntry(h) \/ AcceptExit(h)
    \/ EmergencyTransition(h) \/ DropHandler(h)

Next ==
    \/ \E c \in Case : StartWorkflow(c) \/ RunStep(c) \/ CliSignalReview(c)
    \/ \E h \in HandlerSlot : HandlerStep(h)
    \/ \E h \in HandlerSlot, c \in Case :
          EmergencyHoldEntry(h, c) \/ EmergencyHoldExit(h, c)
    \/ \E id \in ReviewId, c \in Case, outcome \in ReviewOutcome :
          CreateReviewDecision(id, c, outcome)
    \/ \E v \in reviews : SendReviewSignal(v) \/ SignalFailed(v)
    \/ \E id \in EmergencyId, duration \in 1 .. MaxNow + 1 :
          DeclareEmergency(id, duration)
    \/ \E c \in Case, e \in ExternalEdge : ExternalTransition(c, e)
    \/ Records

Init ==
    /\ RecordsInit
    /\ workflow = [c \in Case |-> "NONE"]
    /\ runs = [c \in Case |-> 0]
    /\ script = [c \in Case |-> <<>>]
    /\ review_signal = [c \in Case |-> None]
    /\ handlers = [h \in HandlerSlot |-> Free]
    /\ signals = [c \in Case |-> NoSignals]
    /\ undelivered = {}
    /\ emergencies = {}
    /\ ledger = {}
    /\ packages = {}
    /\ current_package = [c \in Case |-> None]
    /\ attempts = {}

Spec == Init /\ [][Next]_vars

(***************************************************************************)
(* While a run is open Temporal retries its activities for ever, and those *)
(* that only read and move the case need nothing but the database.  Those  *)
(* that fetch data, make the package or send it also need an adapter, and  *)
(* raise at every try when it has nothing for the case: they are owed no   *)
(* success.  Nor does anybody have to start a run, review a case, send a   *)
(* signal or handle one.                                                   *)
(***************************************************************************)
DataStep == {"persist", "package", "submit"}

RunAdvances(c) ==
    /\ Running(c)
    /\ script[c] # <<>> => Head(script[c]).op \notin DataStep
    /\ RunStep(c)

FairSpec == Spec /\ \A c \in Case : WF_vars(RunAdvances(c))

-----------------------------------------------------------------------------
(***************************************************************************)
(* Properties.                                                             *)
(***************************************************************************)
Step ==
    [op : {"recheck", "submit", "ensure", "fetch", "gate", "await",
           "reviewed_gate", "package"}]
    \cup [op : {"move"}, from : CaseState, to : CaseState]
    \cup [op : {"persist"}, field : PersistStage]

Run == 1 .. MaxRuns
PackageId == Case \X Run
TransitionName == Edge \cup {"emergency_hold"} \X {"entry", "exit"}

SignalTaken(step, kinds) ==
    [step : {step}, kind : kinds, case : Case, run : Run,
     ref : EmergencyId \cup ReviewId, target : CaseState]

\* Only an entry reads its case again before it is moved.
Handler ==
    {Free}
    \cup SignalTaken("validate", {"entry", "exit"})
    \cup SignalTaken("snapshot", {"entry"})
    \cup [step : {"transition"}, kind : {"entry", "exit"}, case : Case, run : Run,
          target : CaseState, from : CaseState, attempt : Nat]

TypeOK ==
    /\ RecordsTypeOK
    /\ workflow \in [Case -> WorkflowStatus]
    /\ runs \in [Case -> 0 .. MaxRuns]
    /\ script \in [Case -> Seq(Step)]
    /\ review_signal \in [Case -> ReviewId \cup {None, "LEGACY"}]
    /\ handlers \in [HandlerSlot -> Handler]
    /\ signals \in [Case -> [taken : Nat, entry : Nat, exit : Nat]]
    /\ undelivered \subseteq ReviewId
    /\ \A e \in emergencies : e[1] \in EmergencyId /\ e[2] \in Nat
    /\ \A row \in ledger :
          /\ row.id \in Case \X (0 .. MaxRuns) \X TransitionName \X Nat
          /\ row.case \in Case /\ <<row.from, row.to>> \in Edge
          /\ row.verdict \in Verdict
    /\ packages \subseteq PackageId
    /\ current_package \in [Case -> PackageId \cup {None}]
    /\ attempts \subseteq
          [case : Case, package : PackageId,
           outcome : {"SUCCESS", "UNSUPPORTED_WORKFLOW"}]

\* A transition request id is never used twice: neither the restarts of a
\* workflow nor its emergency signals repeat one, which would be answered
\* with the verdict of another request and move nothing.
RequestIdsAreFresh ==
    /\ \A c \in Case :
          /\ At(c, "move") => Recorded(StepId(c, Head(script[c]))) = {}
          /\ At(c, "gate") \/ At(c, "reviewed_gate") =>
                Recorded(RequestId(c, runs[c], Approval,
                                   IF At(c, "gate") THEN 1 ELSE 2)) = {}
    /\ \A h \in HandlerSlot :
          handlers[h].step = "transition" =>
              /\ Recorded(HandlerId(handlers[h])) = {}
              /\ \A g \in HandlerSlot \ {h} :
                    handlers[g].step = "transition" =>
                        HandlerId(handlers[g]) # HandlerId(handlers[h])

\* run() fails closed: a run that returned has had every transition it asked
\* for applied, but for the first try of the review gate, which is what it
\* then waited on.
CompletedRunsAdvanced ==
    \A c \in Case :
        workflow[c] = "COMPLETED" =>
            \A row \in ledger :
                /\ row.id[1] = c /\ row.id[2] = runs[c]
                /\ row.id[3][1] # "emergency_hold"
                /\ row.verdict # "APPLIED"
                => /\ row.id[3] = Approval /\ row.id[4] = 1
                   /\ \E r \in ledger :
                         r.id = RequestId(c, runs[c], Approval, 2)
                            /\ r.verdict = "APPLIED"

\* Only an emergency signal takes a case off its hold: an exit, when a reviewer
\* has decided on some case, or an entry that asks for another state than the
\* hold, when some emergency is declared.  Nothing run() or an earlier run still
\* has under way does.
HoldIsLeftBySignal ==
    [][\A c \in Case :
          case_state[c] = "EMERGENCY_HOLD" /\ case_state'[c] # "EMERGENCY_HOLD" =>
              \E row \in ledger' \ ledger :
                  /\ row.case = c /\ row.verdict = "APPLIED"
                  /\ \/ row.id[3] = <<"emergency_hold", "exit">> /\ reviews # {}
                     \/ row.id[3] = <<"emergency_hold", "entry">> /\ emergencies # {}]_vars

(***************************************************************************)
(* The case of every request moves by the decision on it, as CaseLifecycle *)
(* has it, whatever run(), earlier runs, signal handlers and restarts do   *)
(* in between.  The answer comes with the decision here, so there is none  *)
(* to give later.                                                          *)
(***************************************************************************)
Lifecycle == INSTANCE CaseLifecycle WITH
    Id <- Case \X (0 .. MaxRuns) \X TransitionName \X Nat,
    decisions <- ledger, answers <- {}

\* The one exception: persist_submission_package completes the documents of a
\* case without a request, with the package it has just made.
CompletedByPackage(c) ==
    /\ case_state[c] = "INCENTIVES_COMPLETE"
    /\ case_state' = [case_state EXCEPT ![c] = "DOCUMENT_COMPLETE"]
    /\ current_package'[c] = <<c, runs[c]>>
    /\ UNCHANGED ledger

\* No state of a case is written but by its creation, by a decision that is
\* recorded with it, or by the package.
StatesMoveByDecision ==
    /\ Lifecycle!Init
    /\ [][Lifecycle!DecisionNext \/ \E c \in Case : CompletedByPackage(c)]_<<case_state, ledger>>

\* INV-001: a case is approved for submission only under an accepting review.
ApprovedCasesAreReviewed ==
    \A c \in Case :
        case_state[c] = "APPROVED_FOR_SUBMISSION" =>
            \E v \in reviews : v.case = c /\ v.outcome \in AcceptingOutcome

\* A case that was never on hold has, at every stage, the rows of all the
\* stages before it: restarts in the middle of the pipeline skip none.
NeverHeld(c) == ~\E row \in ledger : row.case = c /\ row.to = "EMERGENCY_HOLD"

StagesInOrder ==
    \A c \in Case :
        LET a == artifacts[c]
            s == case_state[c]
            documented == {"DOCUMENT_COMPLETE", "SUBMITTED", "MANUAL_SUBMISSION_REQUIRED"}
            incentives == documented \cup {"INCENTIVES_COMPLETE"}
            compliant == incentives \cup {"COMPLIANCE_COMPLETE"}
            researched == compliant \cup {"RESEARCH_COMPLETE"}
        IN NeverHeld(c) =>
            /\ s \in documented => a.package /\ current_package[c] # None
            /\ s \in incentives => a.assessed_at # {}
            /\ s \in compliant => a.evaluated_at # {}
            /\ s \in researched => "FRESH" \in a.requirements /\ a.jurisdiction /\ a.project

\* An emergency signal has submitted the case: an entry may ask for any state.
SubmittedByEntry(c) ==
    \E row \in ledger :
        /\ row.case = c /\ row.verdict = "APPLIED" /\ row.to = "SUBMITTED"
        /\ row.id[3] = <<"emergency_hold", "entry">>

\* run() submits a case on the receipt of an attempt and leaves it to its
\* operators with a fallback package, never on the other's outcome.
SubmissionsHaveAttempts ==
    \A c \in Case :
        NeverHeld(c) =>
            /\ case_state[c] = "SUBMITTED" =>
                  \/ \E a \in attempts : a.case = c /\ a.outcome = "SUCCESS"
                  \/ SubmittedByEntry(c)
            /\ case_state[c] = "MANUAL_SUBMISSION_REQUIRED" =>
                  /\ artifacts[c].proof_bundle # "NONE"
                  /\ \E a \in attempts : a.case = c /\ a.outcome # "SUCCESS"

\* What spec.md asks of a submission: the package the case now has was sent.
CurrentPackageWasSubmitted ==
    \A c \in Case :
        case_state[c] = "SUBMITTED" =>
            \E a \in attempts : a.case = c /\ a.package = current_package[c]

\* What reviews.py tells the operator: a workflow whose review signal was lost
\* can be signalled again.
ResignalledRunsProceed ==
    \A c \in Case : review_signal[c] = "LEGACY" => workflow[c] # "WEDGED"

\* A run hangs nowhere but in a data activity: it closes, wedges, or waits for
\* a review nobody has signalled.
RunsSettle ==
    \A c \in Case :
        Running(c) ~> \/ ~Running(c)
                      \/ \E op \in DataStep : At(c, op)
                      \/ At(c, "await") /\ review_signal[c] = None

\* The attempt a run makes with its review.
ReviewedAttempts(c, run) == {row \in ledger : row.id = RequestId(c, run, Approval, 2)}

\* A run that waits and is signalled an accepting review of its case approves
\* it.  Only a blocking contradiction or an emergency signal, which moved the
\* case or stopped the run first, comes in between, and the review itself is
\* never refused.
SignalledReviewApproves ==
    \A c \in Case, id \in ReviewId, run \in Run :
        (/\ At(c, "await") /\ Running(c) /\ runs[c] = run
         /\ review_signal[c] = id
         /\ \E v \in reviews : v.id = id /\ v.case = c /\ v.outcome \in AcceptingOutcome)
        ~> \/ \E row \in ReviewedAttempts(c, run) :
                 \/ row.verdict = "APPLIED"
                 \/ /\ row.verdict = "BLOCKING_CONTRADICTION_UNRESOLVED"
                    /\ \E k \in contradictions : k.case = c /\ k.blocking
                 \/ /\ row.verdict = "FROM_STATE_MISMATCH"
                    /\ \E r \in ledger : /\ r.case = c /\ r.verdict = "APPLIED"
                                         /\ r.id[3][1] = "emergency_hold"
           \/ /\ ReviewedAttempts(c, run) = {}
              /\ ~Running(c) /\ signals[c].taken > 0
=============================================================================
