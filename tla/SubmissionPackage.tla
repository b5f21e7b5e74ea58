------------------------- MODULE SubmissionPackage -------------------------
(***************************************************************************)
(* persist_submission_package and deterministic_submission_adapter, step   *)
(* by step, for one permit case: the documents go to the object store, the *)
(* rows that name them to the database, and Temporal may have several      *)
(* executions of an activity under way.  PermitCaseWorkflow has each of    *)
(* these activities as one step; this module has what can come between.    *)
(*                                                                         *)
(* An activity may run for start_to_close_timeout; then Temporal starts    *)
(* another execution, and takes no answer but that of the last one.  The   *)
(* activities run on threads (worker.py), which nothing stops: an          *)
(* execution that timed out goes on and its writes count.                  *)
(*                                                                         *)
(* A statement or a commit may raise, an object may fail to be stored and  *)
(* a worker may die.  A commit that raises may have taken effect.          *)
(***************************************************************************)
EXTENDS Naturals, FiniteSets

CONSTANTS
    MaxRuns,      \* bound: runs of the workflow that make a package
    MaxFailures,  \* bound: errors, deaths and time-outs
    None          \* no package, no receipt

ASSUME BoundAssumption == MaxRuns \in Nat /\ MaxFailures \in Nat

\* The executions of the activities, in the order Temporal starts them: a run
\* takes two, and each failure one more.
Execution == 1..(2 * MaxRuns + MaxFailures)

ASSUME NoneAssumption == None \notin Execution

VARIABLES
    case_state,       \* permit_cases.case_state
    current_package,  \* permit_cases.current_package_id
    fallback,         \* whether portal_support_level calls for a manual fallback
    run,              \* the run of the workflow, 0 before the first
    stage,            \* what that run awaits
    package_id,       \* the package its activity answered
    awaited,          \* the execution whose answer Temporal would take
    execution,        \* the executions under way
    failures,         \* how many errors, deaths and time-outs there were
    packages,         \* submission_packages
    documents,        \* document_artifacts: <<package, artifact>>
    evidence,         \* evidence_artifacts: artifact ids
    objects,          \* artifacts in the object store
    attempts,         \* submission_attempts
    fallbacks         \* manual_fallback_packages

caseVars == <<case_state, current_package, fallback>>
runVars == <<run, stage, package_id>>
temporalVars == <<awaited, execution, failures>>
packageTables == <<packages, documents>>
tableVars == <<packages, documents, evidence, objects, attempts, fallbacks>>
vars == <<caseVars, runVars, temporalVars, tableVars>>

-----------------------------------------------------------------------------
(***************************************************************************)
(* Ids.  Every execution makes new ids for its package and its artifacts;  *)
(* a run has one request id for its package and one attempt id; all runs   *)
(* of a case submit under the key of attempt 1.  One document stands for   *)
(* those of a package, which are stored one after the other.               *)
(***************************************************************************)
DocumentOf(x) == <<x, "DOCUMENT">>
ManifestOf(x) == <<x, "MANIFEST">>
ReceiptOf(x) == <<x, "RECEIPT">>
Artifact == Execution \X {"DOCUMENT", "MANIFEST", "RECEIPT"}

SubmissionKey == 1

CaseState ==
    {"INCENTIVES_COMPLETE", "DOCUMENT_COMPLETE", "SUBMITTED",
     "MANUAL_SUBMISSION_REQUIRED", "RESUBMISSION_PENDING"}

Outcome == {"SUCCESS", "UNSUPPORTED_WORKFLOW", "FAILED"}
StatusOf == [o \in Outcome |->
    CASE o = "SUCCESS" -> "SUBMITTED"
      [] o = "UNSUPPORTED_WORKFLOW" -> "MANUAL_FALLBACK"
      [] o = "FAILED" -> "FAILED"]

\* id and request name the run; the package is named by the execution that
\* made it.
Package == [id : Execution, request : Nat, manifest : Artifact]

Attempt ==
    [id : Nat, key : {SubmissionKey}, package : Execution,
     outcome : Outcome, receipt : Artifact \cup {None}]

Unused == [step |-> "unused"]
Done == [step |-> "done"]

\* package is what one activity returns and the other is given, outcome what
\* the adapter returns.
Under(activity, r, package) ==
    [step |-> "find", activity |-> activity, run |-> r, package |-> package,
     outcome |-> None]

ExecutionState ==
    {Unused, Done}
    \cup [step : {"find", "put_document", "put_manifest", "insert", "lock",
                  "put_receipt", "commit", "reload", "record_failure", "answer"},
          activity : {"package", "submit"}, run : Nat,
          package : Execution \cup {None}, outcome : Outcome \cup {None}]

At(x, activity, step) ==
    /\ execution[x].step = step
    /\ execution[x].activity = activity

Go(x, step) == execution' = [execution EXCEPT ![x].step = step]

AnswerPackage(x, id) ==
    execution' = [execution EXCEPT ![x].step = "answer", ![x].package = id]

AnswerOutcome(x, outcome) ==
    execution' = [execution EXCEPT ![x].step = "answer", ![x].outcome = outcome]

\* The case's row is locked FOR UPDATE from the adapter's read of it to its commit.
Locked ==
    \E x \in Execution : \E step \in {"put_receipt", "commit"} : At(x, "submit", step)

-----------------------------------------------------------------------------
(***************************************************************************)
(* Temporal.                                                               *)
(***************************************************************************)
Asks == stage \in {"package", "submit"}

\* The first execution of an activity, or one after an error or a time-out.
Start(x) ==
    /\ Asks
    /\ execution[x] = Unused
    /\ \A y \in Execution : y < x => execution[y] # Unused
    /\ awaited' = x
    /\ execution' = [execution EXCEPT ![x] =
            Under(stage, run, IF stage = "submit" THEN package_id ELSE None)]
    /\ UNCHANGED <<caseVars, runVars, tableVars>>

NobodyWorks == IF awaited = None THEN TRUE ELSE execution[awaited] = Done

Schedule ==
    /\ NobodyWorks
    /\ UNCHANGED failures
    /\ \E x \in Execution : Start(x)

TimeOut ==
    /\ ~NobodyWorks
    /\ failures < MaxFailures
    /\ failures' = failures + 1
    /\ \E x \in Execution : Start(x)

\* The worker dies, or the package activity raises: its transaction is gone.
Crash(x) ==
    /\ execution[x] \notin {Unused, Done}
    /\ failures < MaxFailures
    /\ failures' = failures + 1
    /\ execution' = [execution EXCEPT ![x] = Done]
    /\ UNCHANGED <<caseVars, runVars, awaited, tableVars>>

\* The adapter raises: its transaction is gone unless it had committed, and
\* the handler of the exception is next.
Raise(x) ==
    /\ \E step \in {"find", "lock", "put_receipt", "commit", "reload", "answer"} :
          At(x, "submit", step)
    /\ failures < MaxFailures
    /\ failures' = failures + 1
    /\ Go(x, "record_failure")
    /\ UNCHANGED <<caseVars, runVars, awaited, tableVars>>

-----------------------------------------------------------------------------
(***************************************************************************)
(* persist_submission_package.                                             *)
(***************************************************************************)
PackagesOf(r) == {p \in packages : p.request = r}

\* A package made for the request already is the answer.
FindPackage(x) ==
    /\ At(x, "package", "find")
    /\ IF PackagesOf(execution[x].run) = {} THEN Go(x, "put_document")
       ELSE \E p \in PackagesOf(execution[x].run) : AnswerPackage(x, p.id)
    /\ UNCHANGED <<caseVars, runVars, awaited, failures, tableVars>>

PutDocument(x) ==
    /\ At(x, "package", "put_document")
    /\ objects' = objects \cup {DocumentOf(x)}
    /\ Go(x, "put_manifest")
    /\ UNCHANGED <<caseVars, runVars, awaited, failures, packageTables, evidence,
                   attempts, fallbacks>>

\* Mutant: an error of the store is not raised.
PutManifestUnchecked(x) ==
    /\ At(x, "package", "put_manifest")
    /\ Go(x, "insert")
    /\ UNCHANGED <<caseVars, runVars, awaited, failures, tableVars>>

PutManifest(x) ==
    /\ At(x, "package", "put_manifest")
    /\ objects' = objects \cup {ManifestOf(x)}
    /\ Go(x, "insert")
    /\ UNCHANGED <<caseVars, runVars, awaited, failures, packageTables, evidence,
                   attempts, fallbacks>>

\* The rows of execution x's package.
InsertRows(x) ==
    /\ evidence' = evidence \cup {ManifestOf(x), DocumentOf(x)}
    /\ packages' = packages \cup
          {[id |-> x, request |-> execution[x].run, manifest |-> ManifestOf(x)]}
    /\ documents' = documents \cup {<<x, DocumentOf(x)>>}
    /\ current_package' = x

\* Mutant: the case is put at DOCUMENT_COMPLETE whatever its state.
InsertPackageMovesCase(x) ==
    /\ At(x, "package", "insert")
    /\ ~Locked
    /\ InsertRows(x)
    /\ case_state' = "DOCUMENT_COMPLETE"
    /\ AnswerPackage(x, x)
    /\ UNCHANGED <<fallback, runVars, awaited, failures, objects, attempts, fallbacks>>

\* One transaction.  Its ids are new, so no key of it is taken; its foreign
\* keys wait for a lock on the case and then hold off the next one.
InsertPackage(x) ==
    /\ At(x, "package", "insert")
    /\ ~Locked
    /\ InsertRows(x)
    /\ case_state' = IF case_state = "INCENTIVES_COMPLETE" THEN "DOCUMENT_COMPLETE"
                     ELSE case_state
    /\ AnswerPackage(x, x)
    /\ UNCHANGED <<fallback, runVars, awaited, failures, objects, attempts, fallbacks>>

-----------------------------------------------------------------------------
(***************************************************************************)
(* deterministic_submission_adapter.                                       *)
(***************************************************************************)
AttemptOf(r) == {a \in attempts : a.id = r}

\* The attempt of this run, if there is one, is the answer.
FindAttempt(x) ==
    /\ At(x, "submit", "find")
    /\ IF AttemptOf(execution[x].run) = {} THEN Go(x, "lock")
       ELSE \E a \in AttemptOf(execution[x].run) : AnswerOutcome(x, a.outcome)
    /\ UNCHANGED <<caseVars, runVars, awaited, failures, tableVars>>

\* Mutant: the key of the attempt is not unique.
CollisionsOfRun(r) == AttemptOf(r)

\* Rows the unique keys of an attempt of run r would collide with.
Collisions(r) == {a \in attempts : a.id = r \/ a.key = SubmissionKey}

\* Mutant: the answer is given before the commit.
LockCaseAnswers(x) ==
    /\ At(x, "submit", "lock")
    /\ ~Locked
    /\ IF Collisions(execution[x].run) # {} THEN Go(x, "reload")
       ELSE AnswerOutcome(x, IF fallback THEN "UNSUPPORTED_WORKFLOW" ELSE "SUCCESS")
    /\ UNCHANGED <<caseVars, runVars, awaited, failures, tableVars>>

\* The case is locked and the attempt inserted and flushed.
LockCase(x) ==
    /\ At(x, "submit", "lock")
    /\ ~Locked
    /\ Go(x, CASE Collisions(execution[x].run) # {} -> "reload"
               [] Collisions(execution[x].run) = {} /\ fallback -> "commit"
               [] OTHER -> "put_receipt")
    /\ UNCHANGED <<caseVars, runVars, awaited, failures, tableVars>>

PutReceipt(x) ==
    /\ At(x, "submit", "put_receipt")
    /\ objects' = objects \cup {ReceiptOf(x)}
    /\ Go(x, "commit")
    /\ UNCHANGED <<caseVars, runVars, awaited, failures, packageTables, evidence,
                   attempts, fallbacks>>

NewAttempt(x, outcome, receipt) ==
    [id |-> execution[x].run, key |-> SubmissionKey,
     package |-> execution[x].package, outcome |-> outcome, receipt |-> receipt]

CommitReceipt(x) ==
    /\ attempts' = attempts \cup {NewAttempt(x, "SUCCESS", ReceiptOf(x))}
    /\ evidence' = evidence \cup {ReceiptOf(x)}
    /\ AnswerOutcome(x, "SUCCESS")
    /\ UNCHANGED fallbacks

CommitFallback(x) ==
    /\ attempts' = attempts \cup {NewAttempt(x, "UNSUPPORTED_WORKFLOW", None)}
    /\ fallbacks' = fallbacks \cup
          {[attempt |-> execution[x].run, package |-> execution[x].package]}
    /\ AnswerOutcome(x, "UNSUPPORTED_WORKFLOW")
    /\ UNCHANGED evidence

CommitAttempt(x) ==
    /\ At(x, "submit", "commit")
    /\ IF fallback THEN CommitFallback(x) ELSE CommitReceipt(x)
    /\ UNCHANGED <<caseVars, runVars, awaited, failures, packageTables, objects>>

\* Mutant: the row that was in the way is looked for by its request only.
ReloadByRequest(x) ==
    /\ At(x, "submit", "reload")
    /\ \/ \E a \in AttemptOf(execution[x].run) : AnswerOutcome(x, a.outcome)
       \/ /\ AttemptOf(execution[x].run) = {}
          /\ execution' = [execution EXCEPT ![x] = Done]
    /\ UNCHANGED <<caseVars, runVars, awaited, failures, tableVars>>

\* After the IntegrityError the row in the way is the answer, another run's too.
Reload(x) ==
    /\ At(x, "submit", "reload")
    /\ \E a \in Collisions(execution[x].run) : AnswerOutcome(x, a.outcome)
    /\ UNCHANGED <<caseVars, runVars, awaited, failures, tableVars>>

\* Mutant: the failure class is recorded as the outcome.
RecordFailureClass(x) ==
    /\ At(x, "submit", "record_failure")
    /\ attempts' =
          {IF a.id = execution[x].run /\ StatusOf[a.outcome] # "SUBMITTED"
           THEN [a EXCEPT !.outcome = "ADAPTER_ERROR"] ELSE a : a \in attempts}
    /\ execution' = [execution EXCEPT ![x] = Done]
    /\ UNCHANGED <<caseVars, runVars, awaited, failures, packageTables, evidence,
                   objects, fallbacks>>

\* Mutant: an attempt that was submitted is failed too.
RecordFailureAlways(x) ==
    /\ At(x, "submit", "record_failure")
    /\ attempts' = {IF a.id = execution[x].run THEN [a EXCEPT !.outcome = "FAILED"]
                    ELSE a : a \in attempts}
    /\ execution' = [execution EXCEPT ![x] = Done]
    /\ UNCHANGED <<caseVars, runVars, awaited, failures, packageTables, evidence,
                   objects, fallbacks>>

\* The exception handler, in a transaction of its own: an attempt that got
\* through, in this execution or another, is failed unless it was submitted.
RecordFailure(x) ==
    /\ At(x, "submit", "record_failure")
    /\ attempts' =
          {IF a.id = execution[x].run /\ StatusOf[a.outcome] # "SUBMITTED"
           THEN [a EXCEPT !.outcome = "FAILED"] ELSE a : a \in attempts}
    /\ execution' = [execution EXCEPT ![x] = Done]
    /\ UNCHANGED <<caseVars, runVars, awaited, failures, packageTables, evidence,
                   objects, fallbacks>>

-----------------------------------------------------------------------------
(***************************************************************************)
(* The workflow: the branches of run() that make a package, and            *)
(* _run_submission_step.                                                   *)
(***************************************************************************)
\* After a correction run() first moves the case back to DOCUMENT_COMPLETE.
StartRun ==
    /\ stage = "closed"
    /\ run < MaxRuns
    /\ case_state \in {"INCENTIVES_COMPLETE", "DOCUMENT_COMPLETE", "RESUBMISSION_PENDING"}
    /\ ~Locked
    /\ case_state' = IF case_state = "RESUBMISSION_PENDING" THEN "DOCUMENT_COMPLETE"
                     ELSE case_state
    /\ run' = run + 1
    /\ stage' = "package"
    /\ package_id' = None
    /\ UNCHANGED <<current_package, fallback, temporalVars, tableVars>>

\* The state run() asks for after an outcome; FAILED raises RuntimeError.
StageAfter == [o \in Outcome |->
    CASE o = "SUCCESS" -> "SUBMITTED"
      [] o = "UNSUPPORTED_WORKFLOW" -> "MANUAL_SUBMISSION_REQUIRED"
      [] o = "FAILED" -> "wedged"]

\* An execution returns; its answer counts if it is the one awaited.
Return(x) ==
    /\ execution[x].step = "answer"
    /\ execution' = [execution EXCEPT ![x] = Done]
    /\ IF x # awaited THEN UNCHANGED <<awaited, stage, package_id>>
       ELSE /\ awaited' = None
            /\ IF stage = "package"
               THEN stage' = "submit" /\ package_id' = execution[x].package
               ELSE stage' = StageAfter[execution[x].outcome] /\ UNCHANGED package_id
    /\ UNCHANGED <<caseVars, run, failures, tableVars>>

SubmissionIsGuarded ==
    /\ case_state = "DOCUMENT_COMPLETE"
    /\ stage = "SUBMITTED" => fallbacks = {}
    /\ stage = "MANUAL_SUBMISSION_REQUIRED" => fallbacks # {}

\* apply_state_transition, and the end of the run; a denial raises.
MoveCase ==
    /\ stage \in {"SUBMITTED", "MANUAL_SUBMISSION_REQUIRED"}
    /\ ~Locked
    /\ IF SubmissionIsGuarded THEN case_state' = stage /\ stage' = "closed"
       ELSE stage' = "wedged" /\ UNCHANGED case_state
    /\ UNCHANGED <<current_package, fallback, run, package_id, temporalVars, tableVars>>

\* The authority's comments and the correction, as PermitCaseWorkflow has them.
RequestResubmission ==
    /\ case_state = "SUBMITTED"
    /\ stage = "closed"
    /\ ~Locked
    /\ case_state' = "RESUBMISSION_PENDING"
    /\ UNCHANGED <<current_package, fallback, runVars, temporalVars, tableVars>>

-----------------------------------------------------------------------------
Execute(x) ==
    \/ FindPackage(x) \/ PutDocument(x) \/ PutManifest(x) \/ InsertPackage(x)
    \/ FindAttempt(x) \/ LockCase(x) \/ PutReceipt(x) \/ CommitAttempt(x)
    \/ Reload(x) \/ RecordFailure(x) \/ Return(x)

Next ==
    \/ Schedule \/ TimeOut
    \/ \E x \in Execution : Execute(x) \/ Crash(x) \/ Raise(x)
    \/ StartRun \/ MoveCase \/ RequestResubmission

Init ==
    /\ case_state = "INCENTIVES_COMPLETE"
    /\ current_package = None
    /\ fallback \in BOOLEAN
    /\ run = 0
    /\ stage = "closed"
    /\ package_id = None
    /\ awaited = None
    /\ execution = [x \in Execution |-> Unused]
    /\ failures = 0
    /\ packages = {} /\ documents = {} /\ evidence = {} /\ objects = {}
    /\ attempts = {} /\ fallbacks = {}

Spec == Init /\ [][Next]_vars

(***************************************************************************)
(* An execution that has not died goes on, Temporal runs an activity that  *)
(* raised again (no retry policy is set) and run() takes its results.      *)
(* Nothing has to time out, and the bound on failures says that they end.  *)
(***************************************************************************)
FairSpec ==
    /\ Spec
    /\ WF_vars(Schedule)
    /\ WF_vars(MoveCase)
    /\ \A x \in Execution : WF_vars(Execute(x))

-----------------------------------------------------------------------------
TypeOK ==
    /\ case_state \in CaseState
    /\ current_package \in Execution \cup {None}
    /\ fallback \in BOOLEAN
    /\ run \in Nat
    /\ stage \in {"closed", "package", "submit", "wedged", "SUBMITTED",
                  "MANUAL_SUBMISSION_REQUIRED"}
    /\ package_id \in Execution \cup {None}
    /\ awaited \in Execution \cup {None}
    /\ execution \in [Execution -> ExecutionState]
    /\ failures \in Nat
    /\ packages \subseteq Package
    /\ documents \subseteq Execution \X Artifact
    /\ evidence \subseteq Artifact
    /\ objects \subseteq Artifact
    /\ attempts \subseteq Attempt
    /\ fallbacks \subseteq [attempt : Nat, package : Execution]

\* The database never names what the object store does not have, nor a package
\* or an artifact row that is not there, and an attempt names a package that was
\* made for its own run: wherever an execution stops between the store and the
\* database, what is left over is objects without rows.
NothingDangles ==
    /\ evidence \subseteq objects
    /\ \A p \in packages :
          /\ p.manifest \in evidence
          /\ \E d \in documents : d[1] = p.id /\ d[2] \in evidence
    /\ \A a \in attempts :
          /\ \E p \in packages : p.id = a.package /\ p.request = a.id
          /\ a.receipt # None => a.receipt \in evidence
    /\ current_package # None => \E p \in packages : p.id = current_package

\* A case is at SUBMITTED only with an attempt the portal took and its receipt,
\* and at MANUAL_SUBMISSION_REQUIRED only with a fallback package: what the
\* workflow was told about the adapter was committed and stays.
MovedCasesAreProven ==
    /\ case_state = "SUBMITTED" =>
          \E a \in attempts : StatusOf[a.outcome] = "SUBMITTED" /\ a.receipt \in evidence
    /\ case_state = "MANUAL_SUBMISSION_REQUIRED" => fallbacks # {}

\* However many executions and runs overlap and fail, an attempt recorded as
\* submitted stays as it is, and no second one is recorded beside it.
SubmittedStands ==
    [][\A a \in attempts : StatusOf[a.outcome] = "SUBMITTED" => attempts' = {a}]_vars

\* A package activity that timed out long ago cannot take the case off the
\* state its submission reached: only a request for resubmission does.
SubmissionIsNotUndone ==
    [][/\ case_state = "SUBMITTED"
       /\ case_state' # case_state
       => case_state' = "RESUBMISSION_PENDING" /\ stage = "closed"]_vars

\* What CaseSubmission sees of the tables.
PackageRows == {[id |-> p.id, request |-> p.request] : p \in packages}
AttemptRows ==
    {[run |-> a.id, package |-> a.package, outcome |-> a.outcome] : a \in attempts}

Submission == INSTANCE CaseSubmission WITH
    PackageId <- Execution, Request <- Nat,
    packages <- PackageRows, attempts <- AttemptRows

(***************************************************************************)
(* However its executions overlap, fail and are run again, what they leave *)
(* in the tables is what atomic steps would: packages, each made at once,  *)
(* one attempt for all runs, and a case that goes where its outcome says.  *)
(***************************************************************************)
SubmittedOnce == Submission!Spec

\* On a portal that takes submissions every run completes, whatever failed and
\* timed out on the way: a retry finds what it collides with, nothing is left
\* that fails it for good, and the move it asks for is not denied.
SupportedRunsComplete == (stage # "closed" /\ ~fallback) ~> (stage = "closed")
=============================================================================
