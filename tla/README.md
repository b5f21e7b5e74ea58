# Formal models of SPS

SPS takes a permit case from intake to submission. A FastAPI application writes
the decisions of people into Postgres, a Temporal workflow per case drives the
case through its states, and every change of state goes through one guarded,
idempotent activity, `apply_state_transition`. These modules model that core:
the guard and its ledger under concurrent, retried and crashing executions, the
workflow with the signals, restarts and activities around it, the making and
submitting of a package between the database, the object store and Temporal, and
what an authority's answers leave behind. Around the core they model what people
decide through the API: reviews with their dissents, the gate a release passes,
and the configuration that is changed under review. TLC checks small instances;
TLAPS proves the main results for all values of the constants.

Source paths below are relative to `src/src/sps/`.

## 1. Inventory

| Component | State it keeps | Operations | What is hard about it | What makes it correct |
|---|---|---|---|---|
| Case transitions (`workflows/permit_case/activities_impl.py`) | `permit_cases.case_state`, `case_transition_ledger`, `audit_events` | `apply_state_transition` | overlapping executions of one request, worker deaths before and after the commit, rows that arrive between guard and commit | one verdict per request id; no lost update; an applied transition was legal and supported by its rows |
| Permit case workflow (`workflow.py`) | the step `run()` is at, the review signal, attempt counters of the emergency signals | `run`, signals `ReviewDecision`, `EmergencyHoldEntry`, `EmergencyHoldExit`, `StatusEvent` | restarts in the middle of the pipeline, handlers interleaved with `run()`, lost, early and repeated signals | fails closed, skips no stage, never reuses a request id, gets past a review that reached it |
| Data activities | jurisdiction, requirement, compliance and incentive rows | `persist_*` | retries, rows of one fixture shared by cases | rows grow only, and the guard reads them fresh |
| Package and submission | `submission_packages`, `document_artifacts`, `current_package_id`, `submission_attempts`, `manual_fallback_packages`, evidence rows and objects | `persist_submission_package`, `deterministic_submission_adapter` | idempotency keys across runs, executions that time out and go on, object store and database not atomic, a failure handler with a transaction of its own | one package per request, one attempt per key; rows name only what is stored; a submission stands, and is of the package the case has |
| Review API (`api/routes/reviews.py`) | `review_decisions`, `dissent_artifacts` | create, read | two counts, a look-up and a commit in statements of their own, beside other API processes; retries; one attempt to signal after the commit | a key stands for one decision, with its dissent and its event; an independence threshold is passed by overlap only; a decision reaches its workflow or can be sent again |
| Contradictions, overrides, emergencies (`api/routes/`) | their tables | create, resolve | expiry while a request is under way; scope; unlocked read-check-write | what they allow or block is judged by the guard |
| Case creation | `permit_cases`, `projects` | `POST /cases` | the workflow is started after the commit, and may not be | |
| External status events, corrections, resubmissions, approvals, inspections | their tables | `persist_external_status_event`, `activities_records.py` | duplicates, one event id under two cases or with two statuses, order, events for a closed run or one that has not begun | an event is stored once; its record is the one it calls for, and its own case's |
| Dissents and releases (`api/routes/ops.py`, `releases.py`, `scripts/generate_release_bundle.py`) | `release_bundles`, `release_artifacts`, rehearsal evidence | blockers, bundles, rehearsals | blockers change between check and post; an insert in two steps; a client that gave up; object store and database not atomic | no scripted bundle past a blocker older than its check; a bundle with all of its artifacts or not at all |
| Evidence and retention | `evidence_artifacts`, object store, `legal_holds` | register, read, purge plan | two stores, holds on an artifact or on its case | held evidence is not purged |
| Admin governance (`api/routes/admin_*.py`, `services/admin_*.py`) | intents, reviews and configuration of source rules, incentive programs, portal support | propose, review, apply | threads with stale reads, writes of changed columns only, several reviews of one intent | what is configured was asked for, approved and left a trail |
| CLI and worker | none | `start`, `signal-review`; hosts the activities | | |
| Auth, document generator, adapters, guard assertions, ops pages, config | none of their own, or read-only | | | |

`PROJECT.json` lists each of these with its status, and the hazards of the code
at their lines.

How they interact: the API handlers and the activities share nothing but
Postgres; the API talks to a workflow by signals, best-effort and after its own
commit; a workflow talks to Postgres through activities only, each retried by
Temporal until it completes (no retry policy is set, but for the two emergency
validations, which are tried once).

## 2. Modules

* `CaseRecords` is the part of the schema that transition guards read, the
  guard itself (`VerdictOf` and one operator per edge), and every writer of
  those tables. Each writer is one committed transaction. A row is reduced to
  what a guard asks of it: compliance and incentive rows to their dates,
  requirement sets to their freshness state, a package to its existence, the
  fallback package to the state of its proof bundle, an override to its case,
  expiry and the edges it names. A contradiction's `created_at` is the clock at
  its commit (the column's default is the database's clock).
* `CaseTransition` composes the tables with concurrent executions of
  `apply_state_transition`. The steps are those between which other
  transactions can come: the ledger lookup (`LookupMiss`, `LookupHit`), the
  locking read of the case with the whole guard (`Decide`, `CaseMissing`), the
  commit of case, audit event and ledger row (`Commit`), the refused insert and
  the reload (`CommitConflict`, `Reload`), the answer (`Return`) and a worker's
  death at any of these points (`Crash`). `Schedule` is the workflow asking for
  a transition; `WriteRecords` is anybody else's transaction.
* `CaseLifecycle` is what a caller of the activity relies on: one atomic
  decision per request, applied only along a legal edge from the state the
  request names; and one move that nobody requests, the package activity's
  (`CompleteDocuments`). `CaseTransition` implements it under the refinement
  `decisions <- ledger` (property `AtomicTransitions`). `PermitCaseWorkflow`
  implements it too, and says when that move is made (`StatesMoveByDecision`).
* `CaseRecordsProofs` holds lemmas about the guard and the writers of `CaseRecords`,
  for the proofs of the two modules that extend it.
* `CaseTransitionProofs` and `PermitCaseWorkflowProofs` hold the theorems about the
  modules they are named for.
* `PermitCaseWorkflow` is the workflow. `script[c]` is what `run()` has left to
  do, chosen by `ScriptFor` from its first snapshot as the branches of `run()`
  do; each `RunStep` is one awaited activity or wait. `handlers` are the
  emergency signals in flight, `undelivered` the reviews committed and not yet
  signalled. A transition is one step here, which is what the refinement above
  entitles it to. Request ids are the tuples the code formats into text: case,
  run, transition and attempt.
* `SubmissionPackage` takes apart the two activities that `PermitCaseWorkflow`
  has as one step each. `execution[x]` is where the x-th execution that Temporal
  started has got to; the steps are those between which other transactions, the
  object store or a failure can come: the lookup in a session of its own
  (`FindPackage`), each object stored (`PutDocument`, `PutManifest`), the
  transaction (`InsertPackage`); for the adapter the lookup (`FindAttempt`), the
  locked case and the flushed insert (`LockCase`), the receipt (`PutReceipt`),
  the commit (`CommitAttempt`), the row that was in the way (`Reload`), and the
  exception handler (`Raise`, `RecordFailure`). Around them are the parts of
  `run()` that make a package (`StartRun`, `MoveCase`) and Temporal (`Schedule`,
  `TimeOut`, `Return`, `Crash`). An id is the execution or the run that made it.
* `CaseSubmission` is what those activities come to for a case: packages are made,
  one of them at most is submitted, by the run it was made for, and the case goes
  where the outcome of that attempt says. `SubmissionPackage` implements it, with
  `packages` and `attempts` reduced to ids, runs and outcomes (`SubmittedOnce`).
* `StatusEvents` follows what an authority reports: the ingest route and
  `persist_external_status_event` (`Post`, `FindEvent`, `InsertEvent`,
  `ReloadEvent`), the signal (`SendSignal`, `MissRun`, `LoseSignal`), a run by
  its beginning, its end, and an exception that leaves it open for ever
  (`StartRun`, `FirstTask`, `CloseRun`, `WedgeRun`), the workflow task that handles
  the signal (`HandleSignal`), and the record activity it schedules (`FindRecord`,
  `InsertRecord`, `ReloadRecord`). The four record activities differ in their table only, so a
  record is its kind, its event, its case and its attempt.
* `EventLog` is what a reporter relies on: the first request of an event id says for
  good what happened, every request of that id is answered with it, and an event
  leaves one record at most. `StatusEvents` implements it, with a request reduced to
  what it asks and what it was answered (`EventsAreLoggedOnce`).
* `ReviewDecisions` is `POST /reviews/decisions` on several API processes. The
  handler is a coroutine without an `await` before its commit, so a process runs
  one at a time up to there, and the processes interleave at its statements: the
  count of all recent decisions (`CountAll`), the count of the pair's
  (`CountPair`), the look-up of the idempotency key (`AnswerKnown`, `KeyIsFree`),
  the commit of decision, dissent and audit event (`Commit`, `CommitFails`). Its
  `Posted` requests arrive any number of times, which makes every retry. `judged`
  is a history: which process judged a decision, and which it had counted of those in
  its window.
* `ReleaseGate` extends it with the release script, call by call
  (`BuildComponents`, `ReadContradictions`, `ReadDissents`, `PostBundle`,
  `TimeOut`), `POST /releases/bundles` with its flush before its commit
  (`RejectReferences`, `FlushBundle`, `CommitBundle`, `LoseRequest`), bundles
  posted without the script (`PostDirectly`), contradictions that are created and
  resolved in two steps (`ReadOpen`, `Resolve`), and rehearsals, whose object is
  stored before their row. `gate` of a bundle is a history: every blocker ever
  recorded when its script's check began.
* `AdminGovernance` is the three kinds of reviewed configuration, which have the
  same handlers over tables of their own. The handlers are plain functions on a
  pool of threads; each statement is an action, and all writes of a handler are
  in its commit (`RecordReview`, `Apply`). The SQLAlchemy session writes an
  attribute only if it was set to another value than the one loaded (`Written`),
  whatever the row holds by then: so an applied row is written column by column,
  and a status is left alone by a handler that read the status it sets.
* `SubmissionPackageProofs`, `StatusEventsProofs`, `ReviewDecisionsProofs`,
  `ReleaseGateProofs` and `AdminGovernanceProofs` hold the theorems about the
  modules they are named for.
* `MCCaseTransition`, `MCPermitCaseWorkflow`, `MCSubmissionPackage`,
  `MCStatusEvents`, `MCReleaseGate` (with `ReviewDecisions`) and
  `MCAdminGovernance` instantiate them for TLC.

How they fit together: `PermitCaseWorkflow` takes a transition for one step,
which `AtomicTransitions` entitles it to. It takes a package and a submission for
one step each as well, which is right as long as no execution outlives its
timeout; `SubmissionPackage` shows what holds when one does. Status events touch
no state of the other modules: their handlers write records that decide nothing elsewhere.
A review is one transaction (`RecordReview`) in `CaseRecords` and everything that extends it, and taken
apart in `ReviewDecisions`; the transitions read only its case and its outcome,
and `DecisionsStand` is what lets them take it for one step. A contradiction's
resolution, one step there, is two in `ReleaseGate`: the second changes nothing
that a guard reads. The configuration of `AdminGovernance` is read by nothing
under `src/sps` but its own routes.

### How the environment is modelled

*Postgres* runs at READ COMMITTED. `SELECT ... FOR UPDATE` on a case excludes
other executions (`Locked`). Every child table refers to `permit_cases` by a
foreign key, so an insert takes `FOR KEY SHARE` on the case's row, which
conflicts with `FOR UPDATE`: while an execution holds the lock, rows of that
case may change but none may arrive (`InsertsWait`). Two consequences are worth
knowing. A contradiction cannot be committed between the guard and the commit of
an approval (`ApprovalsSeeContradictions`). And `persist_submission_package`,
which reads the case without a lock, is safe from a concurrent emergency hold,
because it has inserted rows of the case before it reads it: that is why
`PersistPackage` is one step. Both would be lost under
`FOR NO KEY UPDATE`, and the mutant `WriteRecordsUnblocked` shows the first.

*Temporal* runs an unanswered activity again, possibly while the earlier
execution still runs, and records one completion. In `CaseTransition` the answer
of any execution may count, which allows more than Temporal does; in
`SubmissionPackage`, where the executions answer differently, it is that of the
last one started. The activities run on threads (`workflows/worker.py`), which a
timeout does not stop. An exception that is not a
Temporal failure (`RuntimeError` in `run()`) fails the workflow task, which is
replayed to the same end: the run is `WEDGED`, neither advancing nor closing. So does
the `ValidationError` of a result that lacks what its class requires, which is how
every run ends that finds its case in `SUBMITTED` or `CORRECTION_PENDING`
(`UnreturnableState`). An
activity that fails for good fails the run (`FAILED`). A run that closes drops
its handlers, but an activity it had scheduled may still take effect. A workflow
id may be started again once its last run has closed.

*Outside src/sps*, and marked external in the map: the operator who confirms a
proof bundle, whoever requests `SUBMITTED -> COMMENT_REVIEW_PENDING` and
`CORRECTION_PENDING -> RESUBMISSION_PENDING`, the clock, and what Temporal does.

## 3. Properties

Of `CaseTransition`:

| Property | What it says |
|---|---|
| `AnswersRepeatTheLedger` | one ledger row per request id, and no other verdict is ever answered |
| `VerdictsHoldUntilCommit` | a verdict waiting to be committed is alone on its case, and still true of it |
| `LedgerIsAPath` | the applied transitions of a case, in commit order, and the moves of its package activity in between are a path to the state it is in: no update is lost; the audit trail names each request once |
| `ApprovalsSeeContradictions` | nothing blocks a case at the moment an approval commits, unless an override names the approval |
| `ContradictionsGateApproval` | an approval ignored no contradiction from before its request that is open to this day, but under an override |
| `ApprovalsAreReviewed` | every approval rests on an accepting review of its own case, with an override or without (of the case: neither the guard nor a review names a package) |
| `AdvancesAreSupported` | every advance is supported by the rows its guard asks for, inside the freshness windows |
| `AtomicTransitions` | the module implements `CaseLifecycle` |
| `EveryRequestAnswered` | every request of an existing case is answered in the end |

Of `SubmissionPackage`:

| Property | What it says |
|---|---|
| `NothingDangles` | rows name only rows and objects that are there, and an attempt a package of its own run; what a failure leaves over is objects without rows |
| `MovedCasesAreProven` | a case is `SUBMITTED` only with an attempt the portal took and its receipt, and left to its operators only with a fallback package |
| `SubmittedStands` | an attempt recorded as submitted stays so, and no second one is recorded beside it |
| `SubmittedOnce` | the module implements `CaseSubmission`: of all packages that executions leave, one is submitted, once, by the run it was made for; and no late execution takes the case off the state its submission reached |
| `SupportedRunsComplete` | on a portal that takes submissions every run completes, whatever failed and timed out on the way |

Of `StatusEvents`:

| Property | What it says |
|---|---|
| `AnswersAreStored` | a request is answered with the row stored under its event id |
| `EventsAreLoggedOnce` | the module implements `EventLog`: the first request that is stored stands for its event id, later ones are answered with it, and a record follows such an answer |
| `RecordsMatchEvents` | a record is the one its event calls for, of the event's own case and attempt; so an event has one at most |
| `TakenSignalsAreRecorded` | a signal that a run has taken is handled, unless the run closes or wedges first; one that is handled leads to its record, unless the run closes first |

Of `ReviewDecisions` and `ReleaseGate`:

| Property | What it says |
|---|---|
| `DecisionsStand` | an idempotency key and an id stand for one decision, which has its audit event, and an open dissent exactly when it was accepted with one; whoever was answered with a decision has it stored |
| `PairShareIsBounded` | when a pair's last decision was judged, twice its recent decisions exceed all recent ones by at most one, and by one more a process: what gets past the rule that a pair has half at most is what overlaps |
| `GateSeesOlderBlockers` | a bundle the script posted ignores no contradiction and no high-risk dissent that was recorded when its check began and is open today |
| `ReleasesAreWhole` | a release has one bundle, all of its artifacts and no other's; a script that reports success has its bundle; a rehearsal in the registry has its object |

Of `AdminGovernance`:

| Property | What it says |
|---|---|
| `ConfigurationIsReviewed` | what stands in a column was asked for by an intent for that row, which was approved and whose application is in the trail |
| `TrailIsComplete` | audit events and rows match one to one, a key and an id stand for one review, and a status has a review or an application behind it |
| `ChangesAreAudited` | a configuration changes only in a step that adds an audit event of its own, for the application of an intent approved before, and to nothing that intent did not ask for |

Of `PermitCaseWorkflow`:

| Property | What it says |
|---|---|
| `RequestIdsAreFresh` | no two requests get one id; a repeated id would be answered with an old verdict and move nothing |
| `StatesMoveByDecision` | the state of a case is written by its creation, by a decision that is recorded with it under a new id and leads along a legal edge (`CaseLifecycle`), or by the package activity, and by nothing else |
| `HoldIsLeftBySignal` | nothing takes a case off its hold but the transition of an emergency signal: an exit, after some review, or an entry that names another state, after some emergency; nothing that `run()` or an earlier run has under way does |
| `CompletedRunsAdvanced` | a run that returned had every transition it asked for applied, or waited for the review it lacked |
| `StagesInOrder` | a case that was never on hold has the rows of every stage before its own, whatever runs took it there |
| `SubmissionsHaveAttempts` | a case that was never on hold is submitted on a successful attempt, or because an entry signal named that state; it is left to its operators only with a fallback package of an attempt the portal did not take, whatever signals name |
| `RunsSettle` | a run closes, wedges, waits for a review nobody has signalled, or stays in a data activity whose adapter has nothing for it; it hangs nowhere else |
| `SignalledReviewApproves` | a waiting run that gets an accepting review approves its case, unless a contradiction blocks it or an emergency signal has moved the case or stopped the run; the review itself is never refused |

## 4. Runs

| Run | Bounds | Why they are enough |
|---|---|---|
| `transition_race` | 1 case, 2 executions, 2 requests, 1 crash, 1 review, 1 package, fairness | two executions of one request, or of two requests for one case, are all the pairs that can conflict; a third repeats one of them. The requests are the review gate with and without a review, a hold, its exit to the state the package activity takes a case from, and a hold after that. Of other writers there are the reviewer and the package activity (`RaceSpec`); contradictions and the clock are in the next run |
| `transition_guards` | 1 execution, 3 requests, clock to 1, windows of 0. Two stories: approvals (2 requests) of a case beside another, with a review, a contradiction, and an override naming this edge or another; or the pipeline of one case, 3 requests one after the other, 2 rows of any kind | another case's row, another edge's override and one that expires before or after the request all occur. A hold, an exit and an edge reach every guard; two rows give stale beside fresh and a fallback on a package. With a window of 0 one tick is the boundary. A hold, its exit to `INCENTIVES_COMPLETE`, a package and a request from `DOCUMENT_COMPLETE` make the trail in which the package's move stands between two transitions. The constraint `OneStory` keeps the sum of the stories, not their product, and allows only the last request of a pipeline to be denied |
| `workflow_safety` | 1 case, 7 runs, clock to 1, 1 review, 1 contradiction, CLI signals, 2 handlers, 2 emergency signals to a run, entries that name the hold, `INTAKE_COMPLETE` or `SUBMITTED` | three stories (`OneStory`). An emergency in the first two runs, whose entries name the hold: an entry and an exit in flight together, beside every step of `run()` from intake, gate and package. Or one entry to each of three runs, naming any of the three states: a case taken onto the hold and off it, or submitted, by an entry, at every step of `run()`; the guard tells other targets apart by nothing but their edge. Or seven runs without one, which take a case through intake, the pipeline, the submission, correction and resubmission, with the CLI's signal in the first two |
| `workflow_liveness` | 1 run, 2 reviews, lost and CLI signals, 1 contradiction, 1 emergency, 1 signal of it, fairness | a review that comes second, or after the contradiction, the hold or its exit; nothing a run waits for is left by an earlier one, whose signals are not the later's |
| `submission_overlap` | 2 runs, 2 failures or timeouts, a supported portal or not, fairness | a run and its resubmission each with an execution that was given up and goes on, or one of them with two; a timeout together with an error or a lost commit |
| `status_events` | 2 cases, 2 events, 2 attempts, 2 requests, 2 runs per case, 1 failure, fairness | the six requests in `Asks` repeat an event, repeat it with another status or under another case, call for no record, or are refused; two requests are all that can race for an id |
| `release_gate` | 2 processes, 7 requests (4 decisions of one pair), a window of 0 and a clock to 1, 2 runs of the script, 1 post without it, 2 releases, 3 artifacts, 1 contradiction with 2 resolvers, 1 rehearsal | two processes and the third decision are the least at which a pair exceeds its half; the window moves on once. Four stories (`OneStory`, `StorySpec`): the decisions alone; one poster beside a contradiction and a decision with a dissent; all posters with nothing to block them; rehearsals. They share no state beyond the blockers, so nothing is lost but their products |
| `admin_trail` | 2 threads, 3 intents of one kind, 2 scopes, 10 reviews, 2 values, 3 events of applications | two threads are all that can overlap on a row; the reviews repeat keys and ids, reject beside an approval, and name APPLIED as an outcome. The kinds share no table, so one of them has intents at a time |
| `workflow_unreviewed_approval`, `workflow_resubmission`, `workflow_resignal`, `admin_mixed` | see section 6 | each is to be violated |

`CHECK_DEADLOCK FALSE` is in every configuration but the two of
`AdminGovernance`, where requests may always come again: elsewhere, when the
bounded requests, rows, runs and signals are used up, there is nothing left to do.
Symmetry is over request ids, executions, handlers, processes, threads and event ids, and
never in a run with a liveness property.

**Fairness.** In `CaseTransition`, every step of an execution: Temporal starts an
unanswered activity again without limit, and threads keep running. Nothing makes
a client ask, a writer write or a worker die. In `PermitCaseWorkflow`, the
steps of a run, which Temporal retries for ever (`RunAdvances`), but for those that
fetch data, make the package or send it: they need an adapter that has something for
the case, without which a data activity raises `LookupError` at every try
(`activities_impl.py:287-291`). So those are owed nothing, and `RunsSettle` says that
a run may stay in one. A handler is owed nothing either, nor the delivery of a
committed review, which is why `SignalledReviewApproves` starts where the signal has
been received: `SignalFailed` may always come first. Nobody has to review, to start a
run or to declare an emergency. In `SubmissionPackage`, each execution that has not died,
Temporal starting another where one raised, and `run()` taking its results;
failures are bounded, so that an activity does not raise for ever. In
`StatusEvents`, a request that has not died, the first task of a run, the handling of
a signal while its run can go on, and the activity of a handler while its run is open,
wedged or not: of a run that closed an activity may go on, and need not. Nothing makes
a run close or wedge.

## 5. Proofs

`CaseTransitionProofs` proves, for every value of the constants that satisfies
the `ASSUME`s of `CaseRecords` and `CaseTransition` (the windows and bounds are
naturals, `None` is not an identifier, the templates and override surfaces are
well typed):

* `TypeCorrect`: `Spec => []TypeOK`.
* `InductiveInvariant`: `Spec => []Inductive`, of which the next six are
  corollaries or near ones, and beside which the path of the ledger is inductive.
* `Idempotent`, `VerdictsHold`, `ContradictionsGate`, `ApprovalNeedsReview`,
  `AdvanceNeedsRows`: the invariants of section 3 of like content.
* `ContradictionsAreSeen`: the action property `ApprovalsSeeContradictions`.
* `LedgerPath`: `Spec => []LedgerIsAPath`.
* `Refinement`: `Spec => Lifecycle!Spec`.

None of the invariants is inductive alone. An approval is reviewed when it
*commits* only because it was when it was *decided* and nothing undid that; so
the invariant also speaks of the executions in between. Its parts are:
`RequestsAreNamed` (an id names one request), `ExecutionsServeRequests` and
`LedgerServesRequests` (executions and rows belong to requests that were made),
`VerdictsHoldUntilCommit` and `AnswersRepeatTheLedger`, `RequestedInThePast`
(without which a contradiction could predate a request yet to be made),
`AppliedIsJustified` (a verdict APPLIED, decided or ledgered, has its review, its
rows and its override) and `PendingApprovalsAreClear` (a decided approval is not
blocked, or has its override: this part is where `InsertsWait` is used). The
proof has a lemma per action, and lemmas that what justifies a verdict is never
taken away: reviews and rows are only added, an override never changes. `LedgerPath`
is an induction along the audit trail: a commit appends one event, under an id that
no row has (`AuditMatchesLedger`), and one that applies leaves the state the last
transition of its case led to, or the package activity from there, because the verdict
still holds (`CommitExtendsTrail`). That activity's move keeps the trail's end
connected to the state of the case, and a package is never taken away again.

`PermitCaseWorkflowProofs` proves, for any cases, reviews, emergencies and handlers
and any number of runs and signals (under the `ASSUME`s of `CaseRecords` and of
`PermitCaseWorkflow`: bounds are naturals, targets are states, and `None` is no
package):

* `TypeCorrect`: `Spec => []TypeOK`.
* `RequestsAreFresh`, `RunsFailClosed` and `StagesAreNotSkipped`: the invariants
  `RequestIdsAreFresh`, `CompletedRunsAdvanced` and `StagesInOrder`.
* `MovesAreDecided`: `Spec => StatesMoveByDecision`.
* `ApprovalsNeedReviews`: INV-001, that is `[]ApprovedCasesAreReviewed`, under the
  hypothesis `NoSignalApproves`.
* `SubmissionsFollowAttempts` and `HoldsAreLeftBySignal`: the invariant
  `SubmissionsHaveAttempts` and the action property `HoldIsLeftBySignal`, for any
  targets of the emergency signals.

`TypeCorrect`, `RequestsAreFresh`, `RunsFailClosed` and `MovesAreDecided` follow from `Inductive`. That the next request of a run is new to the
ledger depends on everything it has left to do, so the invariant speaks of whole
scripts: `WellFormed` says that no two steps of a script lead to the same request
(`Asks` counts those a step turns into: a submission asks for either of its
outcomes), and `StepsAreFresh` that none of these is in the ledger yet.
`RunsAreNumbered` keeps the requests of later runs apart, `HandlersAreFresh` those of
the signal handlers, whose attempts no counter of their run has fallen behind. A run
that returns was not denied because whatever it was denied wedged it, or is the first
try of the gate, after which it waits and then returns only on its second
(`FailsClosed`). Freshness is also what makes each answer a decision: a request with an
old id would be answered and move nothing, so `MovesAreDecided` goes through all the
actions that ask, with the lemma that a guard passes legal edges only (`AppliedIsLegal`).

`ApprovalsNeedReviews` marks out what the run `workflow_unreviewed_approval` refutes.
Beside `Inductive` it needs that a handler still has the target of its signal
(`HandlersKeepTargets`); then the only edge left into `APPROVED_FOR_SUBMISSION` is the
one whose guard finds the accepting review, and reviews are never taken away. So the
hold is the only hole in INV-001: whoever keeps the approval out of the targets of
emergency signals has it (`NoSignalApproves`).

The other three need `StagesAreSound`, which is inductive beside it: an entry's handler
moves a case on an emergency, and an exit's takes it off its hold after a review
(`HandlersHold`); `run()` has the edge to `SUBMITTED` left only when an attempt
succeeded (`ScriptsAreAttempted`); and a case that was never on hold has the rows of
its stage, and an attempt or an entry signal behind its submission, where the states of the correction
loop count as stages after the package (`StagesAreBacked`; the property leaves them out
and is not inductive for it, because `RESUBMISSION_PENDING` leads back to
`DOCUMENT_COMPLETE`). The last rests on three facts of each step: rows of a case are
only added to (`Kept`), its state moves along an edge that the rows back, onto a hold
or off it (`StateMoves`), and the guards of the edges ask for just the rows of the
stage they lead to (`GuardedEdgesAreBacked`).

`SubmissionPackageProofs` proves, for any number of runs and of failures (under the
`ASSUME`s of `SubmissionPackage`: both bounds are naturals and `None` is no
execution):

* `SubmissionInductive`: `Spec => []Inductive`, and from it `SubmissionTypeCorrect`,
  `SubmissionDanglesNothing` and `SubmissionProvesMoves`, the invariants `TypeOK`,
  `NothingDangles` and `MovedCasesAreProven`.
* `SubmissionStands` and `SubmissionStaysDone`: the action properties
  `SubmittedStands` and `SubmissionIsNotUndone`. The second follows from the
  actions alone; what it says of the states is part of `SubmittedOnce` too, so no
  run checks it beside that.
* `SubmissionRefines`: `Spec => SubmittedOnce`, the refinement of `CaseSubmission`.

That a row names a stored object when it is inserted rests on what its execution has
stored before, and what the case is moved to on what the execution that was waited
for has committed: so `Inductive` says, of an execution at each of its steps, what
is in the object store and in the tables already (`ExecutionsAreSound`), that the
execution waited for works for the run that waits (`RunIsSound`), and that the lock
on the case admits one adapter at a time, while there is no attempt
(`LockExcludes`). This last part is why an attempt that is committed is the first
and stays the only one. There is a lemma per action, and one that what an execution
does leaves the facts of the others standing. The refinement needs two
parts more (`SubmissionRows`): an execution makes one package, so that ids are new
(`PackagesAreMade`), and a fallback package has its attempt, so that a case that is
left to its operators has one (`FallbacksAreBacked`).

`StatusEventsProofs` proves, for any cases, attempts, events and requests and any
number of runs (under the `ASSUME`s of `StatusEvents`: a request is of the right
type and `None` is nothing else):

* `EventsInductive`: `Spec => []Inductive`, and from it `EventsTypeCorrect`,
  `AnswersStored` and `RecordsMatch`, the invariants `TypeOK`, `AnswersAreStored`
  and `RecordsMatchEvents`.
* `EventsRefine`: `Spec => EventsAreLoggedOnce`, the refinement of `EventLog`.
* `StoredEventsStand`: the action property `EventsStand`, that a stored event is
  never changed, of which the refinement leaves nothing for a run to check.

Again none is inductive alone. That a record matches its event rests on the
handler's signal being a stored row, which rests on what the request was answered
with, and that on the event id being the key of the table; and a handler's record
may be called for only because signals that call for none never reach the
activity. Those are the parts of `Inductive`, and there is a lemma per group of
actions. The refinement needs besides that a request has no answer before its first
(`AnswersAreFirst`): then the step that stores the row is the step of `EventLog` that
answers, and one that finds a row answers with the one that stands.

`ReviewDecisionsProofs` proves `ReviewInvariant` (`ReviewSpec => []ReviewInductive`)
and `ReviewTypeCorrect`, for any finite set of processes and any requests. Beside
the three parts of `DecisionsStand`, `ReviewInductive` says that a process that has
counted has counted every decision it judged before, but for those too old for its
window (`CountsAreOwn`), so that of two decisions it judged one was counted for the
other or was too old (`OwnAreCovered`), and that what was judged is stored
(`JudgedAreStored`). `PairShareBounded` is `ReviewSpec => []PairShareIsBounded`. It
rests on `ShareInductive`: what a process counted is still within what is stored
(`CountsStand`), and a decision was within the half that its process had counted when
it was judged (`JudgementsStand`). Of the pair's decisions that the last judgement has
not counted, no two are of one process (by `OwnAreCovered`), so there are no
more of them than processes: a pigeonhole over `Server`, with the cardinality theorems
of the library.

`ReleaseGateProofs` composes that with the gate, for any runs, releases and
packages: every step of the reviews only adds dissents, and every step of the gate
leaves the reviews alone, so `GateAndReviews` is inductive. Its theorems are
`GateTypeCorrect`, `DecisionsStandForGood`, `PairShareHolds`
(`PairShareIsBounded`), `GateHolds` (`GateSeesOlderBlockers`) and `ReleasesWhole` (`ReleasesAreWhole`). What a bundle
ignored was resolved by the time it was checked and is never opened again; this is
said of the script after its check (`ChecksAreClear`), of its request under way
(`PostsAreClear`) and of its bundle (`BundlesAreClear`). That a bundle is whole
rests on one flush a release at a time (`FlushedIsAlone`). `ReviewsStandAlone` is
`Spec => ReviewSpec`: what holds of the reviews on their own holds beside the gate,
which is how `PairShareHolds` comes from `PairShareBounded`.

`AdminGovernanceProofs` proves, for any intents, reviews, scopes, values and
threads, `TypeCorrect`, `ConfigurationReviewed`, `TrailComplete` and
`ChangesAudited`, from `Inductive`: the tables are sound (`TablesAreSound`) and what
a handler holds is backed by them (`HandlersAreBacked`): an intent it loaded is
stored, and the review it found approves. It proves too what the run `admin_mixed`
refutes in general, for the kinds it holds for: `SingleColumnsAreAnIntents`, that
the configuration of a source rule or an incentive program, which has one column,
is always what one approved intent says.

Every safety property that a passing run checks has its theorem. Only model-checked is
liveness, which is out of the prover's reach: `EveryRequestAnswered`, `RunsSettle`,
`SignalledReviewApproves`, `SupportedRunsComplete` and `TakenSignalsAreRecorded`. The
four properties of section 6 with runs of their own are refuted there; two theorems say
where they hold (`ApprovalsNeedReviews`, `SingleColumnsAreAnIntents`).

## 6. Where code and documents disagree

* `workflow_unreviewed_approval`: INV-001 says that no case enters
  `APPROVED_FOR_SUBMISSION` without a valid review decision. The exit of an
  emergency hold may name that state, is applied without a further check, and is
  confirmed by any review row, a blocking one included.
* `workflow_resubmission`: the specification disallows `SUBMITTED` without a
  receipt, and a resubmission is to regenerate the package and submit it. Every
  attempt has the idempotency key of the case's attempt 1, so the second
  submission is answered with the first one's receipt, and the new package is
  never sent.
* `workflow_resignal`: `README-DEV.md` has an operator unblock a workflow with
  the CLI's `signal-review`, and the review API refers a lost signal to the
  operator. That signal carries no decision, and the run fails its workflow task
  on it for ever; the first signal is kept, so no later one helps.
* `admin_mixed`: every admin change is to leave an intent, a review and an audit
  trail. Two intents for one portal, applied at the same time, each write the
  columns they change, and leave a row that neither of them asked for.

These are in the models without a run of their own:

* An entry signal may name any state: `EMERGENCY_HOLD` is the default of its
  `target_state`, which nothing enforces (`contracts.py:117`), and the handler asks for
  a transition out of the state it finds to the one it was given
  (`workflow.py:1045-1050`). So it takes a case off a hold that only a reviewed exit is
  to end (`specs/sps/build-approved/spec.md:490`, `.gsd/DECISIONS.md:121`), and from `DOCUMENT_COMPLETE` to `SUBMITTED` without
  the receipt that `specs/sps/build-approved/spec.md:495` asks for. The run
  `workflow_safety` has such entries, and its properties say just what is left:
  `HoldIsLeftBySignal` and `SubmissionsHaveAttempts` (`SubmittedByEntry`).
* A run that finds its case in `SUBMITTED` or `CORRECTION_PENDING` returns a result
  without the fields its class requires (`workflow.py:764-775` and `820-831`,
  `contracts.py:465-472`): where the comments have it wait for what comes next, it
  wedges (`UnreturnableState`).
* INV-001 speaks of a review decision "for the active package". No review and no guard
  names a package, so `ApprovalsAreReviewed` and `ApprovalsNeedReviews` speak of the
  case.
* The runtime profile (`runtime-implementation-profile.md:133`) has every mutation of
  a case's state pass through the guard. `persist_submission_package` moves a case
  from `INCENTIVES_COMPLETE` to `DOCUMENT_COMPLETE` itself, with no request, no
  ledger row and no audit event of a transition (`PersistPackage`). It is the only
  one that does: `StatesMoveByDecision` is exact about it (`CompletedByPackage`), and
  `LedgerIsAPath` counts it among the steps of the path (`PackageMove`), for no row of
  the ledger has it.
* `persist_submission_package` promises to be idempotent. It looks for a package of
  its request in one session and inserts one under a new id in another, and no key
  names the request; an execution that outlives its timeout and the one after it
  leave two packages, and the case's `current_package_id` may be the one that is
  not submitted (`FindPackage`, `InsertPackage`).
* A `StatusEvent` that reaches a run before its first workflow task is handled
  before `run()` has set the case id, and the handler's assertion wedges the run
  (`FirstTask`).
* Where the portal is unsupported, an error after the adapter's commit makes the
  exception handler fail an attempt that had its fallback package: the retry is
  answered FAILED and the run raises (`RecordFailure`; hence the portal in
  `SupportedRunsComplete`).
* `POST /reviews/decisions` is described as idempotent on its key. The independence
  rule is judged before the key is looked up, so a retry of a decision that is
  stored may be refused (`CountPair` before `AnswerKnown`).
* `POST /releases/bundles` asks for no blockers itself, and nothing ties the
  script's check to its post: REL-001 holds for blockers older than the check
  (`GateSeesOlderBlockers`), and for bundles the script makes. A script that gave
  up after its ten seconds may still have its bundle made (`TimeOut`).
* `artifact_id` is the key of `release_artifacts`, so a second release of an
  artifact is refused as already existing (`CommitBundle`). A rehearsal may name a
  release that does not exist.
* Two resolutions of a contradiction may both be answered 200, where the docstring
  promises the second a 409; `resolved_by` is the later one (`Resolve`).
* An intent may be applied on an approval that a later review rejected
  (`RequireApprovedReview`). Nothing closes a dissent, so a high-risk one blocks
  every later release.

## 7. Not modelled

* Evidence routes and retention: nothing under `src/sps` deletes evidence or makes
  or releases a hold; the purge is a list that nothing acts on, and the delete
  route answers 501. That the list joins holds on the artifact only, where the
  guard of the delete route joins those on its case too (`retention/purge.py`,
  `retention/guard.py`), is among the hazards.
* The inside of the `persist_*` activities for jurisdiction, requirements,
  compliance and incentives. Each is one transaction here: it adds the rows of its
  fixture or none. A fixture's rows are rewritten to the case that asks, but keep
  their ids, so a second case finds them taken and gets none of its own.
* The columns of the post-submission records beyond their keys: the code writes
  them once. The later statuses of a fallback package, which nothing writes.
* In `ReleaseGate`, the hash of a package's files and the digest of the manifest:
  a package is its artifacts, and `digests` says which of them have one.
* In `AdminGovernance`, the times of rows: the handler takes the latest approving
  review, and the model any of them, which allows more.
* `LEDGER_PAYLOAD_MISSING`, which no row of this code provokes; authentication,
  logging and the shape of responses; the generation of documents.

## 8. Plan

Done: `CaseRecords`, `CaseLifecycle`, `CaseTransition`, `PermitCaseWorkflow`,
`SubmissionPackage`, `StatusEvents`, `ReviewDecisions`, `ReleaseGate`,
`AdminGovernance`, with the abstract `CaseSubmission` and `EventLog`, and the theorems
of section 5.

1. `EvidenceRetention`: the two stores of the evidence routes, and the purge list
   against holds of both scopes.
2. The four data activities in detail, with fixtures that cases share.
3. Abstract specifications of the review decisions (one decision per key, beside
   processes that race) and of a reviewed configuration, implemented by
   `ReviewDecisions` and `AdminGovernance`.
4. A refinement between `PermitCaseWorkflow` and `SubmissionPackage`, which take the
   same two activities whole and apart.

## 9. Running the checks

    tlc -workers 2 -config CaseTransition_race.cfg MCCaseTransition
    tlc -workers 2 -config CaseTransition_guards.cfg MCCaseTransition
    tlc -workers 2 -config Workflow_safety.cfg MCPermitCaseWorkflow
    tlc -workers 2 -config SubmissionPackage_overlap.cfg MCSubmissionPackage
    tlc -workers 2 -config StatusEvents_overlap.cfg MCStatusEvents
    tlc -workers 2 -config ReleaseGate_safety.cfg MCReleaseGate
    tlc -workers 2 -config AdminGovernance_trail.cfg MCAdminGovernance
    tlapm CaseTransitionProofs.tla

and in the same way the other `*Proofs` modules.

`PROJECT.json` maps each definition to the lines it models, and names for each
property a mutated definition under which it fails.
