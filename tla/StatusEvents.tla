---------------------------- MODULE StatusEvents ----------------------------
(***************************************************************************)
(* What an authority reports of a submission, from the API to the record   *)
(* it leaves: ingest_external_status_event stores an event and signals the *)
(* workflow of the case; the run that takes the signal stores a correction *)
(* task, a resubmission package, an approval record or an inspection       *)
(* milestone.                                                              *)
(*                                                                         *)
(* Requests are served by any number of API processes and the activities   *)
(* by the threads of the workers, so all of them interleave between their  *)
(* database transactions.  A request may die, a signal get lost, an        *)
(* activity raise; one that times out and goes on is like the activity of  *)
(* a second signal of the same event.                                      *)
(***************************************************************************)
EXTENDS Naturals

CONSTANTS
    Case,         \* permit cases
    Attempt,      \* submission_attempts ids, and ids that are none
    Event,        \* event ids: the caller's, or new ones
    AttemptCase,  \* the case of an attempt, None if there is no such row
    Ask,          \* the requests callers make
    MaxRequests,  \* bound: requests
    MaxRuns,      \* bound: runs of the workflow of a case
    MaxFailures,  \* bound: dead requests, lost signals and raising activities
    None

\* status is what the status mapping of the case makes of the raw status, None
\* if it has no entry for it.
NormalizedStatus ==
    {"RECEIVED_UNCONFIRMED", "RECEIVED_CONFIRMED", "IN_REVIEW", "COMMENT_ISSUED",
     "RESUBMISSION_REQUESTED", "APPROVAL_REPORTED", "APPROVAL_CONFIRMED",
     "APPROVAL_PENDING_INSPECTION", "APPROVAL_FINAL", "INSPECTION_SCHEDULED",
     "INSPECTION_PASSED", "INSPECTION_FAILED", "REJECTION_REPORTED",
     "WITHDRAWN_REPORTED", "CLOSED_REPORTED", "UNKNOWN_EXTERNAL_STATUS",
     "CONTRADICTORY_EXTERNAL_STATUS"}

EventRow ==
    [event : Event, case : Case, attempt : Attempt, status : NormalizedStatus]

ASSUME AttemptAssumption == AttemptCase \in [Attempt -> Case \cup {None}]
ASSUME AskAssumption ==
    Ask \subseteq [event : Event, case : Case, attempt : Attempt,
                   status : NormalizedStatus \cup {None}]
ASSUME NoneAssumption == None \notin Case \cup NormalizedStatus \cup EventRow \cup Ask
ASSUME BoundAssumption == MaxRequests \in Nat /\ MaxRuns \in Nat /\ MaxFailures \in Nat

Request == 1..MaxRequests

VARIABLES
    events,    \* external_status_events
    records,   \* the four tables of records, by the event in their id
    request,   \* the requests: where each is, what it asks, the row it answers with
    handler,   \* per request: the handler of the signal it sent, and its run
    run,       \* per case: how far the latest run is
    runs,      \* per case: how many runs were started
    failures   \* how much went wrong

tableVars == <<events, records>>
runVars == <<run, runs>>
vars == <<tableVars, request, handler, runVars, failures>>

-----------------------------------------------------------------------------
(***************************************************************************)
(* Rows and states.                                                        *)
(***************************************************************************)
\* Which record a status calls for, None for those the handler ignores.
KindOf(s) ==
    CASE s = "COMMENT_ISSUED" -> "CORRECTION"
      [] s = "RESUBMISSION_REQUESTED" -> "RESUBMISSION"
      [] s \in {"APPROVAL_REPORTED", "APPROVAL_CONFIRMED",
                "APPROVAL_PENDING_INSPECTION", "APPROVAL_FINAL"} -> "APPROVAL"
      [] s \in {"INSPECTION_SCHEDULED", "INSPECTION_PASSED",
                "INSPECTION_FAILED"} -> "INSPECTION"
      [] OTHER -> None

Kind == {"CORRECTION", "RESUBMISSION", "APPROVAL", "INSPECTION"}

Record == [kind : Kind, event : Event, case : Case, attempt : Attempt]

Serving == {"find", "insert", "reload", "signal"}
Working == {"find", "insert", "reload", "answer"}

NoRequest == [step |-> "none"]
NoHandler == [step |-> "none", run |-> 0]

RequestState ==
    {NoRequest}
    \cup [step : Serving \cup {"refused", "answered", "dead"}, ask : Ask,
          answer : EventRow \cup {None}]

HandlerState == [step : Working \cup {"none", "buffered", "done", "lost"}, run : Nat]

\* Both the route and the activity check that the attempt is one of the case.
Acceptable(ask) == AttemptCase[ask.attempt] = ask.case /\ ask.status # None

Stored(id) == {e \in events : e.event = id}

\* Mutant: the signal repeats the request, not the row it was answered with.
SignalOfRequest(r) == request[r].ask

\* What the signal says.
Signal(r) == request[r].answer

RecordOf(r) ==
    [kind |-> KindOf(Signal(r).status), event |-> Signal(r).event,
     case |-> Signal(r).case, attempt |-> Signal(r).attempt]

\* A record's id is made of its kind and its event.
SameId(r) ==
    {rec \in records : rec.kind = RecordOf(r).kind /\ rec.event = RecordOf(r).event}

\* The signal goes to the workflow of the case in the request's path.
CaseOf(r) == request[r].ask.case

-----------------------------------------------------------------------------
(***************************************************************************)
(* The API: ingest_external_status_event and persist_external_status_event.*)
(***************************************************************************)
Post(r) ==
    /\ request[r] = NoRequest
    /\ \A q \in Request : q < r => request[q] # NoRequest
    /\ \E ask \in Ask :
          request' = [request EXCEPT ![r] =
              [step |-> IF Acceptable(ask) THEN "find" ELSE "refused", ask |-> ask,
               answer |-> None]]
    /\ UNCHANGED <<tableVars, handler, runVars, failures>>

GoOn(r, step) == request' = [request EXCEPT ![r].step = step]

Answer(r, row) ==
    request' = [request EXCEPT ![r].step = "signal", ![r].answer = row]

\* An event stored under this id is the answer, whatever the request says.
FindEvent(r) ==
    /\ request[r].step = "find"
    /\ IF Stored(request[r].ask.event) = {} THEN GoOn(r, "insert")
       ELSE \E row \in Stored(request[r].ask.event) : Answer(r, row)
    /\ UNCHANGED <<tableVars, handler, runVars, failures>>

\* Mutant: the id is not a key.
InsertEventAnyway(r) ==
    /\ request[r].step = "insert"
    /\ events' = events \cup {request[r].ask}
    /\ Answer(r, request[r].ask)
    /\ UNCHANGED <<records, handler, runVars, failures>>

\* The id is the key of the table.
InsertEvent(r) ==
    /\ request[r].step = "insert"
    /\ IF Stored(request[r].ask.event) = {}
       THEN events' = events \cup {request[r].ask} /\ Answer(r, request[r].ask)
       ELSE GoOn(r, "reload") /\ UNCHANGED events
    /\ UNCHANGED <<records, handler, runVars, failures>>

\* Mutant: after the IntegrityError the answer is the row that did not get in.
ReloadEventAnswersOwn(r) ==
    /\ request[r].step = "reload"
    /\ Answer(r, request[r].ask)
    /\ UNCHANGED <<tableVars, handler, runVars, failures>>

ReloadEvent(r) ==
    /\ request[r].step = "reload"
    /\ \E row \in Stored(request[r].ask.event) : Answer(r, row)
    /\ UNCHANGED <<tableVars, handler, runVars, failures>>

Open(c) == run[c] \in {"started", "begun", "wedged"}

\* The caller is answered when the signal was sent, and when it was not.  A run
\* that is wedged is open: it takes the signal.
SendSignal(r) ==
    /\ request[r].step = "signal"
    /\ Open(CaseOf(r))
    /\ handler' = [handler EXCEPT ![r] =
          [step |-> "buffered", run |-> runs[CaseOf(r)]]]
    /\ GoOn(r, "answered")
    /\ UNCHANGED <<tableVars, runVars, failures>>

\* No run is open.
MissRun(r) ==
    /\ request[r].step = "signal"
    /\ ~Open(CaseOf(r))
    /\ GoOn(r, "answered")
    /\ UNCHANGED <<tableVars, handler, runVars, failures>>

\* Temporal does not answer in time.
LoseSignal(r) ==
    /\ request[r].step = "signal"
    /\ Open(CaseOf(r))
    /\ failures < MaxFailures
    /\ failures' = failures + 1
    /\ GoOn(r, "answered")
    /\ UNCHANGED <<tableVars, handler, runVars>>

\* The process dies, or the database raises and the caller is told.
FailRequest(r) ==
    /\ request[r].step \in Serving
    /\ failures < MaxFailures
    /\ failures' = failures + 1
    /\ GoOn(r, "dead")
    /\ UNCHANGED <<tableVars, handler, runVars>>

-----------------------------------------------------------------------------
(***************************************************************************)
(* The workflow.                                                           *)
(***************************************************************************)
\* The rest of the system starts runs and ends them; one at a time per case.
StartRun(c) ==
    /\ ~Open(c)
    /\ runs[c] < MaxRuns
    /\ run' = [run EXCEPT ![c] = "started"]
    /\ runs' = [runs EXCEPT ![c] = @ + 1]
    /\ UNCHANGED <<tableVars, request, handler, failures>>

\* Signals that came before the first task are handled before run() is, and
\* the handler asserts the case id run() has not set: the task fails for ever.
FirstTask(c) ==
    /\ run[c] = "started"
    /\ run' = [run EXCEPT ![c] =
          IF \E r \in Request :
                /\ handler[r].step = "buffered"
                /\ CaseOf(r) = c
                /\ handler[r].run = runs[c]
          THEN "wedged" ELSE "begun"]
    /\ UNCHANGED <<tableVars, request, handler, runs, failures>>

\* run() returns without waiting for the handlers.
CloseRun(c) ==
    /\ run[c] = "begun"
    /\ run' = [run EXCEPT ![c] = "closed"]
    /\ UNCHANGED <<tableVars, request, handler, runs, failures>>

\* run() raises: a transition was denied, the signal of a review has no
\* decision_id, or the result lacks what its class requires.  Its workflow task
\* fails at every retry; the run stays open and handles no more signals.
WedgeRun(c) ==
    /\ run[c] = "begun"
    /\ run' = [run EXCEPT ![c] = "wedged"]
    /\ UNCHANGED <<tableVars, request, handler, runs, failures>>

\* The run that took the signal of r is the latest of its case and not closed.
OfOpenRun(r) ==
    /\ handler[r].step # "none"
    /\ Open(CaseOf(r))
    /\ runs[CaseOf(r)] = handler[r].run

\* And it can go on.
OfLiveRun(r) == OfOpenRun(r) /\ run[CaseOf(r)] = "begun"

Step(r, step) == handler' = [handler EXCEPT ![r].step = step]

\* A later workflow task of the run handles the signal: an activity is scheduled
\* for those that call for a record.
HandleSignal(r) ==
    /\ handler[r].step = "buffered"
    /\ OfLiveRun(r)
    /\ Step(r, IF KindOf(Signal(r).status) = None THEN "done" ELSE "find")
    /\ UNCHANGED <<tableVars, request, runVars, failures>>

-----------------------------------------------------------------------------
(***************************************************************************)
(* The activities: persist_correction_task, persist_resubmission_package,  *)
(* persist_approval_record and persist_inspection_milestone differ in      *)
(* their table only.  Of a run that is wedged or closed they may go on.    *)
(***************************************************************************)
FindRecord(r) ==
    /\ handler[r].step = "find"
    /\ Step(r, IF SameId(r) = {} THEN "insert" ELSE "answer")
    /\ UNCHANGED <<tableVars, request, runVars, failures>>

\* Mutant: the record's kind is its status.
InsertRecordOfStatus(r) ==
    /\ handler[r].step = "insert"
    /\ IF SameId(r) = {}
       THEN /\ records' = records \cup {[RecordOf(r) EXCEPT !.kind = Signal(r).status]}
            /\ Step(r, "answer")
       ELSE Step(r, "reload") /\ UNCHANGED records
    /\ UNCHANGED <<events, request, runVars, failures>>

\* An attempt of another case would fail every retry.
InsertRecord(r) ==
    /\ handler[r].step = "insert"
    /\ AttemptCase[RecordOf(r).attempt] = RecordOf(r).case
    /\ IF SameId(r) = {} THEN records' = records \cup {RecordOf(r)} /\ Step(r, "answer")
       ELSE Step(r, "reload") /\ UNCHANGED records
    /\ UNCHANGED <<events, request, runVars, failures>>

ReloadRecord(r) ==
    /\ handler[r].step = "reload"
    /\ SameId(r) # {}
    /\ Step(r, "answer")
    /\ UNCHANGED <<tableVars, request, runVars, failures>>

Return(r) ==
    /\ handler[r].step = "answer"
    /\ Step(r, "done")
    /\ UNCHANGED <<tableVars, request, runVars, failures>>

\* Mutant: the activity has one attempt, as those of the emergency handlers.
RaiseOnce(r) ==
    /\ handler[r].step \in Working
    /\ failures < MaxFailures
    /\ failures' = failures + 1
    /\ Step(r, "lost")
    /\ UNCHANGED <<tableVars, request, runVars>>

\* The activity raises, its commit done or not, and is retried while its run is
\* open, wedged or not.
Raise(r) ==
    /\ handler[r].step \in Working
    /\ failures < MaxFailures
    /\ failures' = failures + 1
    /\ Step(r, IF OfOpenRun(r) THEN "find" ELSE "lost")
    /\ UNCHANGED <<tableVars, request, runVars>>

-----------------------------------------------------------------------------
Serve(r) ==
    \/ FindEvent(r) \/ InsertEvent(r) \/ ReloadEvent(r)
    \/ SendSignal(r) \/ MissRun(r)

Work(r) == FindRecord(r) \/ InsertRecord(r) \/ ReloadRecord(r) \/ Return(r)

Next ==
    \/ \E r \in Request :
          \/ Post(r) \/ Serve(r) \/ LoseSignal(r) \/ FailRequest(r)
          \/ HandleSignal(r) \/ Work(r) \/ Raise(r)
    \/ \E c \in Case : StartRun(c) \/ FirstTask(c) \/ CloseRun(c) \/ WedgeRun(c)

Init ==
    /\ events = {}
    /\ records = {}
    /\ request = [r \in Request |-> NoRequest]
    /\ handler = [r \in Request |-> NoHandler]
    /\ run = [c \in Case |-> "none"]
    /\ runs = [c \in Case |-> 0]
    /\ failures = 0

Spec == Init /\ [][Next]_vars

(***************************************************************************)
(* A request is served unless it dies, and Temporal sees to the workflow   *)
(* tasks of a run that can go on and to the activities of one that is      *)
(* open.  Nobody has to post, to start or to end a run.                    *)
(***************************************************************************)
FairSpec ==
    /\ Spec
    /\ \A r \in Request :
          /\ WF_vars(Serve(r))
          /\ WF_vars(HandleSignal(r))
          /\ WF_vars(OfOpenRun(r) /\ Work(r))
    /\ \A c \in Case : WF_vars(FirstTask(c))

-----------------------------------------------------------------------------
TypeOK ==
    /\ events \subseteq EventRow
    /\ records \subseteq Record
    /\ request \in [Request -> RequestState]
    /\ handler \in [Request -> HandlerState]
    /\ run \in [Case -> {"none", "started", "begun", "wedged", "closed"}]
    /\ runs \in [Case -> Nat]
    /\ failures \in Nat

\* A request is answered with what is stored under its event id: of several
\* that race, or come again with another status, all get the row that got in.
AnswersAreStored ==
    \A r \in Request :
        request[r].step \in {"signal", "answered"} =>
            /\ request[r].answer \in events
            /\ request[r].answer.event = request[r].ask.event

\* An event stays as it was stored, alone under its id.
EventsStand ==
    [][/\ events \subseteq events'
       /\ \A e, f \in events' : e.event = f.event => e = f]_vars

\* Every record is one its event calls for, of that event's attempt and case,
\* which agree; so an event has one record, whatever signals of it were handled
\* by whichever runs.
RecordsMatchEvents ==
    \A rec \in records :
        /\ AttemptCase[rec.attempt] = rec.case
        /\ \E e \in events :
              /\ rec.event = e.event
              /\ rec.case = e.case
              /\ rec.attempt = e.attempt
              /\ rec.kind = KindOf(e.status)

\* What EventLog sees of a request, until and after it is answered.
Asked ==
    [r \in Request |-> IF request[r] = NoRequest THEN None ELSE request[r].ask]
Answered ==
    [r \in Request |-> IF request[r] = NoRequest THEN None ELSE request[r].answer]

Log == INSTANCE EventLog WITH asked <- Asked, answered <- Answered

\* Requests and activities that race, die, are repeated or come too late leave
\* what atomic steps would: one event an id, one answer to all who ask for it,
\* and one record an event, which somebody was answered with.
EventsAreLoggedOnce == Log!Spec

\* A signal a run has taken is handled, unless the run closes or wedges before;
\* and one that is handled leads to its record, unless the run closes before:
\* that it wedges meanwhile does not stop the activity.
TakenSignalsAreRecorded ==
    \A r \in Request :
        /\ (handler[r].step = "buffered" /\ OfLiveRun(r))
               ~> (~OfLiveRun(r) \/ handler[r].step # "buffered")
        /\ (handler[r].step \in Working /\ OfOpenRun(r))
               ~> (\/ ~OfOpenRun(r)
                   \/ handler[r].step = "done" /\ RecordOf(r) \in records)

=============================================================================
