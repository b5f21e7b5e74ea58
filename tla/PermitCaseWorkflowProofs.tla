---------------------- MODULE PermitCaseWorkflowProofs ----------------------
(***************************************************************************)
(* Theorems of PermitCaseWorkflow, for any cases, reviews and emergencies  *)
(* and any number of runs and signals.                                     *)
(***************************************************************************)
EXTENDS PermitCaseWorkflow, CaseRecordsProofs

-----------------------------------------------------------------------------
(***************************************************************************)
(* What run() may have left to do.                                         *)
(***************************************************************************)
\* The requests a step of run() leads to, by name and attempt, itself or
\* through the steps it is replaced by.
Asks(step) ==
    CASE step.op = "move" -> {<<<<step.from, step.to>>, 1>>}
      [] step.op = "gate" -> {<<Approval, 1>>}
      [] step.op = "reviewed_gate" -> {<<Approval, 2>>}
      [] step.op = "recheck" -> {<<<<"INCENTIVES_COMPLETE", "DOCUMENT_COMPLETE">>, 1>>}
      [] step.op = "submit" ->
            {<<<<"DOCUMENT_COMPLETE", "SUBMITTED">>, 1>>,
             <<<<"DOCUMENT_COMPLETE", "MANUAL_SUBMISSION_REQUIRED">>, 1>>}
      [] OTHER -> {}

StartScript == {<<Ensure, Fetch>>, <<Fetch>>}

ReviewScript ==
    {<<Gate, AwaitReview, ReviewedGate>>, <<AwaitReview, ReviewedGate>>, <<ReviewedGate>>}

\* No two steps ask for the same; a run that has not read its case has nothing
\* else to do; the review gate, the wait and the second try follow on each
\* other, and nothing on them; no step leaves a hold or is somebody else's.
WellFormed(s) ==
    /\ s \in Seq(Step)
    /\ \A i, j \in 1 .. Len(s) : i # j => Asks(s[i]) \cap Asks(s[j]) = {}
    /\ \/ s \in StartScript
       \/ \A i \in 1 .. Len(s) : s[i].op \notin {"ensure", "fetch"}
    /\ \/ s \in ReviewScript
       \/ \A i \in 1 .. Len(s) : s[i].op \notin {"gate", "await", "reviewed_gate"}
    /\ \A i \in 1 .. Len(s) :
          s[i].op = "move" =>
              /\ s[i].from # "EMERGENCY_HOLD"
              /\ <<s[i].from, s[i].to>> \notin ExternalEdge

StepDefs ==
    {Package, Recheck, Submit, Ensure, Fetch, Gate, AwaitReview, ReviewedGate}

LEMMA StepTypes ==
    /\ StepDefs \subseteq Step
    /\ \A from, to \in CaseState : Move(from, to) \in Step
    /\ \A field \in PersistStage : PersistStep(field) \in Step
BY DEF StepDefs, Step, Package, Recheck, Submit, Ensure, Fetch, Gate, AwaitReview,
       ReviewedGate, Move, PersistStep

LEMMA HeadAndTail ==
    ASSUME NEW s \in Seq(Step), s # <<>>
    PROVE  /\ Len(s) >= 1 /\ Head(s) = s[1] /\ s[1] \in Step
           /\ Tail(s) \in Seq(Step)
           /\ Len(Tail(s)) = Len(s) - 1
           /\ \A i \in 1 .. Len(Tail(s)) : i + 1 \in 1 .. Len(s) /\ Tail(s)[i] = s[i + 1]
OBVIOUS

LEMMA TailIsWellFormed ==
    ASSUME NEW s, WellFormed(s), s # <<>>
    PROVE  WellFormed(Tail(s))
<1>0. Len(<<>>) = 0 /\ 1 .. 0 = {}
  OBVIOUS
<1>1. s \in Seq(Step)
  BY DEF WellFormed
<1>2. \A i \in 1 .. Len(Tail(s)) : i + 1 \in 1 .. Len(s) /\ Tail(s)[i] = s[i + 1]
  BY <1>1, HeadAndTail
<1>3. s \in StartScript => Tail(s) \in {<<Fetch>>, <<>>}
  <2>1. /\ Tail(<<Ensure, Fetch>>) = <<Fetch>>
        /\ Tail(<<Fetch>>) = <<>>
    OBVIOUS
  <2> QED
    BY <2>1 DEF StartScript
<1>4. s \in ReviewScript => Tail(s) \in {<<AwaitReview, ReviewedGate>>, <<ReviewedGate>>, <<>>}
  <2>1. /\ Tail(<<Gate, AwaitReview, ReviewedGate>>) = <<AwaitReview, ReviewedGate>>
        /\ Tail(<<AwaitReview, ReviewedGate>>) = <<ReviewedGate>>
        /\ Tail(<<ReviewedGate>>) = <<>>
    OBVIOUS
  <2> QED
    BY <2>1 DEF ReviewScript
<1>5. ASSUME NEW i \in 1 .. Len(Tail(s)), NEW j \in 1 .. Len(Tail(s)), i # j
      PROVE  Asks(Tail(s)[i]) \cap Asks(Tail(s)[j]) = {}
  <2>1. i + 1 # j + 1 /\ i + 1 \in 1 .. Len(s) /\ j + 1 \in 1 .. Len(s)
    BY <1>1, <1>2, <1>5, HeadAndTail
  <2>2. Asks(s[i + 1]) \cap Asks(s[j + 1]) = {}
    BY <2>1 DEF WellFormed
  <2> QED
    BY <2>2, <1>2
<1>6. Tail(s) \in Seq(Step)
  BY <1>1, HeadAndTail
<1>7. Tail(s) \in StartScript \/ \A i \in 1 .. Len(Tail(s)) : Tail(s)[i].op \notin {"ensure", "fetch"}
  <2>1. CASE s \in StartScript
    BY <1>3, <2>1, <1>0 DEF StartScript
  <2>2. CASE s \notin StartScript
    BY <1>2, <2>2 DEF WellFormed
  <2> QED
    BY <2>1, <2>2
<1>8. \/ Tail(s) \in ReviewScript
      \/ \A i \in 1 .. Len(Tail(s)) : Tail(s)[i].op \notin {"gate", "await", "reviewed_gate"}
  <2>1. CASE s \in ReviewScript
    BY <1>4, <2>1, <1>0 DEF ReviewScript
  <2>2. CASE s \notin ReviewScript
    BY <1>2, <2>2 DEF WellFormed
  <2> QED
    BY <2>1, <2>2
<1> QED
  BY <1>2, <1>5, <1>6, <1>7, <1>8 DEF WellFormed

LEMMA EmptyIsWellFormed == WellFormed(<<>>)
<1>1. <<>> \in Seq(Step) /\ Len(<<>>) = 0 /\ 1 .. 0 = {}
  OBVIOUS
<1> QED
  BY <1>1 DEF WellFormed

LEMMA SingleIsWellFormed ==
    ASSUME NEW from \in CaseState, NEW to \in CaseState,
           from # "EMERGENCY_HOLD", <<from, to>> \notin ExternalEdge
    PROVE  WellFormed(<<Move(from, to)>>)
<1>1. <<Move(from, to)>> \in Seq(Step)
  BY StepTypes
<1> QED
  BY <1>1 DEF WellFormed, Move

LEMMA StartIsWellFormed == WellFormed(<<Ensure, Fetch>>)
<1>1. <<Ensure, Fetch>> \in Seq(Step)
  BY StepTypes DEF StepDefs
<1> QED
  BY <1>1 DEF WellFormed, StartScript, Ensure, Fetch, Asks

\* What run() may choose when it has read its case: nothing that a submission
\* has to come before.
Chosen(s) ==
    /\ WellFormed(s)
    /\ s \notin StartScript
    /\ \A i \in 1 .. Len(s) : s[i] \notin {OutcomeEdge("SUCCESS"), OutcomeEdge("UNSUPPORTED_WORKFLOW")}

LEMMA PipelineIsChosen ==
    Chosen(<<PersistStep("jurisdiction"),
             Move("INTAKE_COMPLETE", "JURISDICTION_COMPLETE"),
             PersistStep("requirements"),
             Move("JURISDICTION_COMPLETE", "RESEARCH_COMPLETE"),
             PersistStep("evaluated_at"),
             Move("RESEARCH_COMPLETE", "COMPLIANCE_COMPLETE"),
             PersistStep("assessed_at"),
             Move("COMPLIANCE_COMPLETE", "INCENTIVES_COMPLETE")>>)
<1> DEFINE t == <<PersistStep("jurisdiction"),
                  Move("INTAKE_COMPLETE", "JURISDICTION_COMPLETE"),
                  PersistStep("requirements"),
                  Move("JURISDICTION_COMPLETE", "RESEARCH_COMPLETE"),
                  PersistStep("evaluated_at"),
                  Move("RESEARCH_COMPLETE", "COMPLIANCE_COMPLETE"),
                  PersistStep("assessed_at"),
                  Move("COMPLIANCE_COMPLETE", "INCENTIVES_COMPLETE")>>
<1>1. t \in Seq(Step)
  BY StepTypes DEF CaseState, PersistStage
<1>2. \A i \in 1 .. Len(t) : t[i].op \in {"persist", "move"}
  BY DEF Move, PersistStep
<1>3. \A i \in 1 .. Len(t) :
          t[i].op = "move" =>
              /\ t[i].from \notin {"EMERGENCY_HOLD", "DOCUMENT_COMPLETE"}
              /\ <<t[i].from, t[i].to>> \notin ExternalEdge
  BY DEF Move, PersistStep, ExternalEdge
<1>4. \A i, j \in 1 .. Len(t) : i # j => Asks(t[i]) \cap Asks(t[j]) = {}
  BY DEF Move, PersistStep, Asks
<1>5. Len(t) = 8
  OBVIOUS
<1> HIDE DEF t
<1>6. t \notin StartScript
  BY <1>5 DEF StartScript
<1>7. ASSUME NEW i \in 1 .. Len(t), NEW outcome, t[i] = OutcomeEdge(outcome)
      PROVE  FALSE
  <2>1. t[i].op = "move" /\ t[i].from = "DOCUMENT_COMPLETE"
    BY <1>7 DEF OutcomeEdge, Move
  <2> QED
    BY <2>1, <1>3
<1>8. WellFormed(t)
  BY <1>1, <1>2, <1>3, <1>4 DEF WellFormed
<1> QED
  BY <1>6, <1>7, <1>8 DEF Chosen, t

\* The steps chosen from a snapshot, whatever it shows.
LEMMA ScriptForIsChosen ==
    ASSUME NEW state
    PROVE  Chosen(ScriptFor(state))
<1> USE DEF Chosen
<1>1. Chosen(<<Move("INTAKE_PENDING", "INTAKE_COMPLETE")>>)
  <2>1. WellFormed(<<Move("INTAKE_PENDING", "INTAKE_COMPLETE")>>)
    BY SingleIsWellFormed DEF CaseState, ExternalEdge
  <2> QED
    BY <2>1 DEF Move, StartScript, Fetch, OutcomeEdge
<1>2. Chosen(<<PersistStep("assessed_at"), Move("COMPLIANCE_COMPLETE", "INCENTIVES_COMPLETE")>>)
  <2> DEFINE t == <<PersistStep("assessed_at"), Move("COMPLIANCE_COMPLETE", "INCENTIVES_COMPLETE")>>
  <2>1. t \in Seq(Step)
    BY StepTypes DEF CaseState, PersistStage
  <2> QED
    BY <2>1 DEF WellFormed, Move, PersistStep, StartScript, Ensure, OutcomeEdge, Asks, ExternalEdge
<1>3. Chosen(<<Package, Recheck, Submit>>)
  <2>1. <<Package, Recheck, Submit>> \in Seq(Step)
    BY StepTypes DEF StepDefs
  <2> QED
    BY <2>1 DEF WellFormed, Package, Recheck, Submit, StartScript, Move, OutcomeEdge, Asks
<1>4. Chosen(<<Package, Submit>>)
  <2>1. <<Package, Submit>> \in Seq(Step)
    BY StepTypes DEF StepDefs
  <2> QED
    BY <2>1 DEF WellFormed, Package, Submit, StartScript, Ensure, Fetch, Move, OutcomeEdge, Asks
<1>5. Chosen(<<>>)
  BY EmptyIsWellFormed DEF StartScript
<1>6. Chosen(<<Move("COMMENT_REVIEW_PENDING", "CORRECTION_PENDING")>>)
  <2>1. WellFormed(<<Move("COMMENT_REVIEW_PENDING", "CORRECTION_PENDING")>>)
    BY SingleIsWellFormed DEF CaseState, ExternalEdge
  <2> QED
    BY <2>1 DEF Move, StartScript, Fetch, OutcomeEdge
<1>7. Chosen(<<Move("RESUBMISSION_PENDING", "DOCUMENT_COMPLETE"), Package, Submit>>)
  <2> DEFINE t == <<Move("RESUBMISSION_PENDING", "DOCUMENT_COMPLETE"), Package, Submit>>
  <2>1. t \in Seq(Step)
    BY StepTypes DEF CaseState, StepDefs
  <2> QED
    BY <2>1 DEF WellFormed, Move, Package, Submit, StartScript, OutcomeEdge, Asks, ExternalEdge
<1>8. Chosen(<<Gate, AwaitReview, ReviewedGate>>)
  <2>1. <<Gate, AwaitReview, ReviewedGate>> \in Seq(Step)
    BY StepTypes DEF StepDefs
  <2> QED
    BY <2>1 DEF WellFormed, ReviewScript, Gate, AwaitReview, ReviewedGate, Move, StartScript,
       OutcomeEdge, Asks
<1> QED
  BY <1>1, <1>2, <1>3, <1>4, <1>5, <1>6, <1>7, <1>8, PipelineIsChosen
     DEF ScriptFor, UnreturnableState

-----------------------------------------------------------------------------
(***************************************************************************)
(* The inductive invariant of runs and requests.                           *)
(***************************************************************************)
\* A run has a number, and only a run has steps to take or signals to handle.
RunsAreNumbered ==
    /\ \A c \in Case : Running(c) \/ script[c] # <<>> => runs[c] >= 1
    /\ \A c \in Case : workflow[c] = "COMPLETED" => script[c] = <<>>
    /\ \A h \in HandlerSlot :
          handlers[h] # Free => handlers[h].run <= runs[handlers[h].case]

HoldName == {"emergency_hold"} \X {"entry", "exit"}

\* What run() has yet to ask for, the ledger has not; a run that has not read
\* its case has asked for nothing.
StepsAreFresh ==
    \A c \in Case :
        /\ WellFormed(script[c])
        /\ \A i \in 1 .. Len(script[c]) : \A ask \in Asks(script[c][i]) :
              Recorded(RequestId(c, runs[c], ask[1], ask[2])) = {}
        /\ script[c] \in StartScript =>
              \A row \in ledger :
                  row.id[1] = c /\ row.id[2] = runs[c] =>
                      row.id[3] \in ExternalEdge \cup HoldName

\* The attempts of a run's handlers are numbered, and the numbers used up.
HandlersAreFresh ==
    /\ \A row \in ledger :
          /\ row.id[2] <= runs[row.id[1]]
          /\ row.id[2] = runs[row.id[1]] =>
                /\ row.id[3] = <<"emergency_hold", "entry">> =>
                       row.id[4] <= signals[row.id[1]].entry
                /\ row.id[3] = <<"emergency_hold", "exit">> =>
                       row.id[4] <= signals[row.id[1]].exit
    /\ \A h \in HandlerSlot :
          handlers[h].step = "transition" =>
              /\ handlers[h].run = runs[handlers[h].case] =>
                    handlers[h].attempt <=
                        IF handlers[h].kind = "entry" THEN signals[handlers[h].case].entry
                        ELSE signals[handlers[h].case].exit
              /\ Recorded(HandlerId(handlers[h])) = {}
              /\ \A g \in HandlerSlot \ {h} :
                    handlers[g].step = "transition" =>
                        HandlerId(handlers[g]) # HandlerId(handlers[h])

\* What a denial leaves a run with: the wait for its review.
Waits(c) == script[c] \in {<<AwaitReview, ReviewedGate>>, <<ReviewedGate>>}

Reviewed(c) ==
    \E r \in ledger : r.id = RequestId(c, runs[c], Approval, 2) /\ r.verdict = "APPLIED"

FailsClosed ==
    \A c \in Case :
        workflow[c] \in {"RUNNING", "COMPLETED"} =>
            \A row \in ledger :
                /\ row.id[1] = c /\ row.id[2] = runs[c]
                /\ row.id[3][1] # "emergency_hold"
                /\ row.verdict # "APPLIED"
                => /\ row.id[3] = Approval /\ row.id[4] = 1
                   /\ Waits(c) \/ Reviewed(c)

RunsAreSound == RunsAreNumbered /\ StepsAreFresh /\ HandlersAreFresh /\ FailsClosed
Inductive == TypeOK /\ RunsAreSound

-----------------------------------------------------------------------------
(***************************************************************************)
(* Type correctness.                                                       *)
(***************************************************************************)
LEMMA InitType == Init => TypeOK
<1> SUFFICES ASSUME Init PROVE TypeOK
  OBVIOUS
<1>1. RecordsTypeOK
  BY DEF Init, RecordsInit, RecordsTypeOK, Artifacts, NoArtifacts
<1> QED
  BY <1>1, RunAssumption DEF Init, TypeOK, WorkflowStatus, Handler, NoSignals

\* The tables of CaseRecords are read by everybody and written by few.
LEMMA RecordsUnchanged ==
    ASSUME RecordsTypeOK, UNCHANGED recordVars
    PROVE  RecordsTypeOK'
BY DEF RecordsTypeOK, recordVars

\* Reviews, signals, emergencies and what other requests write.
Surroundings ==
    \/ \E c \in Case : CliSignalReview(c)
    \/ \E id \in ReviewId, c \in Case, outcome \in ReviewOutcome :
          CreateReviewDecision(id, c, outcome)
    \/ \E v \in reviews : SendReviewSignal(v) \/ SignalFailed(v)
    \/ \E id \in EmergencyId, duration \in 1 .. MaxNow + 1 :
          DeclareEmergency(id, duration)
    \/ Records

LEMMA SurroundingsType ==
    ASSUME TypeOK, Surroundings
    PROVE  /\ TypeOK'
           /\ UNCHANGED <<workflow, runs, script, handlers, signals, ledger>>
<1> USE DEF TypeOK, workflowVars, tableVars
<1>1. ASSUME NEW c \in Case, CliSignalReview(c)
      PROVE  TypeOK' /\ UNCHANGED <<workflow, runs, script, handlers, signals, ledger>>
  BY <1>1, RecordsUnchanged DEF CliSignalReview
<1>2. ASSUME NEW id \in ReviewId, NEW c \in Case, NEW outcome \in ReviewOutcome,
             CreateReviewDecision(id, c, outcome)
      PROVE  TypeOK' /\ UNCHANGED <<workflow, runs, script, handlers, signals, ledger>>
  <2>1. RecordsTypeOK'
    BY <1>2, RecordsWriteType DEF CreateReviewDecision, RecordsWrite, ReviewingWrite
  <2> QED
    BY <1>2, <2>1 DEF CreateReviewDecision
<1>3. ASSUME NEW v \in reviews, SendReviewSignal(v) \/ SignalFailed(v)
      PROVE  TypeOK' /\ UNCHANGED <<workflow, runs, script, handlers, signals, ledger>>
  <2>1. v.id \in ReviewId /\ v.case \in Case
    BY DEF RecordsTypeOK, Review
  <2>2. review_signal' \in [Case -> ReviewId \cup {None, "LEGACY"}]
    BY <1>3, <2>1 DEF SendReviewSignal, SignalFailed
  <2> QED
    BY <1>3, <2>2, RecordsUnchanged DEF SendReviewSignal, SignalFailed
<1>4. ASSUME NEW id \in EmergencyId, NEW duration \in 1 .. MaxNow + 1,
             DeclareEmergency(id, duration)
      PROVE  TypeOK' /\ UNCHANGED <<workflow, runs, script, handlers, signals, ledger>>
  <2>1. now + duration \in Nat
    BY BoundAssumption DEF RecordsTypeOK
  <2>2. \A e \in emergencies' : e[1] \in EmergencyId /\ e[2] \in Nat
    BY <1>4, <2>1 DEF DeclareEmergency
  <2> QED
    BY <1>4, <2>2, RecordsUnchanged DEF DeclareEmergency
<1>5. CASE Records
  <2>1. RecordsTypeOK'
    BY <1>5, RecordsWriteType DEF Records, RecordsWrite, ReviewingWrite
  <2> QED
    BY <1>5, <2>1 DEF Records
<1> QED
  BY <1>1, <1>2, <1>3, <1>4, <1>5 DEF Surroundings

-----------------------------------------------------------------------------
(***************************************************************************)
(* The steps of run() that ask for no transition.                          *)
(***************************************************************************)
\* A request of run() is for an edge of the graph that is its own.
LEMMA AskNames ==
    ASSUME NEW s, WellFormed(s), NEW i \in 1 .. Len(s), NEW ask \in Asks(s[i])
    PROVE  /\ ask[1] \in Edge \ ExternalEdge
           /\ ask[1] \notin HoldName
           /\ ask[2] \in {1, 2}
           /\ ask = <<ask[1], ask[2]>>
<1>1. s[i] \in Step
  BY DEF WellFormed
<1>2. "emergency_hold" \notin CaseState
  BY DEF CaseState
<1>3. CASE s[i].op = "move"
  <2>1. s[i].from \in CaseState /\ s[i].to \in CaseState
    BY <1>1, <1>3 DEF Step
  <2>2. <<s[i].from, s[i].to>> \notin ExternalEdge
    BY <1>3 DEF WellFormed
  <2>3. ask = <<<<s[i].from, s[i].to>>, 1>>
    BY <1>3 DEF Asks
  <2> QED
    BY <2>1, <2>2, <2>3, <1>2 DEF Edge, HoldName
<1>4. CASE s[i].op # "move"
  BY <1>2, <1>4 DEF Asks, Approval, Edge, HoldName, ExternalEdge, CaseState
<1> QED
  BY <1>3, <1>4

Unasked(c, s) ==
    \A i \in 1 .. Len(s) : \A ask \in Asks(s[i]) :
        Recorded(RequestId(c, runs[c], ask[1], ask[2])) = {}

\* At a step of run(): it and what comes after it are fresh and do not overlap.
LEMMA AtStep ==
    ASSUME StepsAreFresh, NEW c \in Case, script[c] # <<>>
    PROVE  /\ WellFormed(script[c]) /\ WellFormed(Tail(script[c]))
           /\ Head(script[c]) \in Step
           /\ Unasked(c, Tail(script[c]))
           /\ \A ask \in Asks(Head(script[c])) :
                 /\ ask[1] \in Edge \ ExternalEdge
                 /\ ask[1] \notin HoldName
                 /\ ask[2] \in {1, 2}
                 /\ ask = <<ask[1], ask[2]>>
                 /\ Recorded(RequestId(c, runs[c], ask[1], ask[2])) = {}
                 /\ \A i \in 1 .. Len(Tail(script[c])) : ask \notin Asks(Tail(script[c])[i])
<1> DEFINE s == script[c]
<1>1. WellFormed(s) /\ s \in Seq(Step)
  BY DEF StepsAreFresh, WellFormed
<1>2. WellFormed(Tail(s))
  BY <1>1, TailIsWellFormed
<1>3. /\ 1 \in 1 .. Len(s) /\ Head(s) = s[1] /\ s[1] \in Step
      /\ \A i \in 1 .. Len(Tail(s)) :
            i + 1 \in 1 .. Len(s) /\ 1 # i + 1 /\ Tail(s)[i] = s[i + 1]
  BY <1>1, HeadAndTail
<1>4. Unasked(c, Tail(s))
  BY <1>3 DEF Unasked, StepsAreFresh
<1>5. ASSUME NEW ask \in Asks(Head(s))
      PROVE  /\ ask[1] \in Edge \ ExternalEdge
             /\ ask[1] \notin HoldName
             /\ ask[2] \in {1, 2}
             /\ ask = <<ask[1], ask[2]>>
             /\ Recorded(RequestId(c, runs[c], ask[1], ask[2])) = {}
             /\ \A i \in 1 .. Len(Tail(s)) : ask \notin Asks(Tail(s)[i])
  <2>1. ask \in Asks(s[1])
    BY <1>3
  <2>2. \A i \in 1 .. Len(Tail(s)) : Asks(s[1]) \cap Asks(s[i + 1]) = {}
    BY <1>1, <1>3 DEF WellFormed
  <2>3. \A i \in 1 .. Len(Tail(s)) : ask \notin Asks(Tail(s)[i])
    BY <2>1, <2>2, <1>3
  <2>4. /\ ask[1] \in Edge \ ExternalEdge
        /\ ask[1] \notin HoldName
        /\ ask[2] \in {1, 2}
        /\ ask = <<ask[1], ask[2]>>
    BY <2>1, <1>1, <1>3, AskNames
  <2>5. Recorded(RequestId(c, runs[c], ask[1], ask[2])) = {}
    BY <2>1, <1>3 DEF StepsAreFresh
  <2> QED
    BY <2>3, <2>4, <2>5
<1> QED
  BY <1>1, <1>2, <1>3, <1>4, <1>5

\* run() of c goes on to t, with the status w.
Goes(c, t, w) ==
    /\ script' = [script EXCEPT ![c] = t]
    /\ workflow' = [workflow EXCEPT ![c] = w]
    /\ Running(c) \/ script[c] # <<>>
    /\ w = workflow[c] \/ Running(c)
    /\ WellFormed(t) /\ Unasked(c, t)
    /\ t \in StartScript => script[c] \in StartScript
    /\ Waits(c) => t = <<ReviewedGate>> \/ w \notin {"RUNNING", "COMPLETED"}
    /\ w = "COMPLETED" => t = <<>>

LEMMA GoesPreserves ==
    ASSUME Inductive, TypeOK', NEW c \in Case, NEW t, NEW w, Goes(c, t, w),
           UNCHANGED <<runs, handlers, signals, ledger>>
    PROVE  RunsAreSound'
<1> USE DEF Inductive, RunsAreSound
<1>1. /\ script'[c] = t /\ workflow'[c] = w
      /\ \A d \in Case \ {c} : script'[d] = script[d] /\ workflow'[d] = workflow[d]
  BY DEF TypeOK, Goes
<1>2. RunsAreNumbered'
  BY <1>1 DEF RunsAreNumbered, Running, Goes
<1>3. StepsAreFresh'
  BY <1>1 DEF StepsAreFresh, Goes, Unasked, Recorded, RequestId
<1>4. HandlersAreFresh'
  BY DEF HandlersAreFresh, Recorded, HandlerId
<1>5. FailsClosed'
  <2> SUFFICES ASSUME NEW d \in Case, workflow'[d] \in {"RUNNING", "COMPLETED"},
                      NEW row \in ledger, row.id[1] = d, row.id[2] = runs[d],
                      row.id[3][1] # "emergency_hold", row.verdict # "APPLIED"
               PROVE  /\ row.id[3] = Approval /\ row.id[4] = 1
                      /\ Waits(d)' \/ Reviewed(d)'
    BY DEF FailsClosed
  <2>1. Reviewed(d)' = Reviewed(d)
    BY DEF Reviewed, RequestId
  <2>2. workflow[d] \in {"RUNNING", "COMPLETED"}
    BY <1>1 DEF Goes, Running
  <2>3. /\ row.id[3] = Approval /\ row.id[4] = 1
        /\ Waits(d) \/ Reviewed(d)
    BY <2>2 DEF FailsClosed
  <2>4. Waits(d) => Waits(d)'
    <3>1. CASE d # c
      BY <1>1, <3>1 DEF Waits
    <3>2. CASE d = c
      BY <1>1, <3>2 DEF Waits, Goes
    <3> QED
      BY <3>1, <3>2
  <2> QED
    BY <2>1, <2>3, <2>4
<1> QED
  BY <1>2, <1>3, <1>4, <1>5

\* Where run() goes is well typed.
LEMMA GoesType ==
    ASSUME TypeOK, NEW c \in Case, NEW t, NEW w \in WorkflowStatus, Goes(c, t, w)
    PROVE  /\ script' \in [Case -> Seq(Step)]
           /\ workflow' \in [Case -> WorkflowStatus]
BY DEF TypeOK, Goes, WellFormed

LEMMA EmptyIsUnasked == \A c \in Case : Unasked(c, <<>>) /\ <<>> \notin StartScript
<1>1. Len(<<>>) = 0 /\ 1 .. 0 = {}
  OBVIOUS
<1> QED
  BY <1>1 DEF Unasked, StartScript

\* A step that goes on, before the wait for a review.
LEMMA ContinueGoes ==
    ASSUME TypeOK, NEW c \in Case, NEW steps, script[c] # <<>>,
           Head(script[c]).op \notin {"await", "reviewed_gate"},
           WellFormed(steps), Unasked(c, steps),
           steps \in StartScript => script[c] \in StartScript,
           Continue(c, steps), UNCHANGED workflow
    PROVE  Goes(c, IF Running(c) THEN steps ELSE <<>>, workflow[c])
<1>1. ~Waits(c)
  BY DEF Waits, AwaitReview, ReviewedGate
<1>2. workflow' = [workflow EXCEPT ![c] = workflow[c]]
  BY DEF TypeOK
<1>3. CASE Running(c)
  BY <1>1, <1>2, <1>3 DEF Goes, Continue, Running
<1>4. CASE ~Running(c)
  BY <1>1, <1>2, <1>4, EmptyIsWellFormed, EmptyIsUnasked DEF Goes, Continue
<1> QED
  BY <1>3, <1>4

\* What is left of a script begins no run that the script did not.
LEMMA TailStart ==
    ASSUME NEW s, WellFormed(s), s # <<>>, Tail(s) \in StartScript
    PROVE  s \in StartScript
<1>1. s \in Seq(Step)
  BY DEF WellFormed
<1>2. \A i \in 1 .. Len(Tail(s)) : i + 1 \in 1 .. Len(s) /\ Tail(s)[i] = s[i + 1]
  BY <1>1, HeadAndTail
<1>3. \A t \in StartScript : 1 \in 1 .. Len(t) /\ t[1].op \in {"ensure", "fetch"}
  BY DEF StartScript, Ensure, Fetch
<1> QED
  BY <1>2, <1>3 DEF WellFormed

\* run() goes on to the next of its steps.
LEMMA TailGoes ==
    ASSUME Inductive, NEW c \in Case, script[c] # <<>>,
           Head(script[c]).op \notin {"await", "reviewed_gate"},
           Continue(c, Tail(script[c])), UNCHANGED workflow
    PROVE  Goes(c, IF Running(c) THEN Tail(script[c]) ELSE <<>>, workflow[c])
<1>1. WellFormed(script[c]) /\ WellFormed(Tail(script[c])) /\ Unasked(c, Tail(script[c]))
  BY AtStep DEF Inductive, RunsAreSound
<1> QED
  BY <1>1, TailStart, ContinueGoes DEF Inductive

\* The steps that write nothing but the records.
LEMMA QuietStep ==
    ASSUME Inductive, RecordsTypeOK', NEW c \in Case, NEW t,
           Goes(c, t, workflow[c]),
           UNCHANGED <<runs, review_signal, handlers, signals, undelivered, tableVars>>
    PROVE  Inductive'
<1>1. TypeOK'
  <2>1. workflow[c] \in WorkflowStatus
    BY DEF Inductive, TypeOK
  <2> QED
    BY <2>1, GoesType DEF Inductive, TypeOK, tableVars
<1>2. RunsAreSound'
  BY <1>1, GoesPreserves DEF tableVars
<1> QED
  BY <1>1, <1>2 DEF Inductive

LEMMA EnsureCaseStep ==
    ASSUME Inductive, NEW c \in Case, EnsureCase(c)
    PROVE  Inductive'
<1>1. RecordsTypeOK'
  BY DEF EnsureCase, Inductive, TypeOK, RecordsTypeOK, CaseState
<1>2. Goes(c, IF Running(c) THEN Tail(script[c]) ELSE <<>>, workflow[c])
  BY TailGoes DEF EnsureCase, At
<1> QED
  BY <1>1, <1>2, QuietStep DEF EnsureCase

LEMMA PersistRowsStep ==
    ASSUME Inductive, NEW c \in Case, PersistRows(c)
    PROVE  Inductive'
<1>1. RecordsTypeOK'
  <2>1. CASE UNCHANGED artifacts
    BY <2>1 DEF PersistRows, Inductive, TypeOK, RecordsTypeOK
  <2>2. CASE ~UNCHANGED artifacts
    BY <2>2, StageRows, PersistType DEF PersistRows, Inductive, TypeOK
  <2> QED
    BY <2>1, <2>2
<1>2. Goes(c, IF Running(c) THEN Tail(script[c]) ELSE <<>>, workflow[c])
  BY TailGoes DEF PersistRows, At
<1> QED
  BY <1>1, <1>2, QuietStep DEF PersistRows

\* A run that has just read its case has asked for nothing yet.
LEMMA FetchSnapshotStep ==
    ASSUME Inductive, NEW c \in Case, FetchSnapshot(c)
    PROVE  Inductive'
<1> DEFINE steps == ScriptFor(case_state[c])
<1>1. RecordsTypeOK'
  BY RecordsUnchanged DEF FetchSnapshot, Inductive, TypeOK
<1>2. Chosen(steps)
  BY ScriptForIsChosen
<1>3. script[c] \in StartScript
  <2>1. WellFormed(script[c]) /\ script[c] # <<>> /\ Head(script[c]).op = "fetch"
    BY DEF FetchSnapshot, At, Inductive, RunsAreSound, StepsAreFresh
  <2>2. 1 \in 1 .. Len(script[c]) /\ Head(script[c]) = script[c][1]
    BY <2>1, HeadAndTail DEF WellFormed
  <2> QED
    BY <2>1, <2>2 DEF WellFormed
<1>4. Unasked(c, steps)
  <2> SUFFICES ASSUME NEW i \in 1 .. Len(steps), NEW ask \in Asks(steps[i]),
                      NEW row \in Recorded(RequestId(c, runs[c], ask[1], ask[2]))
               PROVE  FALSE
    BY DEF Unasked
  <2>1. ask[1] \in Edge \ ExternalEdge /\ ask[1] \notin HoldName
    BY <1>2, AskNames DEF Chosen
  <2>2. row \in ledger /\ row.id[1] = c /\ row.id[2] = runs[c] /\ row.id[3] = ask[1]
    BY DEF Recorded, RequestId
  <2> QED
    BY <1>3, <2>1, <2>2 DEF Inductive, RunsAreSound, StepsAreFresh
<1>5. CASE case_state[c] \notin UnreturnableState
  <2>1. Goes(c, IF Running(c) THEN steps ELSE <<>>, workflow[c])
    BY <1>2, <1>3, <1>4, <1>5, ContinueGoes DEF FetchSnapshot, At, Inductive, Chosen
  <2> QED
    BY <1>1, <2>1, QuietStep DEF FetchSnapshot
<1>6. CASE case_state[c] \in UnreturnableState
  <2> DEFINE w == IF Running(c) THEN "WEDGED" ELSE workflow[c]
  <2>1. steps = <<>>
    BY <1>6 DEF ScriptFor, UnreturnableState
  <2>2. /\ script' = [script EXCEPT ![c] = <<>>]
        /\ workflow' = [workflow EXCEPT ![c] = w]
        /\ script[c] # <<>> /\ ~Waits(c)
        /\ w \in WorkflowStatus
    BY <1>6, <2>1 DEF FetchSnapshot, Continue, Wedge, At, Waits, AwaitReview, ReviewedGate,
       Inductive, TypeOK, WorkflowStatus
  <2>3. Goes(c, <<>>, w)
    BY <2>2, EmptyIsWellFormed, EmptyIsUnasked DEF Goes
  <2>4. TypeOK'
    BY <1>1, <2>2, <2>3, GoesType DEF FetchSnapshot, Inductive, TypeOK, tableVars
  <2>5. RunsAreSound'
    BY <2>3, <2>4, GoesPreserves DEF FetchSnapshot, tableVars
  <2> QED
    BY <2>4, <2>5 DEF Inductive
<1> QED
  BY <1>5, <1>6

\* Completing leaves no step to take.
LEMMA CompleteStep ==
    ASSUME Inductive, NEW c \in Case, Complete(c)
    PROVE  Inductive'
<1>1. RecordsTypeOK'
  BY RecordsUnchanged DEF Complete, Inductive, TypeOK
<1>2. Goes(c, <<>>, "COMPLETED")
  <2>1. script' = [script EXCEPT ![c] = <<>>]
    BY DEF Complete, Inductive, TypeOK
  <2>2. ~Waits(c)
    BY DEF Waits, Complete
  <2> QED
    BY <2>1, <2>2, EmptyIsWellFormed, EmptyIsUnasked DEF Complete, Goes, Running
<1>3. TypeOK'
  BY <1>1, <1>2, GoesType DEF Complete, Inductive, TypeOK, WorkflowStatus, tableVars
<1>4. RunsAreSound'
  BY <1>2, <1>3, GoesPreserves DEF Complete, tableVars
<1> QED
  BY <1>3, <1>4 DEF Inductive

\* Reading the case again after the package: the transition that was done with
\* it, or is asked for now.
LEMMA RecheckStateStep ==
    ASSUME Inductive, NEW c \in Case, RecheckState(c)
    PROVE  Inductive'
<1> DEFINE step == Move("INCENTIVES_COMPLETE", "DOCUMENT_COMPLETE")
           rest == Tail(script[c])
           steps == IF case_state[c] = "DOCUMENT_COMPLETE" THEN rest
                    ELSE <<step>> \o rest
<1>1. RecordsTypeOK'
  BY RecordsUnchanged DEF RecheckState, Inductive, TypeOK
<1>2. /\ script[c] # <<>> /\ Head(script[c]).op = "recheck"
      /\ Continue(c, steps) /\ UNCHANGED workflow
  BY DEF RecheckState, At
<1>3. CASE case_state[c] = "DOCUMENT_COMPLETE"
  <2>1. Goes(c, IF Running(c) THEN rest ELSE <<>>, workflow[c])
    BY <1>2, <1>3, TailGoes
  <2> QED
    BY <1>1, <2>1, QuietStep DEF RecheckState
<1>4. CASE case_state[c] # "DOCUMENT_COMPLETE"
  <2> DEFINE t == <<step>> \o rest
  <2>1. /\ WellFormed(script[c]) /\ WellFormed(rest) /\ Unasked(c, rest)
        /\ Head(script[c]) \in Step
        /\ \A ask \in Asks(Head(script[c])) :
              /\ Recorded(RequestId(c, runs[c], ask[1], ask[2])) = {}
              /\ \A i \in 1 .. Len(rest) : ask \notin Asks(rest[i])
    BY <1>2, AtStep DEF Inductive, RunsAreSound
  <2>2. Asks(Head(script[c])) = Asks(step)
    BY <1>2 DEF Asks, Move
  <2>3. step \in Step /\ rest \in Seq(Step)
    BY <2>1, StepTypes DEF CaseState, WellFormed
  <2>4. /\ t \in Seq(Step) /\ Len(t) = Len(rest) + 1 /\ t[1] = step
        /\ \A i \in 2 .. Len(t) : i - 1 \in 1 .. Len(rest) /\ t[i] = rest[i - 1]
    BY <2>3
  <2> HIDE DEF t, rest
  <2>5. \A i, j \in 1 .. Len(t) : i # j => Asks(t[i]) \cap Asks(t[j]) = {}
    <3>1. ASSUME NEW j \in 2 .. Len(t) PROVE Asks(t[1]) \cap Asks(t[j]) = {}
      BY <2>1, <2>2, <2>4, <3>1
    <3>2. ASSUME NEW i \in 2 .. Len(t), NEW j \in 2 .. Len(t), i # j
          PROVE  Asks(t[i]) \cap Asks(t[j]) = {}
      <4>1. i - 1 # j - 1
        BY <3>2
      <4> QED
        BY <2>1, <2>4, <4>1 DEF WellFormed
    <3>3. \A i \in 1 .. Len(t) : i = 1 \/ i \in 2 .. Len(t)
      BY <2>3, <2>4
    <3> QED
      BY <3>1, <3>2, <3>3
  <2>6. t \notin StartScript /\ \A i \in 1 .. Len(t) : t[i].op \notin {"ensure", "fetch", "gate", "await", "reviewed_gate"}
    <3>1. \A i \in 1 .. Len(rest) : i + 1 \in 1 .. Len(script[c]) /\ rest[i] = script[c][i + 1]
      BY <1>2, <2>1, HeadAndTail DEF WellFormed, rest
    <3>2. script[c] \notin StartScript \cup ReviewScript
      BY <1>2 DEF StartScript, ReviewScript, Ensure, Fetch, Gate, AwaitReview, ReviewedGate
    <3>3. \A i \in 1 .. Len(rest) : rest[i].op \notin {"ensure", "fetch", "gate", "await", "reviewed_gate"}
      BY <2>1, <3>1, <3>2 DEF WellFormed
    <3>4. \A i \in 1 .. Len(t) : i = 1 \/ i \in 2 .. Len(t)
      BY <2>3, <2>4
    <3>5. \A i \in 1 .. Len(t) : t[i].op \notin {"ensure", "fetch", "gate", "await", "reviewed_gate"}
      BY <2>4, <3>3, <3>4 DEF step, Move
    <3>6. \A u \in StartScript : 1 \in 1 .. Len(u) /\ u[1].op \in {"ensure", "fetch"}
      BY DEF StartScript, Ensure, Fetch
    <3> QED
      BY <3>5, <3>6
  <2>7. \A i \in 1 .. Len(t) :
            t[i].op = "move" =>
                /\ t[i].from # "EMERGENCY_HOLD"
                /\ <<t[i].from, t[i].to>> \notin ExternalEdge
    <3>1. \A i \in 1 .. Len(t) : i = 1 \/ i \in 2 .. Len(t)
      BY <2>3, <2>4
    <3>2. step.from # "EMERGENCY_HOLD" /\ <<step.from, step.to>> \notin ExternalEdge
      BY DEF Move, ExternalEdge
    <3> QED
      BY <2>1, <2>4, <3>1, <3>2 DEF WellFormed
  <2>8. WellFormed(t)
    BY <2>4, <2>5, <2>6, <2>7 DEF WellFormed
  <2>9. Unasked(c, t)
    <3>1. \A i \in 1 .. Len(t) : i = 1 \/ i \in 2 .. Len(t)
      BY <2>3, <2>4
    <3> QED
      BY <2>1, <2>2, <2>4, <3>1 DEF Unasked
  <2>10. Goes(c, IF Running(c) THEN t ELSE <<>>, workflow[c])
    BY <1>2, <1>4, <2>6, <2>8, <2>9, ContinueGoes DEF Inductive, t, rest
  <2> QED
    BY <1>1, <2>10, QuietStep DEF RecheckState
<1> QED
  BY <1>3, <1>4

\* The wait ends: the run goes on to its second try, or raises.
LEMMA TakeReviewStep ==
    ASSUME Inductive, NEW c \in Case, TakeReview(c)
    PROVE  Inductive'
<1> DEFINE w == IF review_signal[c] = "LEGACY" THEN "WEDGED" ELSE workflow[c]
           t == IF review_signal[c] = "LEGACY" THEN <<>> ELSE <<ReviewedGate>>
<1>1. RecordsTypeOK'
  BY RecordsUnchanged DEF TakeReview, Inductive, TypeOK
<1>2. /\ WellFormed(script[c]) /\ script[c] # <<>> /\ Head(script[c]).op = "await"
      /\ Running(c)
  BY DEF TakeReview, At, Inductive, RunsAreSound, StepsAreFresh
<1>3. /\ WellFormed(Tail(script[c])) /\ Unasked(c, Tail(script[c]))
  BY <1>2, AtStep DEF Inductive, RunsAreSound
<1>4. script[c] = <<AwaitReview, ReviewedGate>> /\ Tail(script[c]) = <<ReviewedGate>>
  <2>1. 1 \in 1 .. Len(script[c]) /\ Head(script[c]) = script[c][1]
    BY <1>2, HeadAndTail DEF WellFormed
  <2>2. script[c] \in ReviewScript
    BY <1>2, <2>1 DEF WellFormed
  <2>3. script[c] = <<AwaitReview, ReviewedGate>>
    BY <1>2, <2>2 DEF ReviewScript, Gate, ReviewedGate
  <2> QED
    BY <2>3
<1>5. Goes(c, t, w)
  <2>1. script' = [script EXCEPT ![c] = t] /\ workflow' = [workflow EXCEPT ![c] = w]
    BY <1>2, <1>4 DEF TakeReview, Wedge, Inductive, TypeOK
  <2>2. WellFormed(t) /\ Unasked(c, t)
    BY <1>3, <1>4, EmptyIsWellFormed, EmptyIsUnasked
  <2>3. t \notin StartScript
    BY EmptyIsUnasked DEF StartScript, ReviewedGate, Fetch
  <2> QED
    BY <1>2, <2>1, <2>2, <2>3 DEF Goes, Running
<1>6. TypeOK'
  <2>1. w \in WorkflowStatus
    BY DEF Inductive, TypeOK, WorkflowStatus
  <2>2. /\ script' \in [Case -> Seq(Step)]
        /\ workflow' \in [Case -> WorkflowStatus]
    BY <1>5, <2>1, GoesType DEF Inductive
  <2> QED
    BY <1>1, <2>2 DEF TakeReview, Inductive, TypeOK, tableVars
<1>7. RunsAreSound'
  BY <1>5, <1>6, GoesPreserves DEF TakeReview, tableVars
<1> QED
  BY <1>6, <1>7 DEF Inductive

LEMMA PersistPackageStep ==
    ASSUME Inductive, NEW c \in Case, PersistPackage(c)
    PROVE  Inductive'
<1>1. RecordsTypeOK'
  <2>1. [artifacts[c] EXCEPT !.package = TRUE] \in Artifacts
    <3>1. artifacts[c] \in Artifacts
      BY DEF Inductive, TypeOK, RecordsTypeOK
    <3> QED
      BY <3>1 DEF Artifacts
  <2> QED
    BY <2>1 DEF PersistPackage, Inductive, TypeOK, RecordsTypeOK, CaseState
<1>2. Goes(c, IF Running(c) THEN Tail(script[c]) ELSE <<>>, workflow[c])
  BY TailGoes DEF PersistPackage, At
<1>3. TypeOK'
  <2>1. runs[c] \in Run
    <3>1. runs[c] \in 0 .. MaxRuns /\ runs[c] >= 1
      BY DEF PersistPackage, At, Inductive, TypeOK, RunsAreSound, RunsAreNumbered
    <3> QED
      BY <3>1, RunAssumption DEF Run
  <2>2. packages' \subseteq PackageId /\ current_package' \in [Case -> PackageId \cup {None}]
    BY <2>1 DEF PersistPackage, Inductive, TypeOK, PackageId
  <2>3. workflow[c] \in WorkflowStatus
    BY DEF Inductive, TypeOK
  <2>4. script' \in [Case -> Seq(Step)]
    BY <1>2, <2>3, GoesType DEF Inductive
  <2> QED
    BY <1>1, <2>2, <2>4 DEF PersistPackage, Inductive, TypeOK
<1>4. RunsAreSound'
  BY <1>2, <1>3, GoesPreserves DEF PersistPackage
<1> QED
  BY <1>3, <1>4 DEF Inductive

\* The answer of the portal decides the one transition that is left.
LEMMA SubmitPackageStep ==
    ASSUME Inductive, NEW c \in Case, SubmitPackage(c)
    PROVE  Inductive'
<1>1. PICK outcome \in {"SUCCESS", "UNSUPPORTED_WORKFLOW"} :
          /\ Continue(c, <<OutcomeEdge(outcome)>>)
          /\ \/ UNCHANGED <<attempts, artifacts>>
             \/ /\ attempts' = attempts \cup
                      {[case |-> c, package |-> <<c, runs[c]>>, outcome |-> outcome]}
                /\ artifacts' = IF outcome = "SUCCESS" THEN artifacts
                      ELSE [artifacts EXCEPT ![c].proof_bundle = "PENDING_REVIEW"]
  BY DEF SubmitPackage, Inductive, TypeOK
<1> DEFINE step == OutcomeEdge(outcome)
<1>2. RecordsTypeOK'
  <2>1. [artifacts[c] EXCEPT !.proof_bundle = "PENDING_REVIEW"] \in Artifacts
    <3>1. artifacts[c] \in Artifacts
      BY DEF Inductive, TypeOK, RecordsTypeOK
    <3> QED
      BY <3>1 DEF Artifacts
  <2>2. artifacts' \in [Case -> Artifacts]
    BY <1>1, <2>1 DEF Inductive, TypeOK, RecordsTypeOK
  <2> QED
    BY <2>2 DEF SubmitPackage, Inductive, TypeOK, RecordsTypeOK
<1>3. /\ script[c] # <<>> /\ Head(script[c]).op = "submit" /\ UNCHANGED workflow
      /\ \A ask \in Asks(Head(script[c])) : Recorded(RequestId(c, runs[c], ask[1], ask[2])) = {}
  BY AtStep DEF SubmitPackage, At, Inductive, RunsAreSound
<1>4. Asks(step) \subseteq Asks(Head(script[c]))
  BY <1>3 DEF Asks, OutcomeEdge, Move
<1>5. WellFormed(<<step>>)
  <2>1. WellFormed(<<Move("DOCUMENT_COMPLETE", "SUBMITTED")>>)
    BY SingleIsWellFormed DEF CaseState, ExternalEdge
  <2>2. WellFormed(<<Move("DOCUMENT_COMPLETE", "MANUAL_SUBMISSION_REQUIRED")>>)
    BY SingleIsWellFormed DEF CaseState, ExternalEdge
  <2> QED
    BY <2>1, <2>2 DEF OutcomeEdge
<1>6. Unasked(c, <<step>>)
  BY <1>3, <1>4 DEF Unasked
<1>7. <<step>> \notin StartScript
  BY DEF StartScript, OutcomeEdge, Move, Fetch
<1>8. Goes(c, IF Running(c) THEN <<step>> ELSE <<>>, workflow[c])
  BY <1>1, <1>3, <1>5, <1>6, <1>7, ContinueGoes DEF Inductive
<1>9. TypeOK'
  <2>1. runs[c] \in Run
    <3>1. runs[c] \in 0 .. MaxRuns /\ runs[c] >= 1
      BY <1>3 DEF Inductive, TypeOK, RunsAreSound, RunsAreNumbered
    <3> QED
      BY <3>1, RunAssumption DEF Run
  <2>2. attempts' \subseteq [case : Case, package : PackageId,
                             outcome : {"SUCCESS", "UNSUPPORTED_WORKFLOW"}]
    BY <1>1, <2>1 DEF Inductive, TypeOK, PackageId
  <2>3. workflow[c] \in WorkflowStatus
    BY DEF Inductive, TypeOK
  <2>4. script' \in [Case -> Seq(Step)]
    BY <1>8, <2>3, GoesType DEF Inductive
  <2> QED
    BY <1>2, <2>2, <2>4 DEF SubmitPackage, Inductive, TypeOK
<1>10. RunsAreSound'
  BY <1>8, <1>9, GoesPreserves DEF SubmitPackage
<1> QED
  BY <1>9, <1>10 DEF Inductive

-----------------------------------------------------------------------------
(***************************************************************************)
(* The steps of run() that ask for a transition.                           *)
(***************************************************************************)
\* What a handler holds in each of its steps.
LEMMA HandlerShape ==
    ASSUME TypeOK, NEW h \in HandlerSlot
    PROVE  /\ handlers[h] # Free =>
                 handlers[h].step \in {"validate", "snapshot", "transition"}
           /\ handlers[h].step \in {"validate", "snapshot", "transition"} =>
                 /\ handlers[h].kind \in {"entry", "exit"}
                 /\ handlers[h].case \in Case /\ handlers[h].run \in Run
                 /\ handlers[h].target \in CaseState
                 /\ handlers[h] # Free
                 /\ <<"emergency_hold", handlers[h].kind>> \in HoldName
           /\ handlers[h].step = "snapshot" => handlers[h].kind = "entry"
           /\ handlers[h].step = "transition" =>
                 handlers[h].from \in CaseState /\ handlers[h].attempt \in Nat
<1>1. handlers[h] \in Handler
  BY DEF TypeOK
<1> QED
  BY <1>1 DEF Handler, SignalTaken, Free, HoldName

LEMMA AsksArePairs ==
    ASSUME NEW s, WellFormed(s)
    PROVE  \A i \in 1 .. Len(s) : \A ask \in Asks(s[i]) : ask = <<ask[1], ask[2]>>
BY AskNames

\* run() asks for the transition it is at, gets an answer for it that is new to
\* the ledger, and ends, goes on, or raises.
LEMMA AskPreserves ==
    ASSUME Inductive, TypeOK', NEW c \in Case, NEW t, NEW w, NEW row,
           script[c] # <<>>,
           NEW ask \in Asks(Head(script[c])),
           row.id = RequestId(c, runs[c], ask[1], ask[2]),
           ledger' = ledger \cup {row},
           script' = [script EXCEPT ![c] = t],
           workflow' = [workflow EXCEPT ![c] = w],
           t \in {<<>>, Tail(script[c])},
           w = workflow[c] \/ w \notin {"RUNNING", "COMPLETED"},
           row.verdict # "APPLIED" =>
               \/ w \notin {"RUNNING", "COMPLETED"}
               \/ ask = <<Approval, 1>> /\ t = <<AwaitReview, ReviewedGate>>,
           Waits(c) =>
               \/ w \notin {"RUNNING", "COMPLETED"}
               \/ ask = <<Approval, 2>> /\ row.verdict = "APPLIED",
           UNCHANGED <<runs, handlers, signals>>
    PROVE  RunsAreSound'
<1> USE DEF Inductive, RunsAreSound
<1>1. /\ script'[c] = t /\ workflow'[c] = w
      /\ \A d \in Case \ {c} : script'[d] = script[d] /\ workflow'[d] = workflow[d]
  BY DEF TypeOK
<1>2. /\ row.id[1] = c /\ row.id[2] = runs[c] /\ row.id[3] = ask[1] /\ row.id[4] = ask[2]
  BY DEF RequestId
<1>3. /\ WellFormed(script[c]) /\ WellFormed(Tail(script[c]))
      /\ Unasked(c, Tail(script[c]))
      /\ ask[1] \in Edge \ ExternalEdge /\ ask[1] \notin HoldName
      /\ ask = <<ask[1], ask[2]>>
      /\ \A i \in 1 .. Len(Tail(script[c])) : ask \notin Asks(Tail(script[c])[i])
  BY AtStep
<1>4. WellFormed(t)
  BY <1>3, EmptyIsWellFormed
<1>5. t \notin StartScript
  <2>1. Head(script[c]) \notin {Ensure, Fetch}
    BY DEF Asks, Ensure, Fetch
  <2>2. script[c] \notin StartScript
    BY <2>1 DEF StartScript
  <2> QED
    BY <1>3, <2>2, TailStart, EmptyIsUnasked
<1>6. RunsAreNumbered'
  <2>1. workflow[c] # "COMPLETED" /\ runs[c] >= 1
    BY DEF RunsAreNumbered
  <2>2. \A d \in Case : workflow'[d] = "COMPLETED" => script'[d] = <<>>
    BY <1>1, <2>1 DEF RunsAreNumbered
  <2>3. \A d \in Case : Running(d)' \/ script'[d] # <<>> => runs[d] >= 1
    BY <1>1, <2>1 DEF RunsAreNumbered, Running
  <2> QED
    BY <2>2, <2>3 DEF RunsAreNumbered
<1>7. StepsAreFresh'
  <2>1. ASSUME NEW d \in Case, d # c
        PROVE  /\ WellFormed(script[d])
               /\ \A i \in 1 .. Len(script[d]) : \A a \in Asks(script[d][i]) :
                     Recorded(RequestId(d, runs[d], a[1], a[2]))' = {}
               /\ script[d] \in StartScript =>
                     \A r \in ledger' :
                         r.id[1] = d /\ r.id[2] = runs[d] => r.id[3] \in ExternalEdge \cup HoldName
    BY <1>2, <2>1 DEF StepsAreFresh, Recorded, RequestId
  <2>2. ASSUME NEW i \in 1 .. Len(t), NEW a \in Asks(t[i])
        PROVE  Recorded(RequestId(c, runs[c], a[1], a[2]))' = {}
    <3>1. t = Tail(script[c])
      <4>1. Len(<<>>) = 0 /\ 1 .. 0 = {}
        OBVIOUS
      <4> QED
        BY <4>1
    <3>2. Recorded(RequestId(c, runs[c], a[1], a[2])) = {}
      BY <1>3, <3>1 DEF Unasked
    <3>3. a # ask /\ a = <<a[1], a[2]>>
      <4>1. i \in 1 .. Len(Tail(script[c])) /\ a \in Asks(Tail(script[c])[i])
        BY <3>1
      <4>2. a = <<a[1], a[2]>>
        BY <1>3, <4>1, AsksArePairs
      <4> QED
        BY <1>3, <4>1, <4>2
    <3>4. row.id # RequestId(c, runs[c], a[1], a[2])
      BY <1>2, <1>3, <3>3 DEF RequestId
    <3> QED
      BY <3>2, <3>4 DEF Recorded, RequestId
  <2> QED
    BY <1>1, <1>4, <1>5, <2>1, <2>2 DEF StepsAreFresh, RequestId
<1>8. HandlersAreFresh'
  <2>1. \A r \in ledger' :
            /\ r.id[2] <= runs[r.id[1]]
            /\ r.id[2] = runs[r.id[1]] =>
                  /\ r.id[3] = <<"emergency_hold", "entry">> => r.id[4] <= signals[r.id[1]].entry
                  /\ r.id[3] = <<"emergency_hold", "exit">> => r.id[4] <= signals[r.id[1]].exit
    <3>1. row.id[2] <= runs[row.id[1]]
      BY <1>2, RunAssumption DEF TypeOK
    <3>2. row.id[3] # <<"emergency_hold", "entry">> /\ row.id[3] # <<"emergency_hold", "exit">>
      BY <1>2, <1>3 DEF HoldName
    <3> QED
      BY <3>1, <3>2 DEF HandlersAreFresh
  <2>2. ASSUME NEW h \in HandlerSlot, handlers[h].step = "transition"
        PROVE  Recorded(HandlerId(handlers[h]))' = {}
    <3>1. row.id # HandlerId(handlers[h])
      BY <1>2, <1>3, <2>2, HandlerShape DEF HandlerId, RequestId
    <3>2. Recorded(HandlerId(handlers[h])) = {}
      BY <2>2 DEF HandlersAreFresh
    <3> QED
      BY <3>1, <3>2 DEF Recorded, HandlerId, RequestId
  <2> QED
    BY <2>1, <2>2 DEF HandlersAreFresh, HandlerId, RequestId
<1>9. FailsClosed'
  <2> SUFFICES ASSUME NEW d \in Case, workflow'[d] \in {"RUNNING", "COMPLETED"},
                      NEW r \in ledger', r.id[1] = d, r.id[2] = runs[d],
                      r.id[3][1] # "emergency_hold", r.verdict # "APPLIED"
               PROVE  /\ r.id[3] = Approval /\ r.id[4] = 1
                      /\ Waits(d)' \/ Reviewed(d)'
    BY DEF FailsClosed
  <2>1. Reviewed(d) => Reviewed(d)'
    BY DEF Reviewed, RequestId
  <2>2. CASE d # c
    <3>1. r \in ledger /\ Waits(d)' = Waits(d)
      BY <1>1, <1>2, <2>2 DEF Waits
    <3> QED
      BY <1>1, <2>1, <2>2, <3>1 DEF FailsClosed
  <2>3. CASE d = c /\ r = row
    BY <1>1, <1>2, <2>3 DEF Waits
  <2>4. CASE d = c /\ r \in ledger
    <3>1. /\ r.id[3] = Approval /\ r.id[4] = 1
          /\ Waits(c) \/ Reviewed(c)
      BY <1>1, <2>4 DEF FailsClosed
    <3>2. ask = <<Approval, 2>> /\ row.verdict = "APPLIED" => Reviewed(c)'
      BY <1>2 DEF Reviewed, RequestId
    <3> QED
      BY <1>1, <2>1, <2>4, <3>1, <3>2
  <2> QED
    BY <2>2, <2>3, <2>4
<1> QED
  BY <1>6, <1>7, <1>8, <1>9

\* A transition of a run that has been answered: the record it leaves.
LEMMA RecordsMoved ==
    ASSUME TypeOK, NEW q, q.case \in Case, q.from \in CaseState, q.to \in CaseState,
           NEW id \in Case \X (0 .. MaxRuns) \X TransitionName \X Nat,
           NEW verdict \in Verdict, Recorded(id) = {},
           ApplyStateTransition(id, q, verdict),
           UNCHANGED <<artifacts, reviews, contradictions, overrides, now>>
    PROVE  /\ RecordsTypeOK'
           /\ ledger' = ledger \cup {[id |-> id, case |-> q.case, from |-> q.from,
                                      to |-> q.to, verdict |-> verdict]}
           /\ case_state' = CaseStateAfter(q, verdict)
           /\ \A row \in ledger' :
                 /\ row.id \in Case \X (0 .. MaxRuns) \X TransitionName \X Nat
                 /\ row.case \in Case /\ <<row.from, row.to>> \in Edge
                 /\ row.verdict \in Verdict
<1>1. /\ ledger' = ledger \cup {[id |-> id, case |-> q.case, from |-> q.from,
                                 to |-> q.to, verdict |-> verdict]}
      /\ case_state' = CaseStateAfter(q, verdict)
  BY DEF ApplyStateTransition
<1>2. case_state' \in [Case -> CaseState \cup {"ABSENT"}]
  BY <1>1 DEF CaseStateAfter, TypeOK, RecordsTypeOK
<1>3. RecordsTypeOK'
  BY <1>2 DEF TypeOK, RecordsTypeOK
<1>4. \A row \in ledger' :
          /\ row.id \in Case \X (0 .. MaxRuns) \X TransitionName \X Nat
          /\ row.case \in Case /\ <<row.from, row.to>> \in Edge
          /\ row.verdict \in Verdict
  <2> DEFINE new == [id |-> id, case |-> q.case, from |-> q.from,
                     to |-> q.to, verdict |-> verdict]
  <2>1. /\ new.id \in Case \X (0 .. MaxRuns) \X TransitionName \X Nat
        /\ new.case \in Case /\ <<new.from, new.to>> \in Edge
        /\ new.verdict \in Verdict
    BY DEF Edge
  <2>2. \A row \in ledger :
            /\ row.id \in Case \X (0 .. MaxRuns) \X TransitionName \X Nat
            /\ row.case \in Case /\ <<row.from, row.to>> \in Edge
            /\ row.verdict \in Verdict
    BY DEF TypeOK
  <2>3. ledger' = ledger \cup {new}
    BY <1>1
  <2> HIDE DEF new
  <2> QED
    BY <2>1, <2>2, <2>3
<1> QED
  BY <1>1, <1>3, <1>4

\* The verdict on a request the ledger has not seen is the guard's own.
LEMMA NewVerdicts ==
    ASSUME NEW id, Recorded(id) = {}, NEW q, NEW verdict \in Verdicts(id, q)
    PROVE  /\ verdict \in Verdict
           /\ \E row \in FirstRequirementSet(q.case) : verdict = VerdictOf(q, row)
BY VerdictType DEF Verdicts

\* run() asks for a transition and goes where the answer says.
LEMMA AskStep ==
    ASSUME Inductive, NEW c \in Case, NEW t, NEW w \in WorkflowStatus, NEW q,
           NEW verdict,
           script[c] # <<>>,
           NEW ask \in Asks(Head(script[c])),
           q.case = c, q.from \in CaseState, q.to \in CaseState,
           verdict \in Verdicts(RequestId(c, runs[c], ask[1], ask[2]), q),
           ApplyStateTransition(RequestId(c, runs[c], ask[1], ask[2]), q, verdict),
           TransitionFrame,
           script' = [script EXCEPT ![c] = t],
           workflow' = [workflow EXCEPT ![c] = w],
           t \in {<<>>, Tail(script[c])},
           w = workflow[c] \/ w \notin {"RUNNING", "COMPLETED"},
           verdict # "APPLIED" =>
               \/ w \notin {"RUNNING", "COMPLETED"}
               \/ ask = <<Approval, 1>> /\ t = <<AwaitReview, ReviewedGate>>,
           Waits(c) =>
               \/ w \notin {"RUNNING", "COMPLETED"}
               \/ ask = <<Approval, 2>> /\ verdict = "APPLIED"
    PROVE  Inductive'
<1> DEFINE id == RequestId(c, runs[c], ask[1], ask[2])
           row == [id |-> id, case |-> q.case, from |-> q.from, to |-> q.to,
                   verdict |-> verdict]
<1>1. /\ Recorded(id) = {} /\ WellFormed(script[c]) /\ WellFormed(Tail(script[c]))
      /\ ask[1] \in Edge /\ ask[2] \in {1, 2}
  BY AtStep DEF Inductive, RunsAreSound
<1>2. id \in Case \X (0 .. MaxRuns) \X TransitionName \X Nat
  BY <1>1 DEF RequestId, TransitionName, Inductive, TypeOK
<1>3. verdict \in Verdict
  BY <1>1, NewVerdicts
<1>4. /\ RecordsTypeOK'
      /\ ledger' = ledger \cup {row}
      /\ \A r \in ledger' :
            /\ r.id \in Case \X (0 .. MaxRuns) \X TransitionName \X Nat
            /\ r.case \in Case /\ <<r.from, r.to>> \in Edge
            /\ r.verdict \in Verdict
  BY <1>1, <1>2, <1>3, RecordsMoved DEF Inductive, TransitionFrame
<1>5. TypeOK'
  <2>1. t \in Seq(Step)
    BY <1>1, EmptyIsWellFormed DEF WellFormed
  <2>2. script' \in [Case -> Seq(Step)] /\ workflow' \in [Case -> WorkflowStatus]
    BY <2>1 DEF Inductive, TypeOK
  <2> QED
    BY <1>4, <2>2 DEF TransitionFrame, Inductive, TypeOK
<1>6. RunsAreSound'
  <2>1. row.id = RequestId(c, runs[c], ask[1], ask[2]) /\ row.verdict = verdict
    OBVIOUS
  <2> HIDE DEF row
  <2> QED
    BY <1>4, <1>5, <2>1, AskPreserves DEF TransitionFrame
<1> QED
  BY <1>5, <1>6 DEF Inductive

LEMMA MoveCaseStep ==
    ASSUME Inductive, NEW c \in Case, MoveCase(c)
    PROVE  Inductive'
<1> DEFINE step == Head(script[c])
           q == RequestFor(c, step.from, step.to, None)
           ask == <<<<step.from, step.to>>, 1>>
<1>1. script[c] # <<>> /\ step.op = "move"
  BY DEF MoveCase, At
<1>2. step \in Step
  BY <1>1, AtStep DEF Inductive, RunsAreSound
<1>3. /\ q.case = c /\ q.from = step.from /\ q.to = step.to
      /\ step.from \in CaseState /\ step.to \in CaseState
  BY <1>1, <1>2 DEF RequestFor, Step
<1>4. ask \in Asks(step) /\ StepId(c, q) = RequestId(c, runs[c], ask[1], ask[2])
  BY <1>1, <1>3 DEF Asks, StepId, EdgeOf, At
<1>5. PICK verdict \in Verdicts(StepId(c, q), q) :
          /\ ApplyStateTransition(StepId(c, q), q, verdict)
          /\ workflow' = IF verdict = "APPLIED" THEN workflow ELSE Wedge(c)
          /\ Continue(c, IF verdict = "APPLIED" THEN Tail(script[c]) ELSE <<>>)
  BY DEF MoveCase
<1> DEFINE t == IF Running(c) /\ verdict = "APPLIED" THEN Tail(script[c]) ELSE <<>>
           w == IF Running(c) /\ verdict # "APPLIED" THEN "WEDGED" ELSE workflow[c]
<1>6. /\ script' = [script EXCEPT ![c] = t]
      /\ workflow' = [workflow EXCEPT ![c] = w]
  BY <1>5 DEF Continue, Wedge, Inductive, TypeOK
<1>7. w \in WorkflowStatus
  BY DEF Inductive, TypeOK, WorkflowStatus
<1>8. ~Waits(c) /\ workflow[c] # "COMPLETED"
  BY <1>1 DEF Waits, AwaitReview, ReviewedGate, Inductive, RunsAreSound, RunsAreNumbered
<1>9. verdict # "APPLIED" => w \notin {"RUNNING", "COMPLETED"}
  BY <1>8 DEF Running
<1>10. TransitionFrame
  BY DEF MoveCase
<1>11. /\ t \in {<<>>, Tail(script[c])}
       /\ w = workflow[c] \/ w \notin {"RUNNING", "COMPLETED"}
  OBVIOUS
<1>12. /\ verdict \in Verdicts(RequestId(c, runs[c], ask[1], ask[2]), q)
       /\ ApplyStateTransition(RequestId(c, runs[c], ask[1], ask[2]), q, verdict)
  BY <1>4, <1>5
<1> HIDE DEF q, ask, t, w
<1> QED
  BY <1>1, <1>3, <1>4, <1>6, <1>7, <1>8, <1>9, <1>10, <1>11, <1>12, AskStep

\* The attempt without a review: a denial for want of one is waited on.
LEMMA ReviewGateStep ==
    ASSUME Inductive, NEW c \in Case, ReviewGate(c)
    PROVE  Inductive'
<1> DEFINE q == RequestFor(c, "REVIEW_PENDING", "APPROVED_FOR_SUBMISSION", None)
           ask == <<Approval, 1>>
<1>1. /\ script[c] # <<>> /\ Head(script[c]).op = "gate"
      /\ WellFormed(script[c])
  BY DEF ReviewGate, At, Inductive, RunsAreSound, StepsAreFresh
<1>2. /\ q.case = c /\ q.from = "REVIEW_PENDING" /\ q.to = "APPROVED_FOR_SUBMISSION"
      /\ q.from \in CaseState /\ q.to \in CaseState
  BY DEF RequestFor, CaseState
<1>3. ask \in Asks(Head(script[c])) /\ StepId(c, q) = RequestId(c, runs[c], ask[1], ask[2])
  BY <1>1, <1>2 DEF Asks, StepId, EdgeOf, At, Approval
<1>4. PICK verdict \in Verdicts(StepId(c, q), q) :
          /\ ApplyStateTransition(StepId(c, q), q, verdict)
          /\ workflow' = IF verdict \in {"APPLIED", "REVIEW_DECISION_REQUIRED"}
                         THEN workflow ELSE Wedge(c)
          /\ Continue(c, IF verdict = "REVIEW_DECISION_REQUIRED"
                         THEN Tail(script[c]) ELSE <<>>)
  BY DEF ReviewGate
<1> DEFINE waits == verdict = "REVIEW_DECISION_REQUIRED"
           t == IF Running(c) /\ waits THEN Tail(script[c]) ELSE <<>>
           w == IF Running(c) /\ verdict # "APPLIED" /\ ~waits THEN "WEDGED"
                ELSE workflow[c]
<1>5. /\ script' = [script EXCEPT ![c] = t]
      /\ workflow' = [workflow EXCEPT ![c] = w]
  BY <1>4 DEF Continue, Wedge, Inductive, TypeOK
<1>6. w \in WorkflowStatus
  BY DEF Inductive, TypeOK, WorkflowStatus
<1>7. ~Waits(c) /\ workflow[c] # "COMPLETED"
  BY <1>1 DEF Waits, AwaitReview, ReviewedGate, Inductive, RunsAreSound, RunsAreNumbered
<1>8. Tail(script[c]) = <<AwaitReview, ReviewedGate>>
  <2>1. 1 \in 1 .. Len(script[c]) /\ Head(script[c]) = script[c][1]
    BY <1>1, HeadAndTail DEF WellFormed
  <2>2. script[c] \in ReviewScript
    BY <1>1, <2>1 DEF WellFormed
  <2>3. script[c] = <<Gate, AwaitReview, ReviewedGate>>
    BY <1>1, <2>2 DEF ReviewScript, AwaitReview, ReviewedGate
  <2> QED
    BY <2>3
<1>9. verdict # "APPLIED" =>
          \/ w \notin {"RUNNING", "COMPLETED"}
          \/ ask = <<Approval, 1>> /\ t = <<AwaitReview, ReviewedGate>>
  BY <1>7, <1>8 DEF Running
<1>10. TransitionFrame
  BY DEF ReviewGate
<1>11. /\ t \in {<<>>, Tail(script[c])}
       /\ w = workflow[c] \/ w \notin {"RUNNING", "COMPLETED"}
  OBVIOUS
<1>12. /\ verdict \in Verdicts(RequestId(c, runs[c], ask[1], ask[2]), q)
       /\ ApplyStateTransition(RequestId(c, runs[c], ask[1], ask[2]), q, verdict)
  BY <1>3, <1>4
<1> HIDE DEF q, ask, t, w
<1> QED
  BY <1>1, <1>2, <1>3, <1>5, <1>6, <1>7, <1>9, <1>10, <1>11, <1>12, AskStep

\* The second try, with the review: the last step of a run.
LEMMA ReviewedMoveStep ==
    ASSUME Inductive, NEW c \in Case, ReviewedMove(c)
    PROVE  Inductive'
<1> DEFINE q == RequestFor(c, "REVIEW_PENDING", "APPROVED_FOR_SUBMISSION", review_signal[c])
           ask == <<Approval, 2>>
<1>1. script[c] # <<>> /\ Head(script[c]).op = "reviewed_gate"
  BY DEF ReviewedMove, At
<1>2. /\ q.case = c /\ q.from = "REVIEW_PENDING" /\ q.to = "APPROVED_FOR_SUBMISSION"
      /\ q.from \in CaseState /\ q.to \in CaseState
  BY DEF RequestFor, CaseState
<1>3. ask \in Asks(Head(script[c])) /\ StepId(c, q) = RequestId(c, runs[c], ask[1], ask[2])
  BY <1>1, <1>2 DEF Asks, StepId, EdgeOf, At, Approval
<1>4. PICK verdict \in Verdicts(StepId(c, q), q) :
          /\ ApplyStateTransition(StepId(c, q), q, verdict)
          /\ workflow' = IF verdict = "APPLIED" THEN workflow ELSE Wedge(c)
          /\ Continue(c, <<>>)
  BY DEF ReviewedMove
<1> DEFINE t == <<>>
           w == IF Running(c) /\ verdict # "APPLIED" THEN "WEDGED" ELSE workflow[c]
<1>5. /\ script' = [script EXCEPT ![c] = t]
      /\ workflow' = [workflow EXCEPT ![c] = w]
  BY <1>4 DEF Continue, Wedge, Inductive, TypeOK
<1>6. w \in WorkflowStatus
  BY DEF Inductive, TypeOK, WorkflowStatus
<1>7. workflow[c] # "COMPLETED"
  BY <1>1 DEF Inductive, RunsAreSound, RunsAreNumbered
<1>8. verdict # "APPLIED" => w \notin {"RUNNING", "COMPLETED"}
  BY <1>7 DEF Running
<1>9. TransitionFrame
  BY DEF ReviewedMove
<1>10. /\ t \in {<<>>, Tail(script[c])}
       /\ w = workflow[c] \/ w \notin {"RUNNING", "COMPLETED"}
       /\ ask = <<Approval, 2>>
  OBVIOUS
<1>11. /\ verdict \in Verdicts(RequestId(c, runs[c], ask[1], ask[2]), q)
       /\ ApplyStateTransition(RequestId(c, runs[c], ask[1], ask[2]), q, verdict)
  BY <1>3, <1>4
<1> HIDE DEF q, ask, t, w
<1> QED
  BY <1>1, <1>2, <1>3, <1>5, <1>6, <1>8, <1>9, <1>10, <1>11, AskStep

-----------------------------------------------------------------------------
(***************************************************************************)
(* Starting runs, and the steps of the emergency signals' handlers.        *)
(***************************************************************************)
\* A new run has a number of its own: nothing was asked for under it.
LEMMA StartWorkflowStep ==
    ASSUME Inductive, NEW c \in Case, StartWorkflow(c)
    PROVE  Inductive'
<1> USE DEF Inductive, RunsAreSound
<1>1. /\ workflow' = [workflow EXCEPT ![c] = "RUNNING"]
      /\ script' = [script EXCEPT ![c] = <<Ensure, Fetch>>]
      /\ runs' = [runs EXCEPT ![c] = runs[c] + 1]
      /\ signals' = [signals EXCEPT ![c] = NoSignals]
      /\ UNCHANGED <<handlers, ledger>>
  BY DEF StartWorkflow, tableVars
<1>2. /\ workflow'[c] = "RUNNING" /\ script'[c] = <<Ensure, Fetch>>
      /\ runs'[c] = runs[c] + 1 /\ runs[c] \in Nat
      /\ \A d \in Case \ {c} :
            /\ workflow'[d] = workflow[d] /\ script'[d] = script[d]
            /\ runs'[d] = runs[d] /\ signals'[d] = signals[d]
  BY <1>1, RunAssumption DEF TypeOK
<1>3. TypeOK'
  <2>1. RecordsTypeOK'
    BY RecordsUnchanged DEF StartWorkflow, TypeOK
  <2>2. runs' \in [Case -> 0 .. MaxRuns]
    BY <1>1, RunAssumption DEF StartWorkflow, TypeOK
  <2>3. <<Ensure, Fetch>> \in Seq(Step)
    BY StartIsWellFormed DEF WellFormed
  <2>4. NoSignals \in [taken : Nat, entry : Nat, exit : Nat]
    BY DEF NoSignals
  <2>5. /\ script' \in [Case -> Seq(Step)] /\ workflow' \in [Case -> WorkflowStatus]
        /\ signals' \in [Case -> [taken : Nat, entry : Nat, exit : Nat]]
    BY <1>1, <2>3, <2>4 DEF TypeOK, WorkflowStatus
  <2>6. review_signal' \in [Case -> ReviewId \cup {None, "LEGACY"}]
    BY DEF StartWorkflow, TypeOK
  <2> QED
    BY <1>1, <2>1, <2>2, <2>5, <2>6 DEF StartWorkflow, TypeOK, tableVars
<1>4. \A row \in ledger : row.id[1] = c => row.id[2] # runs'[c]
  <2> SUFFICES ASSUME NEW row \in ledger, row.id[1] = c PROVE row.id[2] # runs'[c]
    OBVIOUS
  <2>1. row.id[2] <= runs[c] /\ row.id[2] \in 0 .. MaxRuns
    BY DEF HandlersAreFresh, TypeOK
  <2> QED
    BY <1>2, <2>1, RunAssumption
<1>5. \A h \in HandlerSlot :
          handlers[h] # Free => handlers[h].case \in Case /\ handlers[h].run \in Nat
                                /\ handlers[h].run <= runs[handlers[h].case]
  <2> SUFFICES ASSUME NEW h \in HandlerSlot, handlers[h] # Free
               PROVE  /\ handlers[h].case \in Case /\ handlers[h].run \in Nat
                      /\ handlers[h].run <= runs[handlers[h].case]
    OBVIOUS
  <2>1. handlers[h].case \in Case /\ handlers[h].run \in Run
    BY HandlerShape
  <2>2. handlers[h].run \in Nat
    BY <2>1, RunAssumption DEF Run
  <2>3. handlers[h].run <= runs[handlers[h].case]
    BY DEF RunsAreNumbered
  <2> QED
    BY <2>1, <2>2, <2>3
<1>6. RunsAreNumbered'
  BY <1>1, <1>2, <1>5 DEF RunsAreNumbered, Running
<1>7. StepsAreFresh'
  <2>1. \A i \in 1 .. Len(<<Ensure, Fetch>>) : Asks(<<Ensure, Fetch>>[i]) = {}
    BY DEF Asks, Ensure, Fetch
  <2>2. ASSUME NEW d \in Case, d # c
        PROVE  /\ WellFormed(script'[d])
               /\ \A i \in 1 .. Len(script'[d]) : \A a \in Asks(script'[d][i]) :
                     Recorded(RequestId(d, runs[d], a[1], a[2]))' = {}
               /\ script'[d] \in StartScript =>
                     \A row \in ledger :
                         row.id[1] = d /\ row.id[2] = runs'[d]
                         => row.id[3] \in ExternalEdge \cup HoldName
    <3>1. script'[d] = script[d] /\ runs'[d] = runs[d] /\ ledger' = ledger
      BY <1>1, <1>2, <2>2
    <3>2. ASSUME NEW i \in 1 .. Len(script[d]), NEW a \in Asks(script[d][i])
          PROVE  Recorded(RequestId(d, runs[d], a[1], a[2]))' = {}
      <4>1. Recorded(RequestId(d, runs[d], a[1], a[2])) = {}
        BY DEF StepsAreFresh
      <4> QED
        BY <3>1, <4>1 DEF Recorded, RequestId
    <3> QED
      BY <3>1, <3>2 DEF StepsAreFresh
  <2>3. /\ WellFormed(script'[c])
        /\ \A i \in 1 .. Len(script'[c]) : Asks(script'[c][i]) = {}
        /\ \A row \in ledger : ~(row.id[1] = c /\ row.id[2] = runs'[c])
    BY <1>2, <1>4, <2>1, StartIsWellFormed
  <2> QED
    BY <1>1, <2>2, <2>3 DEF StepsAreFresh
<1>8. HandlersAreFresh'
  <2>1. \A row \in ledger : row.id[1] \in Case /\ row.id[2] \in Nat
    <3> SUFFICES ASSUME NEW row \in ledger
                 PROVE  row.id[1] \in Case /\ row.id[2] \in Nat
      OBVIOUS
    <3>1. row.id \in Case \X (0 .. MaxRuns) \X TransitionName \X Nat
      BY DEF TypeOK
    <3> QED
      BY <3>1, RunAssumption
  <2>2. ASSUME NEW row \in ledger
        PROVE  /\ row.id[2] <= runs'[row.id[1]]
               /\ row.id[2] = runs'[row.id[1]] =>
                     /\ row.id[3] = <<"emergency_hold", "entry">> =>
                            row.id[4] <= signals'[row.id[1]].entry
                     /\ row.id[3] = <<"emergency_hold", "exit">> =>
                            row.id[4] <= signals'[row.id[1]].exit
    <3>1. CASE row.id[1] = c
      BY <1>2, <1>4, <2>1, <3>1 DEF HandlersAreFresh
    <3>2. CASE row.id[1] # c
      BY <1>2, <2>1, <3>2 DEF HandlersAreFresh
    <3> QED
      BY <3>1, <3>2
  <2>3. ASSUME NEW h \in HandlerSlot, handlers[h].step = "transition",
               handlers[h].run = runs'[handlers[h].case]
        PROVE  handlers[h].attempt <=
                   IF handlers[h].kind = "entry" THEN signals'[handlers[h].case].entry
                   ELSE signals'[handlers[h].case].exit
    <3>1. handlers[h] # Free
      BY <2>3 DEF Free
    <3>2. handlers[h].case # c
      BY <1>2, <1>5, <2>3, <3>1
    <3> QED
      BY <1>2, <1>5, <2>3, <3>1, <3>2 DEF HandlersAreFresh
  <2> QED
    <3>1. ASSUME NEW h \in HandlerSlot, handlers[h].step = "transition"
          PROVE  /\ Recorded(HandlerId(handlers[h]))' = {}
                 /\ \A g \in HandlerSlot \ {h} :
                       handlers[g].step = "transition" =>
                           HandlerId(handlers[g])' # HandlerId(handlers[h])'
      BY <1>1, <3>1 DEF HandlersAreFresh, Recorded, HandlerId, RequestId
    <3> QED
      BY <1>1, <2>2, <2>3, <3>1 DEF HandlersAreFresh
<1>9. FailsClosed'
  <2> SUFFICES ASSUME NEW d \in Case, workflow'[d] \in {"RUNNING", "COMPLETED"},
                      NEW row \in ledger, row.id[1] = d, row.id[2] = runs'[d],
                      row.id[3][1] # "emergency_hold", row.verdict # "APPLIED"
               PROVE  /\ row.id[3] = Approval /\ row.id[4] = 1
                      /\ Waits(d)' \/ Reviewed(d)'
    BY <1>1 DEF FailsClosed
  <2>1. d # c
    BY <1>4
  <2>2. /\ workflow[d] = workflow'[d] /\ runs[d] = runs'[d]
        /\ script[d] = script'[d] /\ ledger = ledger'
    BY <1>1, <1>2, <2>1
  <2>3. /\ row.id[3] = Approval /\ row.id[4] = 1
        /\ Waits(d) \/ Reviewed(d)
    BY <2>2 DEF FailsClosed
  <2> QED
    BY <2>2, <2>3 DEF Waits, Reviewed, RequestId
<1> QED
  BY <1>3, <1>6, <1>7, <1>8, <1>9

\* A handler that has no transition under way, on a run that may have failed.
LEMMA HandlerGoes ==
    ASSUME Inductive, TypeOK', NEW h \in HandlerSlot, NEW m,
           handlers' = [handlers EXCEPT ![h] = m],
           m.step # "transition",
           m # Free => m.run <= runs[m.case],
           \A c \in Case : /\ signals'[c].entry = signals[c].entry
                           /\ signals'[c].exit = signals[c].exit
                           /\ workflow'[c] \in {workflow[c], "FAILED"},
           UNCHANGED <<runs, script, ledger>>
    PROVE  Inductive'
<1> USE DEF Inductive, RunsAreSound
<1>1. handlers'[h] = m /\ \A g \in HandlerSlot \ {h} : handlers'[g] = handlers[g]
  BY DEF TypeOK
<1>2. RunsAreNumbered'
  BY <1>1 DEF RunsAreNumbered, Running
<1>3. StepsAreFresh'
  BY DEF StepsAreFresh, Recorded, RequestId
<1>4. HandlersAreFresh'
  <2>1. \A row \in ledger : row.id[1] \in Case
    BY DEF TypeOK
  <2>2. \A g \in HandlerSlot : handlers[g].step = "transition" => handlers[g].case \in Case
    BY HandlerShape
  <2> QED
    BY <1>1, <2>1, <2>2 DEF HandlersAreFresh, Recorded, HandlerId
<1>5. FailsClosed'
  BY DEF FailsClosed, Waits, Reviewed, RequestId
<1> QED
  BY <1>2, <1>3, <1>4, <1>5

\* Signals are taken by runs under way, and dropped with them.
LEMMA TakeSignalStep ==
    ASSUME Inductive, NEW h \in HandlerSlot, NEW c \in Case,
           EmergencyHoldEntry(h, c) \/ EmergencyHoldExit(h, c)
    PROVE  Inductive'
<1>1. PICK kind \in {"entry", "exit"}, ref \in EmergencyId \cup ReviewId,
           target \in CaseState : TakeSignal(h, c, kind, ref, target)
  <2>1. CASE EmergencyHoldEntry(h, c)
    BY <2>1, TargetAssumption DEF EmergencyHoldEntry
  <2>2. CASE EmergencyHoldExit(h, c)
    BY <2>2, TargetAssumption DEF EmergencyHoldExit
  <2> QED
    BY <2>1, <2>2
<1> DEFINE m == [step |-> "validate", kind |-> kind, case |-> c, run |-> runs[c],
                 ref |-> ref, target |-> target]
<1>2. runs[c] \in Run
  <2>1. runs[c] \in 0 .. MaxRuns /\ runs[c] >= 1
    BY <1>1 DEF TakeSignal, Inductive, TypeOK, RunsAreSound, RunsAreNumbered
  <2> QED
    BY <2>1, RunAssumption DEF Run
<1>3. /\ m \in Handler /\ m.step # "transition"
      /\ m.run <= runs[m.case]
  BY <1>2, RunAssumption DEF Handler, SignalTaken, Run
<1>4. handlers' = [handlers EXCEPT ![h] = m]
  BY <1>1 DEF TakeSignal
<1>5. /\ signals' \in [Case -> [taken : Nat, entry : Nat, exit : Nat]]
      /\ \A d \in Case : /\ signals'[d].entry = signals[d].entry
                         /\ signals'[d].exit = signals[d].exit
  <2> DEFINE taken == [signals[c] EXCEPT !.taken = signals[c].taken + 1]
  <2>1. signals[c] \in [taken : Nat, entry : Nat, exit : Nat]
    BY DEF Inductive, TypeOK
  <2>2. /\ taken \in [taken : Nat, entry : Nat, exit : Nat]
        /\ taken.entry = signals[c].entry /\ taken.exit = signals[c].exit
    BY <2>1
  <2>3. signals' = [signals EXCEPT ![c] = taken]
    BY <1>1 DEF TakeSignal
  <2> HIDE DEF taken
  <2> QED
    BY <2>2, <2>3 DEF Inductive, TypeOK
<1>6. TypeOK'
  <2>1. RecordsTypeOK'
    BY <1>1, RecordsUnchanged DEF TakeSignal, Inductive, TypeOK
  <2>2. handlers' \in [HandlerSlot -> Handler]
    BY <1>3, <1>4 DEF Inductive, TypeOK
  <2> QED
    BY <1>1, <1>5, <2>1, <2>2 DEF TakeSignal, Inductive, TypeOK, tableVars
<1> HIDE DEF m
<1> QED
  BY <1>1, <1>3, <1>4, <1>5, <1>6, HandlerGoes DEF TakeSignal, tableVars

LEMMA RejectSignalStep ==
    ASSUME Inductive, NEW h \in HandlerSlot, RejectSignal(h)
    PROVE  Inductive'
<1>1. /\ Free.step # "transition" /\ Free \in Handler
      /\ handlers' = [handlers EXCEPT ![h] = Free]
  BY DEF Free, Handler, RejectSignal
<1>2. /\ workflow' \in [Case -> WorkflowStatus]
      /\ \A c \in Case : workflow'[c] \in {workflow[c], "FAILED"}
  BY DEF RejectSignal, Inductive, TypeOK, WorkflowStatus
<1>3. TypeOK'
  <2>1. RecordsTypeOK'
    BY RecordsUnchanged DEF RejectSignal, Inductive, TypeOK
  <2>2. handlers' \in [HandlerSlot -> Handler]
    BY <1>1 DEF Inductive, TypeOK
  <2> QED
    BY <1>2, <2>1, <2>2 DEF RejectSignal, Inductive, TypeOK, tableVars
<1> QED
  BY <1>1, <1>2, <1>3, HandlerGoes DEF RejectSignal, tableVars

LEMMA DropHandlerStep ==
    ASSUME Inductive, NEW h \in HandlerSlot, DropHandler(h)
    PROVE  Inductive'
<1>1. /\ Free.step # "transition" /\ Free \in Handler
      /\ handlers' = [handlers EXCEPT ![h] = Free]
  BY DEF Free, Handler, DropHandler
<1>2. TypeOK'
  <2>1. RecordsTypeOK'
    BY RecordsUnchanged DEF DropHandler, Inductive, TypeOK
  <2>2. handlers' \in [HandlerSlot -> Handler]
    BY <1>1 DEF Inductive, TypeOK
  <2> QED
    BY <2>1, <2>2 DEF DropHandler, Inductive, TypeOK, tableVars
<1> QED
  BY <1>1, <1>2, HandlerGoes DEF DropHandler, tableVars

LEMMA AcceptEntryStep ==
    ASSUME Inductive, NEW h \in HandlerSlot, AcceptEntry(h)
    PROVE  Inductive'
<1> DEFINE m == [handlers[h] EXCEPT !.step = "snapshot"]
<1>1. /\ handlers' = [handlers EXCEPT ![h] = m]
      /\ handlers[h].step = "validate" /\ handlers[h].kind = "entry"
      /\ handlers[h] \in Handler
      /\ handlers[h].run = runs[handlers[h].case]
  BY DEF AcceptEntry, Live, Inductive, TypeOK
<1>2. handlers[h] \in [step : {"validate", "snapshot"}, kind : {"entry", "exit"},
                       case : Case, run : Run, ref : EmergencyId \cup ReviewId,
                       target : CaseState]
  BY <1>1 DEF Handler, SignalTaken, Free
<1>3. /\ m \in Handler /\ m.step = "snapshot"
      /\ m.case = handlers[h].case /\ m.run = handlers[h].run
  BY <1>1, <1>2 DEF Handler, SignalTaken
<1> HIDE DEF m
<1>4. TypeOK'
  <2>1. RecordsTypeOK'
    BY RecordsUnchanged DEF AcceptEntry, Inductive, TypeOK
  <2>2. handlers' \in [HandlerSlot -> Handler]
    BY <1>1, <1>3 DEF Inductive, TypeOK
  <2> QED
    BY <2>1, <2>2 DEF AcceptEntry, Inductive, TypeOK, tableVars
<1>5. m.run <= runs[m.case]
  BY <1>1, <1>2, <1>3, RunAssumption DEF Run
<1> QED
  BY <1>1, <1>3, <1>4, <1>5, HandlerGoes DEF AcceptEntry, tableVars

\* The attempt of m is the next of its kind in its run, and is counted.
Numbered(m) ==
    /\ m.attempt = 1 + IF m.kind = "entry" THEN signals[m.case].entry
                       ELSE signals[m.case].exit
    /\ signals'[m.case].entry =
           signals[m.case].entry + IF m.kind = "entry" THEN 1 ELSE 0
    /\ signals'[m.case].exit =
           signals[m.case].exit + IF m.kind = "entry" THEN 0 ELSE 1
    /\ \A c \in Case \ {m.case} : signals'[c] = signals[c]

\* A handler numbers its attempt and comes to its transition.
LEMMA HandlerAsks ==
    ASSUME Inductive, TypeOK', NEW h \in HandlerSlot, NEW m,
           handlers[h] # Free, Live(h),
           m.step = "transition", m.kind = handlers[h].kind,
           m.case = handlers[h].case, m.run = handlers[h].run,
           Numbered(m),
           handlers' = [handlers EXCEPT ![h] = m],
           UNCHANGED <<workflow, runs, script, ledger>>
    PROVE  Inductive'
<1> USE DEF Inductive, RunsAreSound, Numbered
<1>1. handlers'[h] = m /\ \A g \in HandlerSlot \ {h} : handlers'[g] = handlers[g]
  BY DEF TypeOK
<1>2. /\ m.case \in Case /\ m.kind \in {"entry", "exit"}
      /\ m.run = runs[m.case]
      /\ signals[m.case].entry \in Nat /\ signals[m.case].exit \in Nat
  BY HandlerShape DEF Live, Free, TypeOK
<1>3. RunsAreNumbered'
  <2>1. m.run <= runs[m.case]
    BY <1>2, RunAssumption DEF TypeOK
  <2> QED
    BY <1>1, <2>1 DEF RunsAreNumbered, Running
<1>4. StepsAreFresh'
  BY DEF StepsAreFresh, Recorded, RequestId
<1>5. FailsClosed'
  BY DEF FailsClosed, Waits, Reviewed, RequestId
<1>6. \A c \in Case :
          /\ signals[c].entry \in Nat /\ signals'[c].entry \in Nat
          /\ signals[c].exit \in Nat /\ signals'[c].exit \in Nat
          /\ signals[c].entry <= signals'[c].entry
          /\ signals[c].exit <= signals'[c].exit
  <2> SUFFICES ASSUME NEW c \in Case
               PROVE  /\ signals[c].entry \in Nat /\ signals'[c].entry \in Nat
                      /\ signals[c].exit \in Nat /\ signals'[c].exit \in Nat
                      /\ signals[c].entry <= signals'[c].entry
                      /\ signals[c].exit <= signals'[c].exit
    OBVIOUS
  <2>1. signals[c].entry \in Nat /\ signals[c].exit \in Nat
    BY DEF TypeOK
  <2> QED
    BY <1>2, <2>1
<1>7. HandlersAreFresh'
  <2>1. ASSUME NEW row \in ledger
        PROVE  /\ row.id[2] <= runs[row.id[1]]
               /\ row.id[2] = runs[row.id[1]] =>
                     /\ row.id[3] = <<"emergency_hold", "entry">> =>
                            row.id[4] <= signals'[row.id[1]].entry
                     /\ row.id[3] = <<"emergency_hold", "exit">> =>
                            row.id[4] <= signals'[row.id[1]].exit
    <3>1. row.id \in Case \X (0 .. MaxRuns) \X TransitionName \X Nat
      BY DEF TypeOK
    <3>2. row.id[1] \in Case /\ row.id[4] \in Nat
      BY <3>1
    <3> QED
      BY <1>6, <3>2 DEF HandlersAreFresh
  <2>2. ASSUME NEW g \in HandlerSlot \ {h}, handlers[g].step = "transition"
        PROVE  /\ handlers[g].run = runs[handlers[g].case] =>
                     handlers[g].attempt <=
                         IF handlers[g].kind = "entry" THEN signals'[handlers[g].case].entry
                         ELSE signals'[handlers[g].case].exit
               /\ HandlerId(handlers[g]) # HandlerId(m)
    <3>1. /\ handlers[g].case \in Case /\ handlers[g].attempt \in Nat
          /\ handlers[g].kind \in {"entry", "exit"}
      BY <2>2, HandlerShape
    <3>2. handlers[g].run = runs[handlers[g].case] =>
              handlers[g].attempt <=
                  IF handlers[g].kind = "entry" THEN signals[handlers[g].case].entry
                  ELSE signals[handlers[g].case].exit
      BY <2>2 DEF HandlersAreFresh
    <3>3. HandlerId(handlers[g]) # HandlerId(m)
      <4> SUFFICES ASSUME handlers[g].case = m.case, handlers[g].run = m.run,
                          handlers[g].kind = m.kind, handlers[g].attempt = m.attempt
                   PROVE  FALSE
        BY DEF HandlerId, RequestId
      <4> QED
        BY <1>2, <3>2
    <3> QED
      BY <1>6, <3>1, <3>2, <3>3
  <2>3. Recorded(HandlerId(m)) = {}
    <3> SUFFICES ASSUME NEW row \in ledger, row.id = HandlerId(m) PROVE FALSE
      BY DEF Recorded
    <3>1. /\ row.id[1] = m.case /\ row.id[2] = runs[m.case]
          /\ row.id[3] = <<"emergency_hold", m.kind>> /\ row.id[4] = m.attempt
      BY <1>2 DEF HandlerId, RequestId
    <3>2. row.id[4] <= IF m.kind = "entry" THEN signals[m.case].entry
                       ELSE signals[m.case].exit
      BY <1>2, <3>1 DEF HandlersAreFresh
    <3> QED
      BY <1>2, <3>1, <3>2
  <2>4. m.attempt <= IF m.kind = "entry" THEN signals'[m.case].entry
                     ELSE signals'[m.case].exit
    BY <1>2
  <2>5. \A g \in HandlerSlot : handlers[g].step = "transition" =>
            Recorded(HandlerId(handlers[g])) = {}
    BY DEF HandlersAreFresh
  <2>6. \A f, g \in HandlerSlot : f # g /\ handlers[f].step = "transition"
                                        /\ handlers[g].step = "transition" =>
            HandlerId(handlers[g]) # HandlerId(handlers[f])
    BY DEF HandlersAreFresh
  <2>7. ASSUME NEW g \in HandlerSlot, handlers'[g].step = "transition"
        PROVE  /\ handlers'[g].run = runs[handlers'[g].case] =>
                     handlers'[g].attempt <=
                         IF handlers'[g].kind = "entry"
                         THEN signals'[handlers'[g].case].entry
                         ELSE signals'[handlers'[g].case].exit
               /\ Recorded(HandlerId(handlers[g]))' = {}
    BY <1>1, <2>2, <2>3, <2>4, <2>5, <2>7 DEF Recorded, HandlerId, RequestId
  <2>8. ASSUME NEW f \in HandlerSlot, NEW g \in HandlerSlot, f # g,
               handlers'[f].step = "transition", handlers'[g].step = "transition"
        PROVE  HandlerId(handlers[g])' # HandlerId(handlers[f])'
    BY <1>1, <2>2, <2>6, <2>8 DEF HandlerId, RequestId
  <2>9. \A g \in HandlerSlot :
            handlers'[g].step = "transition" =>
                /\ handlers'[g].run = runs'[handlers'[g].case] =>
                      handlers'[g].attempt <=
                          IF handlers'[g].kind = "entry"
                          THEN signals'[handlers'[g].case].entry
                          ELSE signals'[handlers'[g].case].exit
                /\ Recorded(HandlerId(handlers[g]))' = {}
                /\ \A f \in HandlerSlot \ {g} :
                      handlers'[f].step = "transition" =>
                          HandlerId(handlers[f])' # HandlerId(handlers[g])'
    BY <1>1, <2>7, <2>8
  <2> QED
    BY <2>1, <2>9 DEF HandlersAreFresh
<1> QED
  BY <1>3, <1>4, <1>5, <1>7

\* What a handler holds when it comes to its transition is well typed.
LEMMA TransitingType ==
    ASSUME TypeOK, NEW h \in HandlerSlot,
           handlers[h].step \in {"validate", "snapshot"},
           NEW from \in CaseState, NEW attempt \in Nat
    PROVE  Transiting(handlers[h], from, attempt) \in Handler
<1>1. /\ handlers[h].kind \in {"entry", "exit"} /\ handlers[h].case \in Case
      /\ handlers[h].run \in Run /\ handlers[h].target \in CaseState
  BY HandlerShape DEF Free
<1> QED
  BY <1>1 DEF Transiting, Handler

LEMMA SnapshotEntryStep ==
    ASSUME Inductive, NEW h \in HandlerSlot, SnapshotEntry(h)
    PROVE  Inductive'
<1> DEFINE c == handlers[h].case
           counted == [signals[c] EXCEPT !.entry = signals[c].entry + 1]
<1>0. PICK m : m = Transiting(handlers[h], case_state[c], signals[c].entry + 1)
  OBVIOUS
<1>1. /\ handlers[h].step = "snapshot" /\ Live(h) /\ Exists(c)
      /\ handlers' = [handlers EXCEPT ![h] = m]
      /\ signals' = [signals EXCEPT ![c] = counted]
  BY <1>0 DEF SnapshotEntry
<1>2. /\ c \in Case /\ signals[c] \in [taken : Nat, entry : Nat, exit : Nat]
      /\ handlers[h].kind = "entry"
  BY <1>1, HandlerShape DEF Inductive, TypeOK
<1>3. case_state[c] \in CaseState
  BY <1>1, <1>2 DEF Exists, Inductive, TypeOK, RecordsTypeOK
<1>4. m \in Handler
  <2>1. signals[c].entry + 1 \in Nat /\ handlers[h].step \in {"validate", "snapshot"}
    BY <1>1, <1>2
  <2>2. TypeOK
    BY DEF Inductive
  <2> QED
    BY <1>0, <1>3, <2>1, <2>2, TransitingType
<1>5. /\ counted \in [taken : Nat, entry : Nat, exit : Nat]
      /\ counted.entry = signals[c].entry + 1 /\ counted.exit = signals[c].exit
  BY <1>2
<1>6. /\ m.step = "transition" /\ m.kind = handlers[h].kind
      /\ m.case = c /\ m.run = handlers[h].run
      /\ m.attempt = signals[c].entry + 1
  BY <1>0 DEF Transiting
<1> HIDE DEF counted
<1>7. TypeOK'
  <2>1. RecordsTypeOK'
    BY RecordsUnchanged DEF SnapshotEntry, Inductive, TypeOK
  <2>2. handlers' \in [HandlerSlot -> Handler]
    BY <1>1, <1>4 DEF Inductive, TypeOK
  <2>3. signals' \in [Case -> [taken : Nat, entry : Nat, exit : Nat]]
    BY <1>1, <1>5 DEF Inductive, TypeOK
  <2> QED
    BY <2>1, <2>2, <2>3 DEF SnapshotEntry, Inductive, TypeOK, tableVars
<1>8. /\ signals'[c] = counted /\ \A d \in Case \ {c} : signals'[d] = signals[d]
      /\ UNCHANGED <<workflow, runs, script, ledger>>
  BY <1>1, <1>2 DEF SnapshotEntry, tableVars, Inductive, TypeOK
<1>9. Numbered(m)
  BY <1>2, <1>5, <1>6, <1>8 DEF Numbered
<1>10. handlers[h] # Free
  BY <1>1 DEF Free
<1> QED
  BY <1>1, <1>6, <1>7, <1>8, <1>9, <1>10, HandlerAsks

LEMMA AcceptExitStep ==
    ASSUME Inductive, NEW h \in HandlerSlot, AcceptExit(h)
    PROVE  Inductive'
<1> DEFINE c == handlers[h].case
           counted == [signals[c] EXCEPT !.exit = signals[c].exit + 1]
<1>0. PICK m : m = Transiting(handlers[h], "EMERGENCY_HOLD", signals[c].exit + 1)
  OBVIOUS
<1>1. /\ handlers[h].step = "validate" /\ handlers[h].kind = "exit" /\ Live(h)
      /\ handlers' = [handlers EXCEPT ![h] = m]
      /\ signals' = [signals EXCEPT ![c] = counted]
  BY <1>0 DEF AcceptExit
<1>2. c \in Case /\ signals[c] \in [taken : Nat, entry : Nat, exit : Nat]
  BY <1>1, HandlerShape DEF Inductive, TypeOK
<1>3. m \in Handler
  <2>1. signals[c].exit + 1 \in Nat /\ handlers[h].step \in {"validate", "snapshot"}
    BY <1>1, <1>2
  <2>2. TypeOK /\ "EMERGENCY_HOLD" \in CaseState
    BY DEF Inductive, CaseState
  <2> QED
    BY <1>0, <2>1, <2>2, TransitingType
<1>4. /\ counted \in [taken : Nat, entry : Nat, exit : Nat]
      /\ counted.exit = signals[c].exit + 1 /\ counted.entry = signals[c].entry
  BY <1>2
<1>5. /\ m.step = "transition" /\ m.kind = handlers[h].kind
      /\ m.case = c /\ m.run = handlers[h].run
      /\ m.attempt = signals[c].exit + 1
  BY <1>0 DEF Transiting
<1> HIDE DEF counted
<1>6. TypeOK'
  <2>1. RecordsTypeOK'
    BY RecordsUnchanged DEF AcceptExit, Inductive, TypeOK
  <2>2. handlers' \in [HandlerSlot -> Handler]
    BY <1>1, <1>3 DEF Inductive, TypeOK
  <2>3. signals' \in [Case -> [taken : Nat, entry : Nat, exit : Nat]]
    BY <1>1, <1>4 DEF Inductive, TypeOK
  <2> QED
    BY <2>1, <2>2, <2>3 DEF AcceptExit, Inductive, TypeOK, tableVars
<1>7. /\ signals'[c] = counted /\ \A d \in Case \ {c} : signals'[d] = signals[d]
      /\ UNCHANGED <<workflow, runs, script, ledger>>
  BY <1>1, <1>2 DEF AcceptExit, tableVars, Inductive, TypeOK
<1>8. Numbered(m)
  BY <1>1, <1>2, <1>4, <1>5, <1>7 DEF Numbered
<1>9. handlers[h] # Free
  BY <1>1 DEF Free
<1> QED
  BY <1>1, <1>5, <1>6, <1>7, <1>8, <1>9, HandlerAsks

-----------------------------------------------------------------------------
(***************************************************************************)
(* The transitions that are not run()'s.                                   *)
(***************************************************************************)
\* A row under a name that run() does not use disturbs no step of a run.
LEMMA ForeignRow ==
    ASSUME Inductive, NEW row, row.id[3] \in ExternalEdge \cup HoldName,
           ledger' = ledger \cup {row}, UNCHANGED <<runs, script>>
    PROVE  StepsAreFresh'
<1> SUFFICES ASSUME NEW c \in Case
             PROVE  /\ WellFormed(script[c])
                    /\ \A i \in 1 .. Len(script[c]) : \A ask \in Asks(script[c][i]) :
                          Recorded(RequestId(c, runs[c], ask[1], ask[2]))' = {}
                    /\ script[c] \in StartScript =>
                          \A r \in ledger' :
                              r.id[1] = c /\ r.id[2] = runs[c] =>
                                  r.id[3] \in ExternalEdge \cup HoldName
  BY DEF StepsAreFresh, Recorded, RequestId
<1>1. WellFormed(script[c])
  BY DEF Inductive, RunsAreSound, StepsAreFresh
<1>2. ASSUME NEW i \in 1 .. Len(script[c]), NEW ask \in Asks(script[c][i])
      PROVE  Recorded(RequestId(c, runs[c], ask[1], ask[2]))' = {}
  <2>1. ask[1] \notin ExternalEdge \cup HoldName
    BY <1>1, AskNames
  <2>2. row.id # RequestId(c, runs[c], ask[1], ask[2])
    BY <2>1 DEF RequestId
  <2>3. Recorded(RequestId(c, runs[c], ask[1], ask[2])) = {}
    BY DEF Inductive, RunsAreSound, StepsAreFresh
  <2> QED
    BY <2>2, <2>3 DEF Recorded, RequestId
<1>3. ASSUME script[c] \in StartScript, NEW r \in ledger',
             r.id[1] = c, r.id[2] = runs[c]
      PROVE  r.id[3] \in ExternalEdge \cup HoldName
  BY <1>3 DEF Inductive, RunsAreSound, StepsAreFresh
<1> QED
  BY <1>1, <1>2, <1>3

\* The transition of a handler, under the number it was given.
LEMMA EmergencyTransitionStep ==
    ASSUME Inductive, NEW h \in HandlerSlot, EmergencyTransition(h)
    PROVE  Inductive'
<1> DEFINE c == handlers[h].case
           id == HandlerId(handlers[h])
           q == RequestFor(c, handlers[h].from, handlers[h].target, None)
<1>1. PICK verdict \in Verdicts(id, q) :
          /\ ApplyStateTransition(id, q, verdict)
          /\ workflow' = IF verdict # "APPLIED" /\ Live(h) THEN Wedge(c) ELSE workflow
  BY DEF EmergencyTransition
<1>2. /\ handlers[h].step = "transition"
      /\ handlers' = [handlers EXCEPT ![h] = Free]
      /\ UNCHANGED <<runs, script, signals>>
      /\ UNCHANGED <<artifacts, reviews, contradictions, overrides, now>>
  BY DEF EmergencyTransition
<1>3. /\ c \in Case /\ handlers[h].run \in Run /\ handlers[h].attempt \in Nat
      /\ handlers[h].kind \in {"entry", "exit"}
      /\ <<"emergency_hold", handlers[h].kind>> \in HoldName
      /\ handlers[h].from \in CaseState /\ handlers[h].target \in CaseState
      /\ handlers[h] # Free
  BY <1>2, HandlerShape DEF Inductive
<1>4. Recorded(id) = {}
  BY <1>2 DEF Inductive, RunsAreSound, HandlersAreFresh
<1>5. /\ id[1] = c /\ id[2] = handlers[h].run
      /\ id[3] = <<"emergency_hold", handlers[h].kind>> /\ id[4] = handlers[h].attempt
      /\ id \in Case \X (0 .. MaxRuns) \X TransitionName \X Nat
  BY <1>3, RunAssumption DEF HandlerId, RequestId, TransitionName, HoldName, Run
<1>6. q.case = c /\ q.from \in CaseState /\ q.to \in CaseState
  BY <1>3 DEF RequestFor
<1> HIDE DEF id, q
<1>7. /\ RecordsTypeOK'
      /\ ledger' = ledger \cup {[id |-> id, case |-> q.case, from |-> q.from,
                                 to |-> q.to, verdict |-> verdict]}
      /\ \A row \in ledger' :
            /\ row.id \in Case \X (0 .. MaxRuns) \X TransitionName \X Nat
            /\ row.case \in Case /\ <<row.from, row.to>> \in Edge
            /\ row.verdict \in Verdict
  BY <1>1, <1>2, <1>3, <1>4, <1>5, <1>6, NewVerdicts, RecordsMoved DEF Inductive
<1>8. PICK row : row.id = id /\ ledger' = ledger \cup {row}
  BY <1>7
<1>9. /\ workflow' \in [Case -> WorkflowStatus]
      /\ \A d \in Case : workflow'[d] \in {workflow[d], "WEDGED"}
      /\ \A d \in Case : workflow'[d] = "RUNNING" => workflow[d] = "RUNNING"
  BY <1>1, <1>3 DEF Wedge, Inductive, TypeOK, WorkflowStatus
<1>10. TypeOK'
  <2>1. handlers' \in [HandlerSlot -> Handler]
    BY <1>2 DEF Inductive, TypeOK, Handler
  <2> QED
    BY <1>2, <1>7, <1>9, <2>1 DEF EmergencyTransition, Inductive, TypeOK
<1>11. handlers'[h] = Free /\ \A g \in HandlerSlot \ {h} : handlers'[g] = handlers[g]
  BY <1>2 DEF Inductive, TypeOK
<1>12. RunsAreNumbered'
  BY <1>2, <1>9, <1>11 DEF Inductive, RunsAreSound, RunsAreNumbered, Running
<1>13. StepsAreFresh'
  BY <1>2, <1>3, <1>5, <1>8, ForeignRow
<1>14. HandlersAreFresh'
  <2>1. /\ handlers[h].run <= runs[c]
        /\ handlers[h].run = runs[c] =>
              handlers[h].attempt <=
                  IF handlers[h].kind = "entry" THEN signals[c].entry ELSE signals[c].exit
    BY <1>2, <1>3 DEF Inductive, RunsAreSound, RunsAreNumbered, HandlersAreFresh
  <2>2. /\ row.id[2] <= runs[row.id[1]]
        /\ row.id[2] = runs[row.id[1]] =>
              /\ row.id[3] = <<"emergency_hold", "entry">> =>
                     row.id[4] <= signals[row.id[1]].entry
              /\ row.id[3] = <<"emergency_hold", "exit">> =>
                     row.id[4] <= signals[row.id[1]].exit
    BY <1>3, <1>5, <1>8, <2>1
  <2>3. \A r \in ledger' :
            /\ r.id[2] <= runs[r.id[1]]
            /\ r.id[2] = runs[r.id[1]] =>
                  /\ r.id[3] = <<"emergency_hold", "entry">> => r.id[4] <= signals[r.id[1]].entry
                  /\ r.id[3] = <<"emergency_hold", "exit">> => r.id[4] <= signals[r.id[1]].exit
    BY <1>8, <2>2 DEF Inductive, RunsAreSound, HandlersAreFresh
  <2>4. ASSUME NEW g \in HandlerSlot \ {h}, handlers[g].step = "transition"
        PROVE  Recorded(HandlerId(handlers[g]))' = {}
    <3>1. /\ Recorded(HandlerId(handlers[g])) = {}
          /\ HandlerId(handlers[g]) # id
      BY <1>2, <2>4 DEF Inductive, RunsAreSound, HandlersAreFresh, id
    <3> QED
      BY <1>8, <1>11, <3>1 DEF Recorded, HandlerId, RequestId
  <2>5. \A g \in HandlerSlot : handlers'[g].step = "transition" => g # h
    BY <1>11 DEF Free
  <2>6. ASSUME NEW f \in HandlerSlot \ {h}, NEW g \in HandlerSlot \ {h}, f # g,
               handlers[f].step = "transition", handlers[g].step = "transition"
        PROVE  HandlerId(handlers[g])' # HandlerId(handlers[f])'
    <3>1. HandlerId(handlers[g]) # HandlerId(handlers[f])
      BY <2>6 DEF Inductive, RunsAreSound, HandlersAreFresh
    <3> QED
      BY <1>11, <3>1 DEF HandlerId, RequestId
  <2>7. ASSUME NEW g \in HandlerSlot \ {h}, handlers[g].step = "transition"
        PROVE  handlers[g].run = runs[handlers[g].case] =>
                   handlers[g].attempt <=
                       IF handlers[g].kind = "entry" THEN signals[handlers[g].case].entry
                       ELSE signals[handlers[g].case].exit
    BY <2>7 DEF Inductive, RunsAreSound, HandlersAreFresh
  <2> QED
    BY <1>2, <1>11, <2>3, <2>4, <2>5, <2>6, <2>7 DEF HandlersAreFresh
<1>15. FailsClosed'
  <2>1. row.id[3][1] = "emergency_hold"
    BY <1>5, <1>8
  <2> SUFFICES ASSUME NEW d \in Case, workflow'[d] \in {"RUNNING", "COMPLETED"},
                      NEW r \in ledger', r.id[1] = d, r.id[2] = runs[d],
                      r.id[3][1] # "emergency_hold", r.verdict # "APPLIED"
               PROVE  /\ r.id[3] = Approval /\ r.id[4] = 1
                      /\ Waits(d)' \/ Reviewed(d)'
    BY <1>2 DEF FailsClosed
  <2>2. r \in ledger /\ workflow[d] \in {"RUNNING", "COMPLETED"}
    BY <1>8, <1>9, <2>1
  <2>3. /\ r.id[3] = Approval /\ r.id[4] = 1
        /\ Waits(d) \/ Reviewed(d)
    BY <2>2 DEF Inductive, RunsAreSound, FailsClosed
  <2> QED
    BY <1>2, <1>8, <2>3 DEF Waits, Reviewed, RequestId
<1> QED
  BY <1>10, <1>12, <1>13, <1>14, <1>15 DEF Inductive, RunsAreSound

\* The two transitions nobody in the code asks for are unguarded.
LEMMA ExternalIsApplied ==
    ASSUME NEW q, NEW row, EdgeOf(q) \in ExternalEdge, case_state[q.case] = q.from
    PROVE  VerdictOf(q, row) = "APPLIED"
<1>1. /\ q.from \in {"SUBMITTED", "CORRECTION_PENDING"}
      /\ q.to \in {"COMMENT_REVIEW_PENDING", "RESUBMISSION_PENDING"}
      /\ EdgeOf(q) \in UnguardedEdge
  BY DEF EdgeOf, ExternalEdge, UnguardedEdge
<1>2. EdgeVerdict(q, row) = "APPLIED"
  BY <1>1 DEF EdgeVerdict, EdgeOf
<1> QED
  BY <1>1, <1>2 DEF VerdictOf

LEMMA ExternalTransitionStep ==
    ASSUME Inductive, NEW c \in Case, NEW e \in ExternalEdge, ExternalTransition(c, e)
    PROVE  Inductive'
<1> DEFINE q == RequestFor(c, e[1], e[2], None)
           id == RequestId(c, runs[c], e, 1)
<1>1. PICK verdict \in Verdicts(id, q) : ApplyStateTransition(id, q, verdict)
  BY DEF ExternalTransition
<1>2. /\ Recorded(id) = {} /\ case_state[c] = e[1]
      /\ UNCHANGED <<workflow, runs, script, handlers, signals>>
      /\ UNCHANGED <<artifacts, reviews, contradictions, overrides, now>>
  BY DEF ExternalTransition, TransitionFrame
<1>3. /\ q.case = c /\ q.from = e[1] /\ q.to = e[2]
      /\ e[1] \in CaseState /\ e[2] \in CaseState /\ e = <<e[1], e[2]>>
      /\ e \in Edge /\ e \notin HoldName /\ e[1] # "emergency_hold"
  BY DEF RequestFor, ExternalEdge, CaseState, Edge, HoldName
<1>4. /\ id[1] = c /\ id[2] = runs[c] /\ id[3] = e /\ id[4] = 1
      /\ id \in Case \X (0 .. MaxRuns) \X TransitionName \X Nat
  BY <1>3 DEF RequestId, TransitionName, Inductive, TypeOK
<1>5. verdict = "APPLIED"
  <2>1. EdgeOf(q) \in ExternalEdge
    BY <1>3 DEF EdgeOf
  <2> QED
    BY <1>2, <1>3, <2>1, ExternalIsApplied, NewVerdicts
<1> HIDE DEF id, q
<1>6. /\ RecordsTypeOK'
      /\ ledger' = ledger \cup {[id |-> id, case |-> q.case, from |-> q.from,
                                 to |-> q.to, verdict |-> verdict]}
      /\ \A row \in ledger' :
            /\ row.id \in Case \X (0 .. MaxRuns) \X TransitionName \X Nat
            /\ row.case \in Case /\ <<row.from, row.to>> \in Edge
            /\ row.verdict \in Verdict
  BY <1>1, <1>2, <1>3, <1>4, NewVerdicts, RecordsMoved DEF Inductive
<1>7. PICK row : row.id = id /\ row.verdict = "APPLIED" /\ ledger' = ledger \cup {row}
  BY <1>5, <1>6
<1>8. TypeOK'
  BY <1>2, <1>6 DEF ExternalTransition, TransitionFrame, Inductive, TypeOK
<1>9. RunsAreNumbered'
  BY <1>2 DEF Inductive, RunsAreSound, RunsAreNumbered, Running
<1>10. StepsAreFresh'
  BY <1>2, <1>4, <1>7, ForeignRow
<1>11. HandlersAreFresh'
  <2>1. /\ row.id[2] <= runs[row.id[1]]
        /\ row.id[3] # <<"emergency_hold", "entry">>
        /\ row.id[3] # <<"emergency_hold", "exit">>
    BY <1>3, <1>4, <1>7, RunAssumption DEF HoldName, Inductive, TypeOK
  <2>2. \A r \in ledger' :
            /\ r.id[2] <= runs[r.id[1]]
            /\ r.id[2] = runs[r.id[1]] =>
                  /\ r.id[3] = <<"emergency_hold", "entry">> => r.id[4] <= signals[r.id[1]].entry
                  /\ r.id[3] = <<"emergency_hold", "exit">> => r.id[4] <= signals[r.id[1]].exit
    BY <1>7, <2>1 DEF Inductive, RunsAreSound, HandlersAreFresh
  <2>3. ASSUME NEW h \in HandlerSlot, handlers[h].step = "transition"
        PROVE  Recorded(HandlerId(handlers[h]))' = {}
    <3>1. <<"emergency_hold", handlers[h].kind>> \in HoldName
      BY <2>3, HandlerShape DEF Inductive
    <3>2. id # HandlerId(handlers[h])
      BY <1>3, <1>4, <3>1 DEF HandlerId, RequestId
    <3>3. Recorded(HandlerId(handlers[h])) = {}
      BY <2>3 DEF Inductive, RunsAreSound, HandlersAreFresh
    <3> QED
      BY <1>2, <1>7, <3>2, <3>3 DEF Recorded, HandlerId, RequestId
  <2> QED
    BY <1>2, <2>2, <2>3 DEF Inductive, RunsAreSound, HandlersAreFresh, HandlerId, RequestId
<1>12. FailsClosed'
  BY <1>2, <1>7 DEF Inductive, RunsAreSound, FailsClosed, Waits, Reviewed, RequestId
<1> QED
  BY <1>8, <1>9, <1>10, <1>11, <1>12 DEF Inductive, RunsAreSound

\* What leaves the runs, the handlers and the ledger alone keeps them sound.
LEMMA SoundUnchanged ==
    ASSUME RunsAreSound, UNCHANGED <<workflow, runs, script, handlers, signals, ledger>>
    PROVE  RunsAreSound'
<1>1. RunsAreNumbered'
  BY DEF RunsAreSound, RunsAreNumbered, Running
<1>2. StepsAreFresh'
  BY DEF RunsAreSound, StepsAreFresh, Recorded, RequestId
<1>3. HandlersAreFresh'
  BY DEF RunsAreSound, HandlersAreFresh, Recorded, HandlerId, RequestId
<1>4. FailsClosed'
  BY DEF RunsAreSound, FailsClosed, Waits, Reviewed, RequestId
<1> QED
  BY <1>1, <1>2, <1>3, <1>4 DEF RunsAreSound

-----------------------------------------------------------------------------
(***************************************************************************)
(* The theorems.                                                           *)
(***************************************************************************)
LEMMA InitSound == Init => Inductive
<1> SUFFICES ASSUME Init PROVE RunsAreSound
  BY InitType DEF Inductive
<1>1. \A c \in Case : script[c] = <<>> /\ workflow[c] = "NONE"
  BY DEF Init
<1>2. ledger = {} /\ \A h \in HandlerSlot : handlers[h] = Free
  BY DEF Init
<1>3. RunsAreNumbered
  BY <1>1, <1>2 DEF RunsAreNumbered, Running
<1>4. StepsAreFresh
  BY <1>1, <1>2, EmptyIsWellFormed, EmptyIsUnasked DEF StepsAreFresh, Unasked
<1>5. HandlersAreFresh
  BY <1>2 DEF HandlersAreFresh, Free
<1>6. FailsClosed
  BY <1>1 DEF FailsClosed
<1> QED
  BY <1>3, <1>4, <1>5, <1>6 DEF RunsAreSound

LEMMA RunStepKeeps ==
    ASSUME Inductive, NEW c \in Case, RunStep(c)
    PROVE  Inductive'
BY EnsureCaseStep, FetchSnapshotStep, PersistRowsStep, MoveCaseStep, RecheckStateStep,
   ReviewGateStep, TakeReviewStep, ReviewedMoveStep, PersistPackageStep,
   SubmitPackageStep, CompleteStep DEF RunStep

LEMMA HandlerStepKeeps ==
    ASSUME Inductive, NEW h \in HandlerSlot, HandlerStep(h)
    PROVE  Inductive'
BY RejectSignalStep, AcceptEntryStep, SnapshotEntryStep, AcceptExitStep,
   EmergencyTransitionStep, DropHandlerStep DEF HandlerStep

LEMMA NextKeeps ==
    ASSUME Inductive, [Next]_vars
    PROVE  Inductive'
<1>1. ASSUME NEW c \in Case, StartWorkflow(c)
      PROVE  Inductive'
  BY <1>1, StartWorkflowStep
<1>2. ASSUME NEW c \in Case, RunStep(c)
      PROVE  Inductive'
  BY <1>2, RunStepKeeps
<1>3. ASSUME NEW h \in HandlerSlot, HandlerStep(h)
      PROVE  Inductive'
  BY <1>3, HandlerStepKeeps
<1>4. ASSUME NEW h \in HandlerSlot, NEW c \in Case,
             EmergencyHoldEntry(h, c) \/ EmergencyHoldExit(h, c)
      PROVE  Inductive'
  BY <1>4, TakeSignalStep
<1>5. ASSUME NEW c \in Case, NEW e \in ExternalEdge, ExternalTransition(c, e)
      PROVE  Inductive'
  BY <1>5, ExternalTransitionStep
<1>6. CASE Surroundings
  <2>1. /\ TypeOK'
        /\ UNCHANGED <<workflow, runs, script, handlers, signals, ledger>>
    BY <1>6, SurroundingsType DEF Inductive
  <2> QED
    BY <2>1, SoundUnchanged DEF Inductive
<1>7. CASE UNCHANGED vars
  <2>1. TypeOK'
    BY <1>7, RecordsUnchanged DEF Inductive, TypeOK, vars, workflowVars, tableVars
  <2> QED
    BY <1>7, <2>1, SoundUnchanged DEF Inductive, vars, workflowVars, tableVars
<1> QED
  BY <1>1, <1>2, <1>3, <1>4, <1>5, <1>6, <1>7 DEF Next, Surroundings

LEMMA InductiveInvariant == Spec => []Inductive
<1>1. Init => Inductive
  BY InitSound
<1>2. Inductive /\ [Next]_vars => Inductive'
  BY NextKeeps
<1> QED
  BY <1>1, <1>2, PTL DEF Spec

\* Whatever the workflows, their signals' handlers and the API do, in whatever
\* order, the program's variables and tables hold what the code says they hold.
THEOREM TypeCorrect == Spec => []TypeOK
<1>1. Inductive => TypeOK
  BY DEF Inductive
<1> QED
  BY <1>1, InductiveInvariant, PTL

\* No request for a transition carries the id of an earlier one, of whichever
\* run, handler or attempt, so none is answered with a verdict that is not its
\* own (_transition_request_id, workflow.py:69; activities_impl.py:1106).
THEOREM RequestsAreFresh == Spec => []RequestIdsAreFresh
<1>1. Inductive => RequestIdsAreFresh
  <2> SUFFICES ASSUME Inductive PROVE RequestIdsAreFresh
    OBVIOUS
  <2>1. ASSUME NEW c \in Case
        PROVE  /\ At(c, "move") => Recorded(StepId(c, Head(script[c]))) = {}
               /\ At(c, "gate") \/ At(c, "reviewed_gate") =>
                     Recorded(RequestId(c, runs[c], Approval,
                                        IF At(c, "gate") THEN 1 ELSE 2)) = {}
    <3>1. script[c] # <<>> =>
              \A ask \in Asks(Head(script[c])) :
                  Recorded(RequestId(c, runs[c], ask[1], ask[2])) = {}
      BY AtStep DEF Inductive, RunsAreSound
    <3>2. ASSUME At(c, "move") PROVE Recorded(StepId(c, Head(script[c]))) = {}
      <4>1. <<EdgeOf(Head(script[c])), 1>> \in Asks(Head(script[c]))
        BY <3>2 DEF At, Asks, EdgeOf
      <4>2. StepId(c, Head(script[c])) = RequestId(c, runs[c], EdgeOf(Head(script[c])), 1)
        BY <3>2 DEF StepId, At
      <4> QED
        BY <3>1, <3>2, <4>1, <4>2 DEF At
    <3>3. ASSUME At(c, "gate") PROVE Recorded(RequestId(c, runs[c], Approval, 1)) = {}
      <4>1. <<Approval, 1>> \in Asks(Head(script[c]))
        BY <3>3 DEF At, Asks
      <4> QED
        BY <3>1, <3>3, <4>1 DEF At
    <3>4. ASSUME At(c, "reviewed_gate")
          PROVE  Recorded(RequestId(c, runs[c], Approval, 2)) = {}
      <4>1. <<Approval, 2>> \in Asks(Head(script[c]))
        BY <3>4 DEF At, Asks
      <4> QED
        BY <3>1, <3>4, <4>1 DEF At
    <3>5. ~(At(c, "gate") /\ At(c, "reviewed_gate"))
      BY DEF At
    <3> QED
      BY <3>2, <3>3, <3>4, <3>5
  <2>2. ASSUME NEW h \in HandlerSlot, handlers[h].step = "transition"
        PROVE  /\ Recorded(HandlerId(handlers[h])) = {}
               /\ \A g \in HandlerSlot \ {h} :
                     handlers[g].step = "transition" =>
                         HandlerId(handlers[g]) # HandlerId(handlers[h])
    BY <2>2 DEF Inductive, RunsAreSound, HandlersAreFresh
  <2> QED
    BY <2>1, <2>2 DEF RequestIdsAreFresh
<1> QED
  BY <1>1, InductiveInvariant, PTL

\* run() fails closed: a run that has returned was denied nothing it asked for
\* but the approval it then got with a review.
THEOREM RunsFailClosed == Spec => []CompletedRunsAdvanced
<1>1. Inductive => CompletedRunsAdvanced
  <2> SUFFICES ASSUME Inductive, NEW c \in Case, workflow[c] = "COMPLETED",
                      NEW row \in ledger, row.id[1] = c, row.id[2] = runs[c],
                      row.id[3][1] # "emergency_hold", row.verdict # "APPLIED"
               PROVE  /\ row.id[3] = Approval /\ row.id[4] = 1
                      /\ Reviewed(c)
    BY DEF CompletedRunsAdvanced, Reviewed
  <2>1. ~Waits(c)
    <3>1. script[c] = <<>>
      BY DEF Inductive, RunsAreSound, RunsAreNumbered
    <3> QED
      BY <3>1 DEF Waits
  <2>2. FailsClosed /\ workflow[c] \in {"RUNNING", "COMPLETED"}
    BY DEF Inductive, RunsAreSound
  <2>3. /\ row.id[3] = Approval /\ row.id[4] = 1
        /\ Waits(c) \/ Reviewed(c)
    BY <2>2 DEF FailsClosed
  <2> QED
    BY <2>1, <2>3
<1> QED
  BY <1>1, InductiveInvariant, PTL

-----------------------------------------------------------------------------
(***************************************************************************)
(* The stages of a case.                                                   *)
(***************************************************************************)
SentOf(c) == \E a \in attempts : a.case = c /\ a.outcome = "SUCCESS"

SubmittedOf(c) == SentOf(c) \/ SubmittedByEntry(c)

FallbackOf(c) == \E a \in attempts : a.case = c /\ a.outcome # "SUCCESS"

\* A handler that is about to move its case was sent on an emergency, or takes
\* the case off its hold on a review.
HandlersHold ==
    \A h \in HandlerSlot :
        /\ handlers[h].step \in {"snapshot", "transition"} /\ handlers[h].kind = "entry" =>
               emergencies # {}
        /\ handlers[h].step = "transition" /\ handlers[h].kind = "exit" =>
               handlers[h].from = "EMERGENCY_HOLD" /\ reviews # {}

\* run() asks to submit a case only for an attempt that succeeded.
ScriptsAreAttempted ==
    \A c \in Case : \A i \in 1 .. Len(script[c]) :
        script[c][i] = OutcomeEdge("SUCCESS") => SentOf(c)

\* The stages a case comes to from each stage on, corrections included.
Documented ==
    {"DOCUMENT_COMPLETE", "SUBMITTED", "MANUAL_SUBMISSION_REQUIRED",
     "COMMENT_REVIEW_PENDING", "CORRECTION_PENDING", "RESUBMISSION_PENDING"}
Assessed == Documented \cup {"INCENTIVES_COMPLETE"}
Evaluated == Assessed \cup {"COMPLIANCE_COMPLETE"}
Researched == Evaluated \cup {"RESEARCH_COMPLETE"}
Located == Researched \cup {"JURISDICTION_COMPLETE"}
TakenIn == Located \cup {"INTAKE_COMPLETE"}

RowsBack(s, a) ==
    /\ s \in TakenIn => a.project
    /\ s \in Located => a.jurisdiction
    /\ s \in Researched => "FRESH" \in a.requirements
    /\ s \in Evaluated => a.evaluated_at # {}
    /\ s \in Assessed => a.assessed_at # {}
    /\ s \in Documented => a.package

\* A case that was never on hold has the rows of the stages behind it.
StagesAreBacked ==
    \A c \in Case :
        /\ artifacts[c].package => current_package[c] # None
        /\ artifacts[c].proof_bundle # "NONE" => FallbackOf(c)
        /\ NeverHeld(c) =>
              /\ case_state[c] # "EMERGENCY_HOLD"
              /\ RowsBack(case_state[c], artifacts[c])
              /\ case_state[c] = "SUBMITTED" => SubmittedOf(c)
              /\ case_state[c] = "MANUAL_SUBMISSION_REQUIRED" =>
                    artifacts[c].proof_bundle # "NONE"

StagesAreSound == HandlersHold /\ ScriptsAreAttempted /\ StagesAreBacked

(***************************************************************************)
(* What a step may do to the rows, the state and the script of a case.     *)
(***************************************************************************)
RowsKept(c) ==
    /\ artifacts[c].project => artifacts'[c].project
    /\ artifacts[c].jurisdiction => artifacts'[c].jurisdiction
    /\ "FRESH" \in artifacts[c].requirements => "FRESH" \in artifacts'[c].requirements
    /\ artifacts[c].evaluated_at # {} => artifacts'[c].evaluated_at # {}
    /\ artifacts[c].assessed_at # {} => artifacts'[c].assessed_at # {}
    /\ artifacts[c].package => artifacts'[c].package
    /\ artifacts[c].proof_bundle # "NONE" => artifacts'[c].proof_bundle # "NONE"
    /\ artifacts'[c].proof_bundle # "NONE" =>
          artifacts[c].proof_bundle # "NONE" \/ FallbackOf(c)'
    /\ artifacts'[c].package => artifacts[c].package \/ current_package'[c] # None
    /\ current_package[c] # None => current_package'[c] # None

Kept ==
    /\ \A c \in Case : RowsKept(c)
    /\ attempts \subseteq attempts' /\ ledger \subseteq ledger'
    /\ reviews \subseteq reviews' /\ emergencies \subseteq emergencies'

HeldRow(c) == \E row \in ledger' : row.case = c /\ row.to = "EMERGENCY_HOLD"

LeftBySignal(c) ==
    \E row \in ledger' \ ledger :
        /\ row.case = c /\ row.verdict = "APPLIED"
        /\ \/ row.id[3] = <<"emergency_hold", "exit">> /\ reviews # {}
           \/ row.id[3] = <<"emergency_hold", "entry">> /\ emergencies # {}

StateMoves(c) ==
    \/ case_state'[c] = case_state[c]
    \/ case_state[c] = "ABSENT" /\ case_state'[c] \in {"INTAKE_PENDING", "REVIEW_PENDING"}
    \/ /\ case_state[c] = "INCENTIVES_COMPLETE" /\ case_state'[c] = "DOCUMENT_COMPLETE"
       /\ artifacts'[c].package
    \/ \E q : /\ q.case = c /\ q.from = case_state[c] /\ q.to = case_state'[c]
              /\ q.from # "EMERGENCY_HOLD" /\ Backed(q)
              /\ EdgeOf(q) = <<"DOCUMENT_COMPLETE", "SUBMITTED">> => SubmittedOf(c)'
    \/ case_state'[c] = "EMERGENCY_HOLD" /\ HeldRow(c)
    \/ case_state[c] = "EMERGENCY_HOLD" /\ LeftBySignal(c)

\* Rows that stay and a state that moves so leave the case backed.
LEMMA BackedStages ==
    ASSUME StagesAreBacked, Kept, \A c \in Case : StateMoves(c)
    PROVE  StagesAreBacked'
<1> SUFFICES ASSUME NEW c \in Case
             PROVE  /\ artifacts'[c].package => current_package'[c] # None
                    /\ artifacts'[c].proof_bundle # "NONE" => FallbackOf(c)'
                    /\ NeverHeld(c)' =>
                          /\ case_state'[c] # "EMERGENCY_HOLD"
                          /\ RowsBack(case_state'[c], artifacts'[c])
                          /\ case_state'[c] = "SUBMITTED" => SubmittedOf(c)'
                          /\ case_state'[c] = "MANUAL_SUBMISSION_REQUIRED" =>
                                artifacts'[c].proof_bundle # "NONE"
  BY DEF StagesAreBacked, RowsBack
<1>1. RowsKept(c) /\ StateMoves(c)
  BY DEF Kept
<1>2. /\ artifacts'[c].package => current_package'[c] # None
      /\ artifacts'[c].proof_bundle # "NONE" => FallbackOf(c)'
  <2>1. FallbackOf(c) => FallbackOf(c)'
    BY DEF Kept, FallbackOf
  <2> QED
    BY <1>1, <2>1 DEF RowsKept, StagesAreBacked
<1>3. ASSUME NeverHeld(c)'
      PROVE  /\ case_state'[c] # "EMERGENCY_HOLD"
             /\ RowsBack(case_state'[c], artifacts'[c])
             /\ case_state'[c] = "SUBMITTED" => SubmittedOf(c)'
             /\ case_state'[c] = "MANUAL_SUBMISSION_REQUIRED" =>
                   artifacts'[c].proof_bundle # "NONE"
  <2> DEFINE s == case_state[c]
             t == case_state'[c]
  <2>1. NeverHeld(c) /\ ~HeldRow(c)
    BY <1>3 DEF NeverHeld, HeldRow, Kept
  <2>2. /\ s # "EMERGENCY_HOLD"
        /\ RowsBack(s, artifacts[c])
        /\ s = "SUBMITTED" => SubmittedOf(c)
        /\ s = "MANUAL_SUBMISSION_REQUIRED" => artifacts[c].proof_bundle # "NONE"
    BY <2>1 DEF StagesAreBacked
  <2>3. SubmittedOf(c) => SubmittedOf(c)'
    BY DEF Kept, SubmittedOf, SentOf, SubmittedByEntry
  <2>4. RowsBack(s, artifacts'[c])
    BY <1>1, <2>2 DEF RowsKept, RowsBack
  <2>5. CASE t = s
    BY <1>1, <2>2, <2>3, <2>4, <2>5 DEF RowsKept
  <2>6. CASE s = "ABSENT" /\ t \in {"INTAKE_PENDING", "REVIEW_PENDING"}
    BY <2>6 DEF RowsBack, TakenIn, Located, Researched, Evaluated, Assessed, Documented
  <2>7. CASE s = "INCENTIVES_COMPLETE" /\ t = "DOCUMENT_COMPLETE" /\ artifacts'[c].package
    BY <2>4, <2>7 DEF RowsBack, TakenIn, Located, Researched, Evaluated, Assessed, Documented
  <2>8. ASSUME NEW q, q.case = c, q.from = s, q.to = t, Backed(q),
               EdgeOf(q) = <<"DOCUMENT_COMPLETE", "SUBMITTED">> => SubmittedOf(c)'
        PROVE  /\ t # "EMERGENCY_HOLD"
               /\ RowsBack(t, artifacts'[c])
               /\ t = "SUBMITTED" => SubmittedOf(c)'
               /\ t = "MANUAL_SUBMISSION_REQUIRED" => artifacts'[c].proof_bundle # "NONE"
    <3> DEFINE a == artifacts'[c]
    <3> HIDE DEF s, t, a
    <3>1. \/ s = "REVIEW_PENDING" /\ t = "APPROVED_FOR_SUBMISSION"
          \/ s = "INTAKE_PENDING" /\ t = "INTAKE_COMPLETE" /\ a.project
          \/ s = "INTAKE_COMPLETE" /\ t = "JURISDICTION_COMPLETE" /\ a.jurisdiction
          \/ s = "JURISDICTION_COMPLETE" /\ t = "RESEARCH_COMPLETE" /\ "FRESH" \in a.requirements
          \/ s = "RESEARCH_COMPLETE" /\ t = "COMPLIANCE_COMPLETE" /\ a.evaluated_at # {}
          \/ s = "COMPLIANCE_COMPLETE" /\ t = "INCENTIVES_COMPLETE" /\ a.assessed_at # {}
          \/ s = "INCENTIVES_COMPLETE" /\ t = "DOCUMENT_COMPLETE" /\ a.package
          \/ /\ s = "DOCUMENT_COMPLETE" /\ t = "MANUAL_SUBMISSION_REQUIRED"
             /\ a.proof_bundle # "NONE"
          \/ s = "DOCUMENT_COMPLETE" /\ t = "SUBMITTED" /\ SubmittedOf(c)'
          \/ s = "SUBMITTED" /\ t = "COMMENT_REVIEW_PENDING"
          \/ s = "COMMENT_REVIEW_PENDING" /\ t = "CORRECTION_PENDING"
          \/ s = "CORRECTION_PENDING" /\ t = "RESUBMISSION_PENDING"
          \/ s = "RESUBMISSION_PENDING" /\ t = "DOCUMENT_COMPLETE"
      BY <1>1, <2>8 DEF Backed, EdgeOf, UnguardedEdge, RowsKept, a
    <3>2. /\ t # "EMERGENCY_HOLD"
          /\ t = "SUBMITTED" => SubmittedOf(c)'
          /\ t = "MANUAL_SUBMISSION_REQUIRED" => a.proof_bundle # "NONE"
      BY <3>1
    <3>3. RowsBack(s, a)
      BY <2>4 DEF a
    <3>4. RowsBack(t, a)
      BY <3>1, <3>3 DEF RowsBack, TakenIn, Located, Researched, Evaluated, Assessed, Documented
    <3> QED
      BY <3>2, <3>4 DEF a
  <2>9. ~(t = "EMERGENCY_HOLD" /\ HeldRow(c)) /\ s # "EMERGENCY_HOLD"
    BY <2>1, <2>2
  <2> QED
    BY <1>1, <2>5, <2>6, <2>7, <2>8, <2>9 DEF StateMoves
<1> QED
  BY <1>2, <1>3

-----------------------------------------------------------------------------
(***************************************************************************)
(* What each step does to the rows.                                        *)
(***************************************************************************)
LEMMA KeptUnchanged ==
    ASSUME UNCHANGED <<artifacts, current_package>>, attempts \subseteq attempts',
           ledger \subseteq ledger', reviews \subseteq reviews',
           emergencies \subseteq emergencies'
    PROVE  Kept
BY DEF Kept, RowsKept

LEMMA PersistRowsKeeps ==
    ASSUME Inductive, NEW c \in Case, PersistRows(c)
    PROVE  Kept
<1>0. /\ artifacts[c] \in Artifacts /\ artifacts \in [Case -> Artifacts]
      /\ UNCHANGED <<current_package, attempts, ledger, reviews, emergencies>>
  BY DEF PersistRows, tableVars, Inductive, TypeOK, RecordsTypeOK
<1>1. CASE UNCHANGED artifacts
  BY <1>0, <1>1, KeptUnchanged
<1>2. CASE PersistJurisdictionResolutions(c)
  <2>1. artifacts' = [artifacts EXCEPT ![c] = [artifacts[c] EXCEPT !.jurisdiction = TRUE]]
    BY <1>2 DEF PersistJurisdictionResolutions, Persist
  <2> QED
    BY <1>0, <2>1 DEF Artifacts, Kept, RowsKept
<1>3. ASSUME NEW f, PersistRequirementSets(c, f)
      PROVE  Kept
  <2>1. artifacts' = [artifacts EXCEPT ![c] =
            [artifacts[c] EXCEPT !.requirements = artifacts[c].requirements \cup {f}]]
    BY <1>3 DEF PersistRequirementSets, Persist
  <2> QED
    BY <1>0, <2>1 DEF Artifacts, Kept, RowsKept
<1>4. ASSUME NEW t, PersistComplianceEvaluation(c, t)
      PROVE  Kept
  <2>1. artifacts' = [artifacts EXCEPT ![c] =
            [artifacts[c] EXCEPT !.evaluated_at = artifacts[c].evaluated_at \cup {t}]]
    BY <1>4 DEF PersistComplianceEvaluation, Persist
  <2> QED
    BY <1>0, <2>1 DEF Artifacts, Kept, RowsKept
<1>5. ASSUME NEW t, PersistIncentiveAssessment(c, t)
      PROVE  Kept
  <2>1. artifacts' = [artifacts EXCEPT ![c] =
            [artifacts[c] EXCEPT !.assessed_at = artifacts[c].assessed_at \cup {t}]]
    BY <1>5 DEF PersistIncentiveAssessment, Persist
  <2> QED
    BY <1>0, <2>1 DEF Artifacts, Kept, RowsKept
<1> QED
  BY <1>1, <1>2, <1>3, <1>4, <1>5 DEF PersistRows

LEMMA PersistPackageKeeps ==
    ASSUME Inductive, NEW c \in Case, PersistPackage(c)
    PROVE  Kept /\ current_package'[c] # None
<1>1. /\ artifacts[c] \in Artifacts /\ artifacts \in [Case -> Artifacts]
      /\ artifacts' = [artifacts EXCEPT ![c] = [artifacts[c] EXCEPT !.package = TRUE]]
      /\ current_package' = [current_package EXCEPT ![c] = <<c, runs[c]>>]
      /\ current_package \in [Case -> PackageId \cup {None}]
      /\ UNCHANGED <<attempts, ledger, reviews, emergencies>>
  BY DEF PersistPackage, Inductive, TypeOK, RecordsTypeOK
<1>2. <<c, runs[c]>> # None
  <2>1. runs[c] \in 1 .. MaxRuns
    <3>1. runs[c] \in 0 .. MaxRuns /\ runs[c] >= 1
      BY DEF PersistPackage, At, Inductive, TypeOK, RunsAreSound, RunsAreNumbered
    <3> QED
      BY <3>1, RunAssumption
  <2> QED
    BY <2>1, PackageAssumption
<1>3. /\ current_package'[c] # None
      /\ \A d \in Case : current_package[d] # None => current_package'[d] # None
  BY <1>1, <1>2
<1> QED
  BY <1>1, <1>3 DEF Artifacts, Kept, RowsKept

LEMMA SubmitPackageKeeps ==
    ASSUME Inductive, NEW c \in Case, SubmitPackage(c)
    PROVE  Kept
<1>1. /\ artifacts[c] \in Artifacts /\ artifacts \in [Case -> Artifacts]
      /\ attempts \subseteq attempts'
      /\ UNCHANGED <<current_package, ledger, reviews, emergencies>>
  BY DEF SubmitPackage, Inductive, TypeOK, RecordsTypeOK
<1>2. CASE UNCHANGED artifacts
  BY <1>1, <1>2, KeptUnchanged
<1>3. ASSUME NEW outcome \in {"SUCCESS", "UNSUPPORTED_WORKFLOW"}, outcome # "SUCCESS",
             attempts' = attempts \cup
                 {[case |-> c, package |-> <<c, runs[c]>>, outcome |-> outcome]},
             artifacts' = [artifacts EXCEPT ![c].proof_bundle = "PENDING_REVIEW"]
      PROVE  Kept
  <2>1. FallbackOf(c)'
    <3>1. PICK new : new = [case |-> c, package |-> <<c, runs[c]>>, outcome |-> outcome]
      OBVIOUS
    <3>2. new.case = c /\ new.outcome # "SUCCESS" /\ new \in attempts'
      BY <1>3, <3>1
    <3> QED
      BY <3>2 DEF FallbackOf
  <2>2. artifacts' = [artifacts EXCEPT ![c] =
                         [artifacts[c] EXCEPT !.proof_bundle = "PENDING_REVIEW"]]
    BY <1>1, <1>3
  <2> QED
    BY <1>1, <2>1, <2>2 DEF Artifacts, Kept, RowsKept
<1> QED
  BY <1>1, <1>2, <1>3 DEF SubmitPackage

LEMMA RecordsKeeps ==
    ASSUME Inductive, Records
    PROVE  Kept
<1>0. /\ artifacts \in [Case -> Artifacts]
      /\ UNCHANGED <<current_package, attempts, ledger, emergencies>>
  BY DEF Records, tableVars, Inductive, TypeOK, RecordsTypeOK
<1>1. ASSUME NEW c \in Case, CreateCase(c)
      PROVE  Kept
  <2>1. artifacts[c] \in Artifacts
        /\ artifacts' = [artifacts EXCEPT ![c] = [artifacts[c] EXCEPT !.project = TRUE]]
        /\ UNCHANGED reviews
    BY <1>0, <1>1 DEF CreateCase
  <2> QED
    BY <1>0, <2>1 DEF Artifacts, Kept, RowsKept
<1>2. CASE UNCHANGED <<artifacts, reviews>>
  BY <1>0, <1>2, KeptUnchanged
<1> QED
  BY <1>1, <1>2 DEF Records, CreateContradiction, ResolveContradiction, Tick

LEMMA AnswerKeeps ==
    ASSUME NEW id, NEW q, NEW verdict, ApplyStateTransition(id, q, verdict)
    PROVE  ledger \subseteq ledger'
BY DEF ApplyStateTransition

\* Rows of a case are only added to, by anybody.
LEMMA NextKeepsRows ==
    ASSUME Inductive, Next
    PROVE  Kept
<1>1. ASSUME NEW c \in Case, RunStep(c)
      PROVE  Kept
  <2>1. CASE EnsureCase(c) \/ FetchSnapshot(c) \/ RecheckState(c) \/ TakeReview(c) \/ Complete(c)
    BY <2>1, KeptUnchanged DEF EnsureCase, FetchSnapshot, RecheckState, TakeReview, Complete,
       tableVars, recordVars
  <2>2. CASE MoveCase(c) \/ ReviewGate(c) \/ ReviewedMove(c)
    <3>1. TransitionFrame /\ ledger \subseteq ledger'
      BY <2>2, AnswerKeeps DEF MoveCase, ReviewGate, ReviewedMove
    <3> QED
      BY <3>1, KeptUnchanged DEF TransitionFrame
  <2> QED
    BY <1>1, <2>1, <2>2, PersistRowsKeeps, PersistPackageKeeps, SubmitPackageKeeps DEF RunStep
<1>2. ASSUME NEW h \in HandlerSlot, HandlerStep(h)
      PROVE  Kept
  <2>1. CASE EmergencyTransition(h)
    <3>1. /\ ledger \subseteq ledger'
          /\ UNCHANGED <<artifacts, current_package, attempts, reviews, emergencies>>
      BY <2>1, AnswerKeeps DEF EmergencyTransition
    <3> QED
      BY <3>1, KeptUnchanged
  <2>2. CASE ~EmergencyTransition(h)
    <3>1. UNCHANGED <<recordVars, tableVars>>
      BY <1>2, <2>2 DEF HandlerStep, RejectSignal, AcceptEntry, SnapshotEntry, AcceptExit,
         DropHandler
    <3> QED
      BY <3>1, KeptUnchanged DEF recordVars, tableVars
  <2> QED
    BY <2>1, <2>2
<1>3. ASSUME NEW c \in Case, NEW e \in ExternalEdge, ExternalTransition(c, e)
      PROVE  Kept
  <2>1. TransitionFrame /\ ledger \subseteq ledger'
    BY <1>3, AnswerKeeps DEF ExternalTransition
  <2> QED
    BY <2>1, KeptUnchanged DEF TransitionFrame
<1>4. ASSUME NEW id, NEW c, NEW outcome, CreateReviewDecision(id, c, outcome)
      PROVE  Kept
  BY <1>4, KeptUnchanged DEF CreateReviewDecision, RecordReview, tableVars
<1>5. CASE Records
  BY <1>5, RecordsKeeps
<1>6. CASE /\ UNCHANGED <<recordVars, ledger, packages, current_package, attempts>>
           /\ emergencies \subseteq emergencies'
  BY <1>6, KeptUnchanged DEF recordVars
<1> QED
  BY <1>1, <1>2, <1>3, <1>4, <1>5, <1>6
     DEF Next, StartWorkflow, CliSignalReview, EmergencyHoldEntry, EmergencyHoldExit,
         TakeSignal, SendReviewSignal, SignalFailed, DeclareEmergency, tableVars

-----------------------------------------------------------------------------
(***************************************************************************)
(* What each step does to the state of a case.                             *)
(***************************************************************************)
\* A new request moves no case but its own, and that along a backed edge, onto
\* the hold or off it.
LEMMA AnswerMoves ==
    ASSUME TypeOK, NEW id, Recorded(id) = {}, NEW q, q.case \in Case,
           NEW verdict \in Verdicts(id, q), ApplyStateTransition(id, q, verdict)
    PROVE  /\ \A d \in Case : d # q.case => case_state'[d] = case_state[d]
           /\ \/ case_state'[q.case] = case_state[q.case]
              \/ /\ verdict = "APPLIED"
                 /\ case_state[q.case] = q.from /\ case_state'[q.case] = q.to
                 /\ \/ q.to = "EMERGENCY_HOLD"
                    \/ q.from = "EMERGENCY_HOLD"
                    \/ q.from # "EMERGENCY_HOLD" /\ Backed(q)
           /\ \E row \in ledger' \ ledger :
                 /\ row.id = id /\ row.case = q.case /\ row.to = q.to
                 /\ row.verdict = verdict
<1>1. PICK set \in FirstRequirementSet(q.case) : verdict = VerdictOf(q, set)
  BY NewVerdicts
<1>2. /\ ledger' = ledger \cup {[id |-> id, case |-> q.case, from |-> q.from,
                                 to |-> q.to, verdict |-> verdict]}
      /\ case_state' = CaseStateAfter(q, verdict)
  BY DEF ApplyStateTransition
<1>3. \E row \in ledger' \ ledger :
          /\ row.id = id /\ row.case = q.case /\ row.to = q.to /\ row.verdict = verdict
  <2>1. PICK new : new = [id |-> id, case |-> q.case, from |-> q.from, to |-> q.to,
                          verdict |-> verdict]
    OBVIOUS
  <2>2. new.id = id /\ new.case = q.case /\ new.to = q.to /\ new.verdict = verdict
    BY <2>1
  <2>3. new \notin ledger
    BY <2>2 DEF Recorded
  <2>4. ledger' = ledger \cup {new}
    BY <1>2, <2>1
  <2> QED
    BY <2>2, <2>3, <2>4
<1>4. CASE verdict = "APPLIED"
  <2>1. /\ case_state[q.case] = q.from
        /\ \/ q.to = "EMERGENCY_HOLD"
           \/ q.from = "EMERGENCY_HOLD"
           \/ q.from # "EMERGENCY_HOLD" /\ EdgeVerdict(q, set) = "APPLIED"
    BY <1>1, <1>4, AppliedPasses
  <2>2. EdgeVerdict(q, set) = "APPLIED" => Backed(q)
    BY <1>1, GuardedEdgesAreBacked
  <2>3. case_state' = [case_state EXCEPT ![q.case] = q.to]
    BY <1>2, <1>4 DEF CaseStateAfter
  <2> QED
    BY <1>3, <1>4, <2>1, <2>2, <2>3 DEF TypeOK, RecordsTypeOK
<1>5. CASE verdict # "APPLIED"
  BY <1>2, <1>3, <1>5 DEF CaseStateAfter
<1> QED
  BY <1>4, <1>5

\* A request of run() or from outside leaves no hold, and submits only on an
\* attempt.
LEMMA RequestMoves ==
    ASSUME TypeOK, NEW id, Recorded(id) = {}, NEW q, q.case \in Case,
           q.from # "EMERGENCY_HOLD",
           EdgeOf(q) = <<"DOCUMENT_COMPLETE", "SUBMITTED">> => SubmittedOf(q.case)',
           NEW verdict \in Verdicts(id, q), ApplyStateTransition(id, q, verdict),
           NEW d \in Case
    PROVE  StateMoves(d)
<1>1. CASE d # q.case
  BY <1>1, AnswerMoves DEF StateMoves
<1>2. CASE d = q.case
  <2>1. \/ case_state'[d] = case_state[d]
        \/ /\ case_state[d] = q.from /\ case_state'[d] = q.to
           /\ q.to = "EMERGENCY_HOLD" \/ Backed(q)
    BY <1>2, AnswerMoves
  <2>2. \E row \in ledger' \ ledger : row.case = d /\ row.to = q.to
    BY <1>2, AnswerMoves
  <2>3. CASE case_state'[d] = case_state[d]
    BY <2>3 DEF StateMoves
  <2>4. CASE case_state'[d] = q.to /\ q.to = "EMERGENCY_HOLD"
    BY <2>2, <2>4 DEF StateMoves, HeldRow
  <2>5. CASE case_state[d] = q.from /\ case_state'[d] = q.to /\ Backed(q)
    BY <1>2, <2>5 DEF StateMoves
  <2> QED
    BY <2>1, <2>3, <2>4, <2>5
<1> QED
  BY <1>1, <1>2

LEMMA MoveCaseMoves ==
    ASSUME Inductive, ScriptsAreAttempted, NEW c \in Case, MoveCase(c), NEW d \in Case
    PROVE  StateMoves(d)
<1> DEFINE step == Head(script[c])
<1>1. script[c] # <<>> /\ step.op = "move"
  BY DEF MoveCase, At
<1>2. WellFormed(script[c]) /\ step \in Step
  BY <1>1, AtStep DEF Inductive, RunsAreSound
<1>3. 1 \in 1 .. Len(script[c]) /\ step = script[c][1]
  BY <1>1, <1>2, HeadAndTail DEF WellFormed
<1>4. PICK q, verdict :
          /\ q = RequestFor(c, step.from, step.to, None)
          /\ verdict \in Verdicts(StepId(c, q), q)
          /\ ApplyStateTransition(StepId(c, q), q, verdict)
  BY DEF MoveCase
<1>5. /\ q.case = c /\ q.from = step.from /\ q.to = step.to
      /\ q.from # "EMERGENCY_HOLD"
  BY <1>1, <1>2, <1>3, <1>4 DEF RequestFor, WellFormed
<1>6. Recorded(StepId(c, q)) = {}
  <2>1. <<EdgeOf(q), 1>> \in Asks(step) /\ StepId(c, q) = RequestId(c, runs[c], EdgeOf(q), 1)
    BY <1>1, <1>5 DEF Asks, StepId, EdgeOf, At
  <2>2. \A ask \in Asks(step) : Recorded(RequestId(c, runs[c], ask[1], ask[2])) = {}
    BY <1>1, AtStep DEF Inductive, RunsAreSound
  <2> QED
    BY <2>1, <2>2
<1>7. EdgeOf(q) = <<"DOCUMENT_COMPLETE", "SUBMITTED">> => SubmittedOf(c)'
  <2>1. step = Move(step.from, step.to)
    BY <1>1, <1>2 DEF Step, Move
  <2>2. step = OutcomeEdge("SUCCESS") => SubmittedOf(c)'
    <3>1. UNCHANGED attempts
      BY DEF MoveCase, TransitionFrame
    <3> QED
      BY <1>3, <3>1 DEF ScriptsAreAttempted, SentOf, SubmittedOf
  <2> HIDE DEF step
  <2> QED
    BY <1>5, <2>1, <2>2 DEF EdgeOf, OutcomeEdge
<1> QED
  BY <1>4, <1>5, <1>6, <1>7, RequestMoves DEF Inductive

LEMMA ApprovalMoves ==
    ASSUME Inductive, NEW c \in Case, ReviewGate(c) \/ ReviewedMove(c), NEW d \in Case
    PROVE  StateMoves(d)
<1>1. PICK q, verdict :
          /\ q.case = c /\ q.from = "REVIEW_PENDING" /\ q.to = "APPROVED_FOR_SUBMISSION"
          /\ verdict \in Verdicts(StepId(c, q), q)
          /\ ApplyStateTransition(StepId(c, q), q, verdict)
  BY DEF ReviewGate, ReviewedMove, RequestFor
<1>2. /\ script[c] # <<>>
      /\ Head(script[c]).op = "gate" \/ Head(script[c]).op = "reviewed_gate"
  BY DEF ReviewGate, ReviewedMove, At
<1>3. Recorded(StepId(c, q)) = {}
  <2>1. \A ask \in Asks(Head(script[c])) : Recorded(RequestId(c, runs[c], ask[1], ask[2])) = {}
    BY <1>2, AtStep DEF Inductive, RunsAreSound
  <2>2. EdgeOf(q) = Approval
    BY <1>1 DEF EdgeOf, Approval
  <2>3. CASE Head(script[c]).op = "gate"
    <3>1. <<Approval, 1>> \in Asks(Head(script[c]))
      BY <2>3 DEF Asks
    <3>2. StepId(c, q) = RequestId(c, runs[c], Approval, 1)
      BY <1>2, <2>2, <2>3 DEF StepId, At
    <3> QED
      BY <2>1, <3>1, <3>2
  <2>4. CASE Head(script[c]).op = "reviewed_gate"
    <3>1. <<Approval, 2>> \in Asks(Head(script[c]))
      BY <2>4 DEF Asks
    <3>2. StepId(c, q) = RequestId(c, runs[c], Approval, 2)
      BY <1>2, <2>2, <2>4 DEF StepId, At
    <3> QED
      BY <2>1, <3>1, <3>2
  <2> QED
    BY <1>2, <2>3, <2>4
<1>4. EdgeOf(q) # <<"DOCUMENT_COMPLETE", "SUBMITTED">>
  BY <1>1 DEF EdgeOf
<1> QED
  BY <1>1, <1>3, <1>4, RequestMoves DEF Inductive

LEMMA ExternalMoves ==
    ASSUME Inductive, NEW c \in Case, NEW e \in ExternalEdge, ExternalTransition(c, e),
           NEW d \in Case
    PROVE  StateMoves(d)
<1>1. PICK q, verdict :
          /\ q = RequestFor(c, e[1], e[2], None)
          /\ Recorded(RequestId(c, runs[c], e, 1)) = {}
          /\ verdict \in Verdicts(RequestId(c, runs[c], e, 1), q)
          /\ ApplyStateTransition(RequestId(c, runs[c], e, 1), q, verdict)
  BY DEF ExternalTransition
<1>2. /\ q.case = c /\ q.from \in {"SUBMITTED", "CORRECTION_PENDING"}
      /\ q.from # "EMERGENCY_HOLD"
      /\ EdgeOf(q) # <<"DOCUMENT_COMPLETE", "SUBMITTED">>
  BY <1>1 DEF RequestFor, ExternalEdge, EdgeOf
<1> QED
  BY <1>1, <1>2, RequestMoves DEF Inductive

\* A handler's transition goes onto the hold, or is a signal's own move.
LEMMA EmergencyMoves ==
    ASSUME Inductive, HandlersHold, NEW h \in HandlerSlot, EmergencyTransition(h),
           NEW d \in Case
    PROVE  StateMoves(d)
<1> DEFINE c == handlers[h].case
           id == HandlerId(handlers[h])
<1>1. PICK q, verdict :
          /\ q = RequestFor(c, handlers[h].from, handlers[h].target, None)
          /\ verdict \in Verdicts(id, q)
          /\ ApplyStateTransition(id, q, verdict)
  BY DEF EmergencyTransition
<1>2. /\ handlers[h].step = "transition" /\ handlers[h] # Free
      /\ c \in Case /\ handlers[h].kind \in {"entry", "exit"}
      /\ Recorded(id) = {}
  BY HandlerShape DEF EmergencyTransition, Inductive, RunsAreSound, HandlersAreFresh
<1>3. q.case = c /\ q.from = handlers[h].from /\ q.to = handlers[h].target
  BY <1>1 DEF RequestFor
<1>4. /\ \A x \in Case : x # c => case_state'[x] = case_state[x]
      /\ \/ case_state'[c] = case_state[c]
         \/ /\ verdict = "APPLIED" /\ case_state[c] = q.from /\ case_state'[c] = q.to
            /\ \/ q.to = "EMERGENCY_HOLD"
               \/ q.from = "EMERGENCY_HOLD"
               \/ q.from # "EMERGENCY_HOLD" /\ Backed(q)
      /\ \E row \in ledger' \ ledger :
            row.id = id /\ row.case = c /\ row.to = q.to /\ row.verdict = verdict
  BY <1>1, <1>2, <1>3, AnswerMoves DEF Inductive
<1>5. CASE d # c \/ case_state'[c] = case_state[c]
  BY <1>4, <1>5 DEF StateMoves
<1>6. CASE /\ d = c /\ verdict = "APPLIED"
           /\ case_state[c] = q.from /\ case_state'[c] = q.to
           /\ \/ q.to = "EMERGENCY_HOLD"
              \/ q.from = "EMERGENCY_HOLD"
              \/ q.from # "EMERGENCY_HOLD" /\ Backed(q)
  <2>1. /\ handlers[h].kind = "exit" => q.from = "EMERGENCY_HOLD" /\ reviews # {}
        /\ handlers[h].kind = "entry" => emergencies # {}
    BY <1>2, <1>3 DEF HandlersHold
  <2>2. id[3] = <<"emergency_hold", handlers[h].kind>>
    BY DEF HandlerId, RequestId
  <2> HIDE DEF id
  <2>3. PICK row \in ledger' \ ledger :
            /\ row.id[3] = <<"emergency_hold", handlers[h].kind>>
            /\ row.case = c /\ row.to = q.to /\ row.verdict = "APPLIED"
    BY <1>4, <1>6, <2>2
  <2>4. CASE q.to = "EMERGENCY_HOLD"
    BY <1>6, <2>3, <2>4 DEF StateMoves, HeldRow
  <2>5. CASE q.from = "EMERGENCY_HOLD"
    <3>1. LeftBySignal(c)
      BY <1>2, <2>1, <2>3 DEF LeftBySignal
    <3> QED
      BY <1>6, <2>5, <3>1 DEF StateMoves
  <2>6. CASE q.from # "EMERGENCY_HOLD" /\ Backed(q)
    <3>1. handlers[h].kind = "entry"
      BY <1>2, <2>1, <2>6
    <3>2. EdgeOf(q) = <<"DOCUMENT_COMPLETE", "SUBMITTED">> => SubmittedOf(d)'
      BY <1>6, <2>3, <3>1 DEF EdgeOf, SubmittedOf, SubmittedByEntry
    <3> QED
      BY <1>3, <1>6, <2>6, <3>2 DEF StateMoves
  <2> QED
    BY <1>6, <2>4, <2>5, <2>6
<1> QED
  BY <1>2, <1>4, <1>5, <1>6

LEMMA NextMoves ==
    ASSUME Inductive, HandlersHold, ScriptsAreAttempted, Next, NEW d \in Case
    PROVE  StateMoves(d)
<1>0. case_state \in [Case -> CaseState \cup {"ABSENT"}]
  BY DEF Inductive, TypeOK, RecordsTypeOK
<1>1. CASE UNCHANGED case_state
  BY <1>1 DEF StateMoves
<1>2. ASSUME NEW c \in Case, RunStep(c)
      PROVE  StateMoves(d)
  <2>1. CASE EnsureCase(c)
    <3>1. \/ case_state'[d] = case_state[d]
          \/ case_state[d] = "ABSENT" /\ case_state'[d] = "REVIEW_PENDING"
      BY <1>0, <2>1 DEF EnsureCase, Exists
    <3> QED
      BY <3>1 DEF StateMoves
  <2>2. CASE PersistPackage(c)
    <3>1. artifacts'[c].package
      BY <2>2 DEF PersistPackage, Inductive, TypeOK, RecordsTypeOK, Artifacts
    <3>2. \/ case_state'[d] = case_state[d]
          \/ d = c /\ case_state[d] = "INCENTIVES_COMPLETE" /\ case_state'[d] = "DOCUMENT_COMPLETE"
      BY <1>0, <2>2 DEF PersistPackage
    <3> QED
      BY <3>1, <3>2 DEF StateMoves
  <2>3. CASE FetchSnapshot(c) \/ PersistRows(c) \/ RecheckState(c) \/ TakeReview(c)
             \/ SubmitPackage(c) \/ Complete(c)
    BY <1>1, <2>3 DEF FetchSnapshot, PersistRows, RecheckState, TakeReview, SubmitPackage,
       Complete, recordVars
  <2> QED
    BY <1>2, <2>1, <2>2, <2>3, MoveCaseMoves, ApprovalMoves DEF RunStep
<1>3. ASSUME NEW h \in HandlerSlot, HandlerStep(h)
      PROVE  StateMoves(d)
  <2>1. CASE RejectSignal(h) \/ AcceptEntry(h) \/ SnapshotEntry(h) \/ AcceptExit(h)
             \/ DropHandler(h)
    BY <1>1, <2>1 DEF RejectSignal, AcceptEntry, SnapshotEntry, AcceptExit, DropHandler,
       recordVars
  <2> QED
    BY <1>3, <2>1, EmergencyMoves DEF HandlerStep
<1>4. ASSUME NEW c \in Case, NEW e \in ExternalEdge, ExternalTransition(c, e)
      PROVE  StateMoves(d)
  BY <1>4, ExternalMoves
<1>5. CASE Records
  <2>1. ASSUME NEW c \in Case, CreateCase(c)
        PROVE  StateMoves(d)
    BY <1>0, <2>1 DEF CreateCase, Exists, StateMoves
  <2> QED
    BY <1>1, <1>5, <2>1 DEF Records, CreateContradiction, ResolveContradiction, Tick
<1> QED
  BY <1>1, <1>2, <1>3, <1>4, <1>5
     DEF Next, StartWorkflow, CliSignalReview, EmergencyHoldEntry, EmergencyHoldExit,
         TakeSignal, CreateReviewDecision, RecordReview, SendReviewSignal, SignalFailed,
         DeclareEmergency, recordVars

-----------------------------------------------------------------------------
(***************************************************************************)
(* The outcome edges run() has left, and what the handlers carry.          *)
(***************************************************************************)
Answered(c, t) ==
    \A i \in 1 .. Len(t) :
        t[i] = OutcomeEdge("SUCCESS") => SentOf(c)'

OutcomeFree(t) ==
    \A i \in 1 .. Len(t) : t[i] \notin {OutcomeEdge("SUCCESS"), OutcomeEdge("UNSUPPORTED_WORKFLOW")}

LEMMA OutcomeFreeSteps ==
    /\ OutcomeFree(<<>>) /\ OutcomeFree(<<Ensure, Fetch>>)
    /\ Move("INCENTIVES_COMPLETE", "DOCUMENT_COMPLETE")
          \notin {OutcomeEdge("SUCCESS"), OutcomeEdge("UNSUPPORTED_WORKFLOW")}
<1>1. Len(<<>>) = 0 /\ 1 .. 0 = {}
  OBVIOUS
<1>2. OutcomeFree(<<Ensure, Fetch>>)
  BY DEF OutcomeFree, OutcomeEdge, Move, Ensure, Fetch
<1>3. Move("INCENTIVES_COMPLETE", "DOCUMENT_COMPLETE")
          \notin {OutcomeEdge("SUCCESS"), OutcomeEdge("UNSUPPORTED_WORKFLOW")}
  BY DEF OutcomeEdge, Move
<1> QED
  BY <1>1, <1>2, <1>3 DEF OutcomeFree

\* What a run had left to do stays answered, and so does the rest of it.
LEMMA OldIsAnswered ==
    ASSUME Inductive, ScriptsAreAttempted, Kept, NEW c \in Case
    PROVE  /\ Answered(c, script[c])
           /\ script[c] # <<>> => Answered(c, Tail(script[c]))
           /\ \A t : OutcomeFree(t) => Answered(c, t)
<1>1. SentOf(c) => SentOf(c)'
  BY DEF Kept, SentOf
<1>2. Answered(c, script[c])
  BY <1>1 DEF ScriptsAreAttempted, Answered
<1>3. ASSUME script[c] # <<>> PROVE Answered(c, Tail(script[c]))
  <2>1. script[c] \in Seq(Step)
    BY DEF Inductive, TypeOK
  <2>2. \A i \in 1 .. Len(Tail(script[c])) :
            i + 1 \in 1 .. Len(script[c]) /\ Tail(script[c])[i] = script[c][i + 1]
    BY <1>3, <2>1, HeadAndTail
  <2> QED
    BY <1>2, <2>2 DEF Answered
<1> QED
  BY <1>2, <1>3 DEF Answered, OutcomeFree

\* A run that goes on to steps that are answered.
LEMMA AnsweredScripts ==
    ASSUME Inductive, ScriptsAreAttempted, Kept, NEW c \in Case, NEW t, Answered(c, t),
           script' = [script EXCEPT ![c] = t]
    PROVE  ScriptsAreAttempted'
<1>1. \A d \in Case : Answered(d, script'[d])
  <2>1. \A d \in Case : script'[d] = IF d = c THEN t ELSE script[d]
    BY DEF Inductive, TypeOK
  <2> QED
    BY <2>1, OldIsAnswered
<1> QED
  BY <1>1 DEF ScriptsAreAttempted, Answered

LEMMA ContinuedScripts ==
    ASSUME Inductive, ScriptsAreAttempted, Kept, NEW c \in Case, NEW steps,
           Continue(c, steps), Answered(c, steps)
    PROVE  ScriptsAreAttempted'
<1>1. PICK t : t = IF Running(c) THEN steps ELSE <<>>
  OBVIOUS
<1>2. Answered(c, t)
  BY <1>1, OldIsAnswered, OutcomeFreeSteps
<1>3. script' = [script EXCEPT ![c] = t]
  BY <1>1 DEF Continue
<1> QED
  BY <1>2, <1>3, AnsweredScripts

LEMMA RunStepAnswers ==
    ASSUME Inductive, ScriptsAreAttempted, Kept, NEW c \in Case, RunStep(c)
    PROVE  ScriptsAreAttempted'
<1>0. /\ \A t : OutcomeFree(t) => Answered(c, t)
      /\ Answered(c, <<>>)
      /\ script[c] # <<>> => Answered(c, Tail(script[c]))
  BY OldIsAnswered, OutcomeFreeSteps
<1>1. CASE EnsureCase(c) \/ PersistRows(c) \/ PersistPackage(c)
  <2>1. script[c] # <<>> /\ Continue(c, Tail(script[c]))
    BY <1>1 DEF EnsureCase, PersistRows, PersistPackage, At
  <2> QED
    BY <1>0, <2>1, ContinuedScripts
<1>2. CASE FetchSnapshot(c)
  <2>1. OutcomeFree(ScriptFor(case_state[c]))
    BY ScriptForIsChosen DEF Chosen, OutcomeFree
  <2> QED
    BY <1>0, <1>2, <2>1, ContinuedScripts DEF FetchSnapshot
<1>3. CASE MoveCase(c) \/ ReviewGate(c) \/ ReviewedMove(c)
  <2>1. script[c] # <<>> /\ (Continue(c, Tail(script[c])) \/ Continue(c, <<>>))
    BY <1>3 DEF MoveCase, ReviewGate, ReviewedMove, At
  <2> QED
    BY <1>0, <2>1, ContinuedScripts
<1>4. CASE RecheckState(c)
  <2> DEFINE step == Move("INCENTIVES_COMPLETE", "DOCUMENT_COMPLETE")
             rest == Tail(script[c])
             t == <<step>> \o rest
  <2>1. script[c] # <<>> /\ (Continue(c, rest) \/ Continue(c, t))
    BY <1>4 DEF RecheckState, At
  <2>2. step \in Step /\ rest \in Seq(Step)
    <3>1. script[c] \in Seq(Step)
      BY DEF Inductive, TypeOK
    <3> QED
      BY <2>1, <3>1, HeadAndTail, StepTypes DEF CaseState
  <2> HIDE DEF step, rest
  <2>3. /\ Len(t) = Len(rest) + 1 /\ t[1] = step
        /\ \A i \in 1 .. Len(t) : i = 1 \/ (i - 1 \in 1 .. Len(rest) /\ t[i] = rest[i - 1])
    BY <2>2
  <2>4. Answered(c, rest)
    BY <1>0, <2>1 DEF rest
  <2>5. step \notin {OutcomeEdge("SUCCESS"), OutcomeEdge("UNSUPPORTED_WORKFLOW")}
    BY OutcomeFreeSteps DEF step
  <2> HIDE DEF t
  <2>6. Answered(c, t)
    BY <2>3, <2>4, <2>5 DEF Answered
  <2> QED
    BY <2>1, <2>4, <2>6, ContinuedScripts
<1>5. CASE TakeReview(c)
  <2>1. PICK t : t = IF review_signal[c] = "LEGACY" THEN <<>> ELSE Tail(script[c])
    OBVIOUS
  <2>2. script[c] # <<>> /\ script' = [script EXCEPT ![c] = t]
    BY <1>5, <2>1 DEF TakeReview, At, Inductive, TypeOK
  <2> QED
    BY <1>0, <2>1, <2>2, AnsweredScripts
<1>6. CASE SubmitPackage(c)
  <2>1. PICK outcome \in {"SUCCESS", "UNSUPPORTED_WORKFLOW"} :
            /\ Continue(c, <<OutcomeEdge(outcome)>>)
            /\ \E a \in attempts' : a.case = c /\ a.outcome = outcome
    <3>1. CASE \E a \in attempts : /\ a.case = c
                                   /\ Continue(c, <<OutcomeEdge(a.outcome)>>)
                                   /\ UNCHANGED <<attempts, artifacts>>
      BY <3>1 DEF Inductive, TypeOK
    <3>2. ASSUME NEW outcome \in {"SUCCESS", "UNSUPPORTED_WORKFLOW"},
                 attempts' = attempts \cup
                    {[case |-> c, package |-> <<c, runs[c]>>, outcome |-> outcome]},
                 Continue(c, <<OutcomeEdge(outcome)>>)
          PROVE  \E o \in {"SUCCESS", "UNSUPPORTED_WORKFLOW"} :
                    /\ Continue(c, <<OutcomeEdge(o)>>)
                    /\ \E a \in attempts' : a.case = c /\ a.outcome = o
      <4>1. PICK new : new = [case |-> c, package |-> <<c, runs[c]>>, outcome |-> outcome]
        OBVIOUS
      <4>2. new.case = c /\ new.outcome = outcome /\ new \in attempts'
        BY <3>2, <4>1
      <4> QED
        BY <3>2, <4>2
    <3> QED
      BY <1>6, <3>1, <3>2 DEF SubmitPackage
  <2>2. Answered(c, <<OutcomeEdge(outcome)>>)
    <3>1. OutcomeEdge("SUCCESS") # OutcomeEdge("UNSUPPORTED_WORKFLOW")
      BY DEF OutcomeEdge, Move
    <3> QED
      BY <2>1, <3>1 DEF Answered, SentOf
  <2> QED
    BY <2>1, <2>2, ContinuedScripts
<1>7. CASE Complete(c)
  <2>1. script' = [script EXCEPT ![c] = script[c]]
    BY <1>7 DEF Complete, Inductive, TypeOK
  <2> QED
    BY <2>1, AnsweredScripts, OldIsAnswered
<1> QED
  BY <1>1, <1>2, <1>3, <1>4, <1>5, <1>6, <1>7 DEF RunStep

LEMMA NextAnswers ==
    ASSUME Inductive, ScriptsAreAttempted, Kept, [Next]_vars
    PROVE  ScriptsAreAttempted'
<1>1. ASSUME NEW c \in Case, RunStep(c)
      PROVE  ScriptsAreAttempted'
  BY <1>1, RunStepAnswers
<1>2. ASSUME NEW c \in Case, StartWorkflow(c)
      PROVE  ScriptsAreAttempted'
  <2>1. Answered(c, <<Ensure, Fetch>>)
    BY OldIsAnswered, OutcomeFreeSteps
  <2> QED
    BY <1>2, <2>1, AnsweredScripts DEF StartWorkflow
<1>3. CASE UNCHANGED script
  BY <1>3, OldIsAnswered DEF ScriptsAreAttempted, Answered
<1>4. ASSUME NEW h \in HandlerSlot, HandlerStep(h)
      PROVE  UNCHANGED script
  BY <1>4 DEF HandlerStep, RejectSignal, AcceptEntry, SnapshotEntry, AcceptExit,
     EmergencyTransition, DropHandler
<1> QED
  BY <1>1, <1>2, <1>3, <1>4
     DEF Next, CliSignalReview, EmergencyHoldEntry, EmergencyHoldExit, TakeSignal,
         CreateReviewDecision, SendReviewSignal, SignalFailed, DeclareEmergency,
         ExternalTransition, Records, workflowVars, vars

\* A handler that has been told what HandlersHold says.
Holding(m) ==
    /\ m.step \in {"snapshot", "transition"} /\ m.kind = "entry" => emergencies' # {}
    /\ m.step = "transition" /\ m.kind = "exit" =>
          m.from = "EMERGENCY_HOLD" /\ reviews' # {}

LEMMA HandlerHolds ==
    ASSUME Inductive, HandlersHold, Kept, NEW h \in HandlerSlot, NEW m, Holding(m),
           handlers' = [handlers EXCEPT ![h] = m]
    PROVE  HandlersHold'
<1>1. \A g \in HandlerSlot : handlers'[g] = IF g = h THEN m ELSE handlers[g]
  BY DEF Inductive, TypeOK
<1>2. \A g \in HandlerSlot : Holding(handlers[g])
  BY DEF HandlersHold, Holding, Kept
<1> QED
  BY <1>1, <1>2 DEF HandlersHold, Holding

LEMMA HandlerStepHolds ==
    ASSUME Inductive, HandlersHold, Kept, NEW h \in HandlerSlot, HandlerStep(h)
    PROVE  HandlersHold'
<1>1. Holding(Free)
  BY DEF Holding, Free
<1>2. CASE RejectSignal(h) \/ EmergencyTransition(h) \/ DropHandler(h)
  <2>1. handlers' = [handlers EXCEPT ![h] = Free]
    BY <1>2 DEF RejectSignal, EmergencyTransition, DropHandler
  <2> QED
    BY <1>1, <2>1, HandlerHolds
<1>3. CASE AcceptEntry(h)
  <2>1. PICK m : m = [handlers[h] EXCEPT !.step = "snapshot"]
    OBVIOUS
  <2>2. /\ handlers' = [handlers EXCEPT ![h] = m]
        /\ handlers[h].step = "validate" /\ handlers[h].kind = "entry"
    BY <1>3, <2>1 DEF AcceptEntry
  <2>3. handlers[h] # Free
    BY <2>2 DEF Free
  <2>4. handlers[h] \in SignalTaken("validate", {"entry", "exit"})
    <3>1. handlers[h] \in Handler
      BY DEF Inductive, TypeOK
    <3> QED
      BY <2>2, <2>3, <3>1 DEF Handler, SignalTaken
  <2>5. m.step = "snapshot"
    BY <2>1, <2>4 DEF SignalTaken
  <2>6. Valid(handlers[h]) /\ emergencies' = emergencies
    BY <1>3 DEF AcceptEntry, tableVars
  <2>7. emergencies # {}
    BY <2>2, <2>6 DEF Valid
  <2>8. Holding(m)
    BY <2>5, <2>6, <2>7 DEF Holding
  <2> QED
    BY <2>2, <2>8, HandlerHolds
<1>4. CASE SnapshotEntry(h)
  <2>1. PICK m : m = Transiting(handlers[h], case_state[handlers[h].case],
                                signals[handlers[h].case].entry + 1)
    OBVIOUS
  <2>2. /\ handlers' = [handlers EXCEPT ![h] = m] /\ handlers[h].step = "snapshot"
        /\ handlers[h] # Free
    BY <1>4, <2>1 DEF SnapshotEntry, Free
  <2>3. handlers[h].kind = "entry"
    BY <2>2, HandlerShape DEF Inductive
  <2>4. m.kind = "entry"
    BY <2>1, <2>3 DEF Transiting
  <2>5. Holding(m)
    BY <2>2, <2>3, <2>4 DEF Holding, HandlersHold, Kept
  <2> QED
    BY <2>2, <2>5, HandlerHolds
<1>5. CASE AcceptExit(h)
  <2>1. PICK m : m = Transiting(handlers[h], "EMERGENCY_HOLD",
                                signals[handlers[h].case].exit + 1)
    OBVIOUS
  <2>2. /\ handlers' = [handlers EXCEPT ![h] = m] /\ handlers[h].kind = "exit"
        /\ Valid(handlers[h]) /\ reviews' = reviews
    BY <1>5, <2>1 DEF AcceptExit, recordVars
  <2>3. reviews # {}
    BY <2>2 DEF Valid
  <2>4. m.kind = "exit" /\ m.from = "EMERGENCY_HOLD"
    BY <2>1, <2>2 DEF Transiting
  <2>5. Holding(m)
    BY <2>2, <2>3, <2>4 DEF Holding
  <2> QED
    BY <2>2, <2>5, HandlerHolds
<1> QED
  BY <1>2, <1>3, <1>4, <1>5 DEF HandlerStep

LEMMA NextHolds ==
    ASSUME Inductive, HandlersHold, Kept, [Next]_vars
    PROVE  HandlersHold'
<1>1. ASSUME NEW h \in HandlerSlot, HandlerStep(h)
      PROVE  HandlersHold'
  BY <1>1, HandlerStepHolds
<1>2. ASSUME NEW h \in HandlerSlot, NEW c \in Case,
             EmergencyHoldEntry(h, c) \/ EmergencyHoldExit(h, c)
      PROVE  HandlersHold'
  <2>1. PICK kind, ref, target :
            TakeSignal(h, c, kind, ref, target)
    BY <1>2 DEF EmergencyHoldEntry, EmergencyHoldExit
  <2>2. PICK m : m = [step |-> "validate", kind |-> kind, case |-> c, run |-> runs[c],
                      ref |-> ref, target |-> target]
    OBVIOUS
  <2>3. handlers' = [handlers EXCEPT ![h] = m]
    BY <2>1, <2>2 DEF TakeSignal
  <2>4. m.step = "validate"
    BY <2>2
  <2>5. Holding(m)
    BY <2>4 DEF Holding
  <2> QED
    BY <2>3, <2>5, HandlerHolds
<1>3. CASE UNCHANGED handlers
  BY <1>3 DEF HandlersHold, Kept
<1>4. ASSUME NEW c \in Case, RunStep(c)
      PROVE  UNCHANGED handlers
  BY <1>4 DEF RunStep, EnsureCase, FetchSnapshot, PersistRows, MoveCase, RecheckState,
     ReviewGate, TakeReview, ReviewedMove, PersistPackage, SubmitPackage, Complete,
     TransitionFrame
<1> QED
  BY <1>1, <1>2, <1>3, <1>4
     DEF Next, StartWorkflow, CliSignalReview, CreateReviewDecision, SendReviewSignal,
         SignalFailed, DeclareEmergency, ExternalTransition, TransitionFrame, Records,
         workflowVars, vars

LEMMA StepKeepsRows ==
    ASSUME Inductive, [Next]_vars
    PROVE  Kept
BY NextKeepsRows, KeptUnchanged DEF vars, recordVars, tableVars

LEMMA InitStages == Init => StagesAreSound
<1> SUFFICES ASSUME Init PROVE StagesAreSound
  OBVIOUS
<1>1. HandlersHold
  BY DEF Init, HandlersHold, Free
<1>2. ScriptsAreAttempted
  <2>1. Len(<<>>) = 0 /\ 1 .. 0 = {}
    OBVIOUS
  <2> QED
    BY <2>1 DEF Init, ScriptsAreAttempted
<1>3. StagesAreBacked
  <2>1. \A c \in Case : /\ case_state[c] = "ABSENT" /\ ~artifacts[c].package
                        /\ artifacts[c].proof_bundle = "NONE"
    BY DEF Init, RecordsInit, NoArtifacts
  <2> QED
    BY <2>1 DEF StagesAreBacked, RowsBack, Documented, Assessed, Evaluated, Researched,
       Located, TakenIn
<1> QED
  BY <1>1, <1>2, <1>3 DEF StagesAreSound

LEMMA NextKeepsStages ==
    ASSUME Inductive, StagesAreSound, [Next]_vars
    PROVE  StagesAreSound'
<1>1. Kept
  BY StepKeepsRows
<1>2. \A c \in Case : StateMoves(c)
  <2>1. CASE Next
    BY <2>1, NextMoves DEF StagesAreSound
  <2>2. CASE UNCHANGED vars
    BY <2>2 DEF vars, recordVars, StateMoves
  <2> QED
    BY <2>1, <2>2
<1>3. HandlersHold' /\ ScriptsAreAttempted'
  BY <1>1, NextHolds, NextAnswers DEF StagesAreSound
<1>4. StagesAreBacked'
  BY <1>1, <1>2, BackedStages DEF StagesAreSound
<1> QED
  BY <1>3, <1>4 DEF StagesAreSound

LEMMA StagesInvariant == Spec => [](Inductive /\ StagesAreSound)
<1>1. Init => Inductive /\ StagesAreSound
  BY InitSound, InitStages
<1>2. Inductive /\ StagesAreSound /\ [Next]_vars => (Inductive /\ StagesAreSound)'
  BY NextKeeps, NextKeepsStages
<1> QED
  BY <1>1, <1>2, PTL DEF Spec

\* A case that was never on hold has at each stage the rows of all the stages
\* before it: no restart of run(), no signal and no transition from outside
\* skips one (run, workflow.py:398).
THEOREM StagesAreNotSkipped == Spec => []StagesInOrder
<1>1. StagesAreSound => StagesInOrder
  BY DEF StagesAreSound, StagesAreBacked, RowsBack, StagesInOrder, Documented, Assessed,
     Evaluated, Researched, Located, TakenIn
<1> QED
  BY <1>1, StagesInvariant, PTL

\* A case that was never on hold is submitted only on an attempt that succeeded
\* or by an emergency signal that named the state, and left to its operators only
\* on an attempt that did not succeed, with the fallback's bundle
\* (_run_submission_step, workflow.py:186).
THEOREM SubmissionsFollowAttempts == Spec => []SubmissionsHaveAttempts
<1>1. StagesAreSound => SubmissionsHaveAttempts
  BY DEF StagesAreSound, StagesAreBacked, SubmissionsHaveAttempts, SubmittedOf, SentOf,
     FallbackOf
<1> QED
  BY <1>1, StagesInvariant, PTL

\* A case leaves its hold only by an applied emergency signal: an exit when a
\* review is recorded or an entry when an emergency is, whatever run() and the
\* runs before it still have under way (emergency_hold_exit, workflow.py:1062,
\* and emergency_hold_entry, :1023).
THEOREM HoldsAreLeftBySignal == Spec => HoldIsLeftBySignal
<1> DEFINE Left == \A c \in Case :
                      case_state[c] = "EMERGENCY_HOLD" /\ case_state'[c] # "EMERGENCY_HOLD" =>
                          LeftBySignal(c)
<1>1. Inductive /\ StagesAreSound /\ [Next]_vars => [Left]_vars
  <2> SUFFICES ASSUME Inductive, StagesAreSound, Next, NEW c \in Case,
                      case_state[c] = "EMERGENCY_HOLD", case_state'[c] # "EMERGENCY_HOLD"
               PROVE  LeftBySignal(c)
    OBVIOUS
  <2>1. StateMoves(c)
    BY NextMoves DEF StagesAreSound
  <2> QED
    BY <2>1 DEF StateMoves
<1>2. [Left]_vars => [\A c \in Case :
          case_state[c] = "EMERGENCY_HOLD" /\ case_state'[c] # "EMERGENCY_HOLD" =>
              \E row \in ledger' \ ledger :
                  /\ row.case = c /\ row.verdict = "APPLIED"
                  /\ \/ row.id[3] = <<"emergency_hold", "exit">> /\ reviews # {}
                     \/ row.id[3] = <<"emergency_hold", "entry">> /\ emergencies # {}]_vars
  BY DEF LeftBySignal
<1> HIDE DEF Left
<1> QED
  BY <1>1, <1>2, StagesInvariant, PTL DEF Spec, HoldIsLeftBySignal

-----------------------------------------------------------------------------
(***************************************************************************)
(* The refinement of CaseLifecycle, but for the package.                   *)
(***************************************************************************)
Id == Case \X (0 .. MaxRuns) \X TransitionName \X Nat

\* A request the ledger has not seen is decided.
Decides(id, q, verdict) ==
    /\ id \in Id /\ Recorded(id) = {}
    /\ q.case \in Case /\ EdgeOf(q) \in Edge
    /\ verdict \in Verdicts(id, q)
    /\ ApplyStateTransition(id, q, verdict)

\* A request that is decided moves its case as CaseLifecycle has it.
LEMMA DecisionRefines ==
    ASSUME NEW id, NEW q, NEW verdict, Decides(id, q, verdict)
    PROVE  Lifecycle!DecisionNext
<1>1. PICK set \in FirstRequirementSet(q.case) : verdict = VerdictOf(q, set)
  BY NewVerdicts DEF Decides
<1>2. PICK d : d = [id |-> id, case |-> q.case, from |-> q.from, to |-> q.to,
                    verdict |-> verdict]
  OBVIOUS
<1>3. ledger' = ledger \cup {d} /\ case_state' = CaseStateAfter(q, verdict)
  BY <1>2 DEF Decides, ApplyStateTransition
<1>4. /\ d.id = id /\ d.case = q.case /\ d.from = q.from /\ d.to = q.to
      /\ d.verdict = verdict
  BY <1>2
<1>5. d \in Lifecycle!Decision
  <2>1. verdict \in Verdict
    BY <1>1, VerdictType
  <2>2. q.from \in CaseState /\ q.to \in CaseState
    BY DEF Decides, EdgeOf, Edge
  <2> QED
    BY <1>2, <2>1, <2>2 DEF Decides, Id, Lifecycle!Decision
<1>6. Lifecycle!Undecided(d.id)
  BY <1>4 DEF Decides, Recorded, Lifecycle!Undecided
<1>7. Lifecycle!Apply(d) \/ Lifecycle!Deny(d)
  <2>1. CASE verdict = "APPLIED"
    <3>1. case_state[q.case] = q.from /\ EdgeOf(q) \in LegalEdge
      BY <1>1, <2>1, AppliedIsLegal DEF Decides
    <3> QED
      BY <1>3, <1>4, <2>1, <3>1 DEF CaseStateAfter, EdgeOf, Lifecycle!Apply
  <2>2. CASE verdict # "APPLIED"
    BY <1>3, <1>4, <2>2 DEF CaseStateAfter, Lifecycle!Deny
  <2> QED
    BY <2>1, <2>2
<1>8. Lifecycle!Decide(d)
  BY <1>3, <1>5, <1>6, <1>7 DEF Lifecycle!Decide
<1> QED
  BY <1>3, <1>8 DEF Lifecycle!DecisionNext

\* run() asks with ids of its own run, which are new.
LEMMA RunDecides ==
    ASSUME Inductive, NEW c \in Case, NEW q, q.case = c, script[c] # <<>>,
           NEW ask \in Asks(Head(script[c])), ask[1] = EdgeOf(q),
           NEW verdict \in Verdicts(RequestId(c, runs[c], ask[1], ask[2]), q),
           ApplyStateTransition(RequestId(c, runs[c], ask[1], ask[2]), q, verdict)
    PROVE  Decides(RequestId(c, runs[c], ask[1], ask[2]), q, verdict)
<1> DEFINE id == RequestId(c, runs[c], ask[1], ask[2])
<1>1. ask[1] \in Edge /\ ask[2] \in {1, 2} /\ Recorded(id) = {}
  BY AtStep DEF Inductive, RunsAreSound
<1>2. id \in Id
  BY <1>1 DEF RequestId, Id, TransitionName, Inductive, TypeOK
<1> QED
  BY <1>1, <1>2 DEF Decides

LEMMA MoveCaseDecides ==
    ASSUME Inductive, NEW c \in Case, MoveCase(c)
    PROVE  \E id, q, verdict : Decides(id, q, verdict) /\ q.from # "EMERGENCY_HOLD"
<1> DEFINE step == Head(script[c])
<1>1. script[c] # <<>> /\ step.op = "move"
  BY DEF MoveCase, At
<1>2. PICK q, verdict :
          /\ q = RequestFor(c, step.from, step.to, None)
          /\ verdict \in Verdicts(StepId(c, q), q)
          /\ ApplyStateTransition(StepId(c, q), q, verdict)
  BY DEF MoveCase
<1>3. q.case = c /\ q.from = step.from /\ EdgeOf(q) = <<step.from, step.to>>
  BY <1>2 DEF RequestFor, EdgeOf
<1>4. <<EdgeOf(q), 1>> \in Asks(step) /\ StepId(c, q) = RequestId(c, runs[c], EdgeOf(q), 1)
  BY <1>1, <1>3 DEF Asks, StepId, At
<1>5. step.from # "EMERGENCY_HOLD"
  <2>1. WellFormed(script[c])
    BY <1>1, AtStep DEF Inductive, RunsAreSound
  <2>2. 1 \in 1 .. Len(script[c]) /\ step = script[c][1]
    BY <1>1, <2>1, HeadAndTail DEF WellFormed
  <2> QED
    BY <1>1, <2>1, <2>2 DEF WellFormed
<1>6. Decides(RequestId(c, runs[c], EdgeOf(q), 1), q, verdict)
  BY <1>1, <1>2, <1>3, <1>4, RunDecides
<1> QED
  BY <1>3, <1>5, <1>6

LEMMA ApprovalDecides ==
    ASSUME Inductive, NEW c \in Case, ReviewGate(c) \/ ReviewedMove(c)
    PROVE  \E id, q, verdict : Decides(id, q, verdict) /\ q.from # "EMERGENCY_HOLD"
<1>1. PICK q, verdict :
          /\ q.case = c /\ EdgeOf(q) = Approval /\ q.from # "EMERGENCY_HOLD"
          /\ verdict \in Verdicts(StepId(c, q), q)
          /\ ApplyStateTransition(StepId(c, q), q, verdict)
  BY DEF ReviewGate, ReviewedMove, RequestFor, EdgeOf, Approval
<1>2. script[c] # <<>>
  BY DEF ReviewGate, ReviewedMove, At
<1>3. CASE Head(script[c]).op = "gate"
  <2>1. /\ <<Approval, 1>> \in Asks(Head(script[c]))
        /\ StepId(c, q) = RequestId(c, runs[c], Approval, 1)
    BY <1>1, <1>2, <1>3 DEF Asks, StepId, At
  <2>2. Decides(RequestId(c, runs[c], Approval, 1), q, verdict)
    BY <1>1, <1>2, <2>1, RunDecides
  <2> QED
    BY <1>1, <2>2
<1>4. CASE Head(script[c]).op = "reviewed_gate"
  <2>1. /\ <<Approval, 2>> \in Asks(Head(script[c]))
        /\ StepId(c, q) = RequestId(c, runs[c], Approval, 2)
    BY <1>1, <1>2, <1>4 DEF Asks, StepId, At
  <2>2. Decides(RequestId(c, runs[c], Approval, 2), q, verdict)
    BY <1>1, <1>2, <2>1, RunDecides
  <2> QED
    BY <1>1, <2>2
<1> QED
  BY <1>3, <1>4 DEF ReviewGate, ReviewedMove, At

\* A handler numbers its attempts, and no other has its number.
LEMMA EmergencyDecides ==
    ASSUME Inductive, NEW h \in HandlerSlot, EmergencyTransition(h)
    PROVE  \E id, q, verdict : Decides(id, q, verdict) /\ q.to = handlers[h].target
<1> DEFINE m == handlers[h]
           id == HandlerId(m)
<1>1. PICK q, verdict :
          /\ q = RequestFor(m.case, m.from, m.target, None)
          /\ verdict \in Verdicts(id, q)
          /\ ApplyStateTransition(id, q, verdict)
  BY DEF EmergencyTransition
<1>2. /\ m.step = "transition" /\ m.case \in Case /\ m.run \in Run
      /\ m.kind \in {"entry", "exit"} /\ m.attempt \in Nat
      /\ m.from \in CaseState /\ m.target \in CaseState
  BY HandlerShape DEF EmergencyTransition, Inductive
<1>3. Recorded(id) = {}
  BY <1>2 DEF Inductive, RunsAreSound, HandlersAreFresh
<1>4. id \in Id
  <2>1. m.run \in 0 .. MaxRuns
    BY <1>2, RunAssumption DEF Run
  <2>2. <<"emergency_hold", m.kind>> \in TransitionName
    BY <1>2 DEF TransitionName
  <2> QED
    BY <1>2, <2>1, <2>2 DEF HandlerId, RequestId, Id
<1>5. q.case \in Case /\ EdgeOf(q) \in Edge
  BY <1>1, <1>2 DEF RequestFor, EdgeOf, Edge
<1> HIDE DEF id
<1>6. Decides(id, q, verdict)
  BY <1>1, <1>3, <1>4, <1>5 DEF Decides
<1>7. q.to = m.target
  BY <1>1 DEF RequestFor
<1> QED
  BY <1>6, <1>7

LEMMA ExternalDecides ==
    ASSUME Inductive, NEW c \in Case, NEW e \in ExternalEdge, ExternalTransition(c, e)
    PROVE  \E id, q, verdict : Decides(id, q, verdict) /\ q.from # "EMERGENCY_HOLD"
<1> DEFINE id == RequestId(c, runs[c], e, 1)
<1>1. PICK q, verdict :
          /\ q = RequestFor(c, e[1], e[2], None) /\ Recorded(id) = {}
          /\ verdict \in Verdicts(id, q)
          /\ ApplyStateTransition(id, q, verdict)
  BY DEF ExternalTransition
<1>2. e \in Edge /\ e = <<e[1], e[2]>>
  BY DEF ExternalEdge, Edge, CaseState
<1>3. q.case \in Case /\ EdgeOf(q) \in Edge /\ q.from # "EMERGENCY_HOLD"
  BY <1>1, <1>2 DEF RequestFor, EdgeOf, ExternalEdge
<1>4. id \in Id
  BY <1>2 DEF RequestId, Id, TransitionName, Inductive, TypeOK
<1>5. Decides(id, q, verdict)
  BY <1>1, <1>3, <1>4 DEF Decides
<1> QED
  BY <1>3, <1>5

\* What a step does to the state and the ledger: nothing, a creation, a
\* decision, or the package's own move.
LEMMA NextRefines ==
    ASSUME Inductive, Next
    PROVE  \/ Lifecycle!DecisionNext
           \/ \E c \in Case : CompletedByPackage(c)
           \/ UNCHANGED <<case_state, ledger>>
<1>1. ASSUME NEW c \in Case, RunStep(c)
      PROVE  \/ Lifecycle!DecisionNext
             \/ CompletedByPackage(c)
             \/ UNCHANGED <<case_state, ledger>>
  <2>1. CASE EnsureCase(c)
    BY <2>1 DEF EnsureCase, Exists, tableVars, Lifecycle!Create, Lifecycle!InitialState,
       Lifecycle!DecisionNext
  <2>2. CASE PersistPackage(c)
    BY <2>2 DEF PersistPackage, CompletedByPackage, Inductive, TypeOK
  <2>3. CASE FetchSnapshot(c) \/ PersistRows(c) \/ RecheckState(c) \/ TakeReview(c)
             \/ SubmitPackage(c) \/ Complete(c)
    BY <2>3 DEF FetchSnapshot, PersistRows, RecheckState, TakeReview, SubmitPackage,
       Complete, recordVars, tableVars
  <2> QED
    BY <1>1, <2>1, <2>2, <2>3, MoveCaseDecides, ApprovalDecides, DecisionRefines DEF RunStep
<1>2. ASSUME NEW h \in HandlerSlot, HandlerStep(h)
      PROVE  Lifecycle!DecisionNext \/ UNCHANGED <<case_state, ledger>>
  <2>1. CASE RejectSignal(h) \/ AcceptEntry(h) \/ SnapshotEntry(h) \/ AcceptExit(h)
             \/ DropHandler(h)
    BY <2>1 DEF RejectSignal, AcceptEntry, SnapshotEntry, AcceptExit, DropHandler,
       recordVars, tableVars
  <2> QED
    BY <1>2, <2>1, EmergencyDecides, DecisionRefines DEF HandlerStep
<1>3. CASE Records
  <2>1. ASSUME NEW c \in Case, CreateCase(c)
        PROVE  Lifecycle!DecisionNext
    BY <1>3, <2>1 DEF Records, CreateCase, Exists, tableVars, Lifecycle!Create,
       Lifecycle!InitialState, Lifecycle!DecisionNext
  <2> QED
    BY <1>3, <2>1 DEF Records, CreateContradiction, ResolveContradiction, Tick, tableVars
<1> QED
  BY <1>1, <1>2, <1>3, ExternalDecides, DecisionRefines
     DEF Next, StartWorkflow, CliSignalReview, EmergencyHoldEntry, EmergencyHoldExit,
         TakeSignal, CreateReviewDecision, RecordReview, SendReviewSignal, SignalFailed,
         DeclareEmergency, recordVars, tableVars

\* Whatever runs, restarts, signals and handlers do at a time, no state of a case
\* is written but by its creation, by one decision that is recorded with it under
\* an id of its own and leads along an edge of the graph, or by the package
\* activity (_apply_transition, workflow.py:116; activities_impl.py:1979).
THEOREM MovesAreDecided == Spec => StatesMoveByDecision
<1> DEFINE Moves == Lifecycle!DecisionNext \/ \E c \in Case : CompletedByPackage(c)
<1>1. Init => Lifecycle!Init
  BY DEF Init, RecordsInit, Lifecycle!Init
<1>2. Inductive /\ [Next]_vars => [Moves]_<<case_state, ledger>>
  BY NextRefines DEF vars, recordVars, tableVars
<1> HIDE DEF Moves
<1>3. Spec => Lifecycle!Init /\ [][Moves]_<<case_state, ledger>>
  BY <1>1, <1>2, InductiveInvariant, PTL DEF Spec
<1> QED
  BY <1>3 DEF StatesMoveByDecision, Moves
-----------------------------------------------------------------------------
(***************************************************************************)
(* INV-001, but for holds.                                                 *)
(***************************************************************************)
\* No emergency signal names the approval.
NoSignalApproves == "APPROVED_FOR_SUBMISSION" \notin EntryTarget \cup ExitTarget

Approved(c) == case_state[c] = "APPROVED_FOR_SUBMISSION"

HandlersKeepTargets ==
    \A h \in HandlerSlot :
        handlers[h] # Free => handlers[h].target \in EntryTarget \cup ExitTarget

\* A decision that approves a case found an accepting review of it, or was asked
\* to take it off its hold.
LEMMA ApprovalIsReviewed ==
    ASSUME Inductive, NEW id, NEW q, NEW verdict, Decides(id, q, verdict),
           q.from # "EMERGENCY_HOLD" \/ q.to # "APPROVED_FOR_SUBMISSION",
           NEW c \in Case, Approved(c)', ~Approved(c)
    PROVE  \E v \in reviews : v.case = c /\ v.outcome \in AcceptingOutcome
<1>1. PICK set \in FirstRequirementSet(q.case) : verdict = VerdictOf(q, set)
  BY NewVerdicts DEF Decides
<1>2. case_state' = CaseStateAfter(q, verdict)
  BY DEF Decides, ApplyStateTransition
<1>3. verdict = "APPLIED" /\ q.case = c /\ q.to = "APPROVED_FOR_SUBMISSION"
  BY <1>2 DEF CaseStateAfter, Approved, Inductive, TypeOK, RecordsTypeOK
<1>4. EdgeOf(q) \in LegalEdge
  BY <1>1, <1>3, AppliedIsLegal DEF Decides
<1>5. EdgeOf(q) = Approval
  BY <1>3, <1>4 DEF EdgeOf, LegalEdge, GuardedEdge, UnguardedEdge, HoldEdge, Approval
<1>6. AcceptingReview(q)
  BY <1>1, <1>3, <1>5, AppliedApproval
<1> QED
  BY <1>3, <1>6 DEF AcceptingReview

LEMMA NextKeepsTargets ==
    ASSUME Inductive, HandlersKeepTargets, [Next]_vars
    PROVE  HandlersKeepTargets'
<1>1. ASSUME NEW h \in HandlerSlot, HandlerStep(h)
      PROVE  HandlersKeepTargets'
  <2>1. \A g \in HandlerSlot \ {h} : handlers'[g] = handlers[g]
    BY <1>1 DEF HandlerStep, RejectSignal, AcceptEntry, SnapshotEntry, AcceptExit,
       EmergencyTransition, DropHandler, Inductive, TypeOK
  <2>2. handlers'[h] = Free \/ handlers'[h].target = handlers[h].target
    <3>1. CASE RejectSignal(h) \/ EmergencyTransition(h) \/ DropHandler(h)
      BY <3>1 DEF RejectSignal, EmergencyTransition, DropHandler, Inductive, TypeOK
    <3>2. CASE AcceptEntry(h)
      <4>1. handlers[h] \in SignalTaken("validate", {"entry", "exit"})
        BY <3>2 DEF AcceptEntry, Inductive, TypeOK, Handler, SignalTaken, Free
      <4> QED
        BY <3>2, <4>1 DEF AcceptEntry, Inductive, TypeOK, SignalTaken
    <3>3. CASE SnapshotEntry(h) \/ AcceptExit(h)
      BY <3>3 DEF SnapshotEntry, AcceptExit, Transiting, Inductive, TypeOK
    <3> QED
      BY <1>1, <3>1, <3>2, <3>3 DEF HandlerStep
  <2>3. handlers[h] # Free
    BY <1>1 DEF HandlerStep, RejectSignal, AcceptEntry, SnapshotEntry, AcceptExit,
       EmergencyTransition, DropHandler, Free
  <2> QED
    BY <2>1, <2>2, <2>3 DEF HandlersKeepTargets
<1>2. ASSUME NEW h \in HandlerSlot, NEW c \in Case,
             EmergencyHoldEntry(h, c) \/ EmergencyHoldExit(h, c)
      PROVE  HandlersKeepTargets'
  <2>1. PICK kind, ref, target :
            target \in EntryTarget \cup ExitTarget /\ TakeSignal(h, c, kind, ref, target)
    BY <1>2 DEF EmergencyHoldEntry, EmergencyHoldExit
  <2>2. \A g \in HandlerSlot :
            handlers'[g] = handlers[g] \/ handlers'[g].target = target
    BY <2>1 DEF TakeSignal, Inductive, TypeOK
  <2> QED
    BY <2>1, <2>2 DEF HandlersKeepTargets
<1>3. CASE UNCHANGED handlers
  BY <1>3 DEF HandlersKeepTargets
<1>4. ASSUME NEW c \in Case, RunStep(c)
      PROVE  UNCHANGED handlers
  BY <1>4 DEF RunStep, EnsureCase, FetchSnapshot, PersistRows, MoveCase, RecheckState,
     ReviewGate, TakeReview, ReviewedMove, PersistPackage, SubmitPackage, Complete,
     TransitionFrame
<1> QED
  BY <1>1, <1>2, <1>3, <1>4
     DEF Next, StartWorkflow, CliSignalReview, CreateReviewDecision, SendReviewSignal,
         SignalFailed, DeclareEmergency, ExternalTransition, TransitionFrame, Records,
         workflowVars, vars

\* A step approves a case on an accepting review of it only.
LEMMA NextApproves ==
    ASSUME NoSignalApproves, Inductive, HandlersKeepTargets, Next,
           NEW c \in Case, Approved(c)', ~Approved(c)
    PROVE  \E v \in reviews : v.case = c /\ v.outcome \in AcceptingOutcome
<1> DEFINE Accepted == \E v \in reviews : v.case = c /\ v.outcome \in AcceptingOutcome
<1>0. case_state \in [Case -> CaseState \cup {"ABSENT"}] /\ case_state'[c] # case_state[c]
  BY DEF Approved, Inductive, TypeOK, RecordsTypeOK
<1>1. ASSUME NEW d \in Case, RunStep(d)
      PROVE  Accepted
  <2>1. ~EnsureCase(d) /\ ~PersistPackage(d)
    BY <1>0 DEF EnsureCase, PersistPackage, Approved
  <2>2. ~(FetchSnapshot(d) \/ PersistRows(d) \/ RecheckState(d) \/ TakeReview(d)
             \/ SubmitPackage(d) \/ Complete(d))
    BY <1>0 DEF FetchSnapshot, PersistRows, RecheckState, TakeReview, SubmitPackage,
       Complete, recordVars
  <2> QED
    BY <1>1, <2>1, <2>2, MoveCaseDecides, ApprovalDecides, ApprovalIsReviewed DEF RunStep
<1>2. ASSUME NEW h \in HandlerSlot, HandlerStep(h)
      PROVE  Accepted
  <2>1. ~(RejectSignal(h) \/ AcceptEntry(h) \/ SnapshotEntry(h) \/ AcceptExit(h)
             \/ DropHandler(h))
    BY <1>0 DEF RejectSignal, AcceptEntry, SnapshotEntry, AcceptExit, DropHandler,
       recordVars
  <2>2. EmergencyTransition(h)
    BY <1>2, <2>1 DEF HandlerStep
  <2>3. handlers[h].target # "APPROVED_FOR_SUBMISSION"
    BY <2>2 DEF EmergencyTransition, Free, HandlersKeepTargets, NoSignalApproves
  <2> QED
    BY <2>2, <2>3, EmergencyDecides, ApprovalIsReviewed
<1>3. ASSUME NEW d \in Case, NEW e \in ExternalEdge, ExternalTransition(d, e)
      PROVE  Accepted
  BY <1>3, ExternalDecides, ApprovalIsReviewed
<1>4. ~Records
  BY <1>0 DEF Records, CreateCase, CreateContradiction, ResolveContradiction, Tick, Approved
<1> QED
  BY <1>0, <1>1, <1>2, <1>3, <1>4
     DEF Next, StartWorkflow, CliSignalReview, EmergencyHoldEntry, EmergencyHoldExit,
         TakeSignal, CreateReviewDecision, RecordReview, SendReviewSignal, SignalFailed,
         DeclareEmergency, recordVars

\* INV-001 holds of everything but the hold: while no emergency signal names the
\* approval, a case is approved only under an accepting review of its own,
\* however its runs restart and whatever signals are lost, early or repeated
\* (apply_state_transition, activities_impl.py:1155).
THEOREM ApprovalsNeedReviews ==
    ASSUME NoSignalApproves
    PROVE  Spec => []ApprovedCasesAreReviewed
<1> DEFINE Sound == Inductive /\ HandlersKeepTargets /\ ApprovedCasesAreReviewed
<1>1. Init => Sound
  <2>1. Init => HandlersKeepTargets
    BY DEF Init, HandlersKeepTargets
  <2>2. Init => ApprovedCasesAreReviewed
    BY DEF Init, RecordsInit, ApprovedCasesAreReviewed
  <2> QED
    BY <2>1, <2>2, InitSound
<1>2. Sound /\ [Next]_vars => Sound'
  <2> SUFFICES ASSUME Sound, [Next]_vars
               PROVE  ApprovedCasesAreReviewed'
    BY NextKeeps, NextKeepsTargets
  <2>1. reviews \subseteq reviews'
    BY StepKeepsRows DEF Kept
  <2>2. ASSUME NEW c \in Case, Approved(c)'
        PROVE  \E v \in reviews : v.case = c /\ v.outcome \in AcceptingOutcome
    <3>1. CASE Approved(c)
      BY <3>1 DEF Approved, ApprovedCasesAreReviewed
    <3>2. CASE ~Approved(c)
      <4>1. Next
        BY <2>2, <3>2 DEF Approved, vars, recordVars
      <4> QED
        BY <2>2, <3>2, <4>1, NextApproves
    <3> QED
      BY <3>1, <3>2
  <2> QED
    BY <2>1, <2>2 DEF ApprovedCasesAreReviewed, Approved
<1> QED
  BY <1>1, <1>2, PTL DEF Spec
=============================================================================
