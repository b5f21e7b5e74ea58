------------------------ MODULE StatusEventsProofs ------------------------
(***************************************************************************)
(* Theorems about StatusEvents: whatever requests race, die or come again, *)
(* and whichever runs take their signals, an event is stored once and for  *)
(* good, all are answered with it, and its record is its own.              *)
(***************************************************************************)
EXTENDS StatusEvents, TLAPS

\* Stored events are alone under their id and of an attempt of their case.
EventsAreSound ==
    \A e \in events :
        /\ AttemptCase[e.attempt] = e.case
        /\ \A f \in events : e.event = f.event => e = f

\* What a request may come to store has passed the checks.
ServedAsksAreAcceptable ==
    \A r \in Request : request[r].step \in Serving => Acceptable(request[r].ask)

\* A signal is one of a request that was answered, and an activity at work one of
\* an event that calls for a record.
HandlersServeAnswers ==
    \A r \in Request :
        /\ handler[r].step \in Working \cup {"buffered"} => request[r].step = "answered"
        /\ handler[r].step \in Working => KindOf(request[r].answer.status) # None

Inductive ==
    /\ TypeOK
    /\ EventsAreSound
    /\ ServedAsksAreAcceptable
    /\ AnswersAreStored
    /\ HandlersServeAnswers
    /\ RecordsMatchEvents

-----------------------------------------------------------------------------
\* A status calls for one kind of record or for none.
LEMMA KindType ==
    ASSUME NEW s
    PROVE  KindOf(s) \in Kind \cup {None}
BY DEF KindOf, Kind

\* What passes the checks can be stored.
LEMMA AcceptableRow ==
    ASSUME NEW ask \in Ask, Acceptable(ask)
    PROVE  ask \in EventRow /\ AttemptCase[ask.attempt] = ask.case
BY AskAssumption DEF Acceptable, EventRow

\* Before anything happens.
LEMMA InitInductive == Init => Inductive
BY BoundAssumption
DEF Init, Inductive, TypeOK, EventsAreSound, ServedAsksAreAcceptable, AnswersAreStored,
    HandlersServeAnswers, RecordsMatchEvents, NoRequest, NoHandler, RequestState,
    HandlerState, Serving, Working

\* A request that is told to go on keeps its form.
LEMMA GoOnType ==
    ASSUME TypeOK, NEW r \in Request, request[r] # NoRequest,
           NEW step \in Serving \cup {"refused", "answered", "dead"}, GoOn(r, step)
    PROVE  /\ request' \in [Request -> RequestState]
           /\ request'[r].step = step
           /\ request'[r].ask = request[r].ask
           /\ request'[r].answer = request[r].answer
           /\ \A q \in Request \ {r} : request'[q] = request[q]
BY DEF GoOn, TypeOK, RequestState

\* So does one that is given its answer.
LEMMA AnswerType ==
    ASSUME TypeOK, NEW r \in Request, request[r] # NoRequest,
           NEW row \in EventRow, Answer(r, row)
    PROVE  /\ request' \in [Request -> RequestState]
           /\ request'[r].step = "signal"
           /\ request'[r].ask = request[r].ask
           /\ request'[r].answer = row
           /\ \A q \in Request \ {r} : request'[q] = request[q]
BY DEF Answer, TypeOK, RequestState, Serving

\* And a handler that takes a step.
LEMMA StepType ==
    ASSUME TypeOK, NEW r \in Request,
           NEW step \in Working \cup {"done", "lost"}, Step(r, step)
    PROVE  /\ handler' \in [Request -> HandlerState]
           /\ handler'[r].step = step
           /\ \A q \in Request \ {r} : handler'[q] = handler[q]
BY DEF Step, TypeOK, HandlerState

-----------------------------------------------------------------------------
(***************************************************************************)
(* The requests.                                                           *)
(***************************************************************************)
\* A new request has no handler yet, for a handler is at work for answered ones.
LEMMA PostPreserves ==
    ASSUME Inductive, NEW r \in Request, Post(r)
    PROVE  Inductive'
<1> USE DEF Inductive
<1>1. PICK ask \in Ask : request' = [request EXCEPT ![r] =
              [step |-> IF Acceptable(ask) THEN "find" ELSE "refused", ask |-> ask,
               answer |-> None]]
  BY DEF Post
<1>2. request[r].step = "none"
  BY DEF Post, NoRequest
<1>3. TypeOK'
  BY <1>1 DEF Post, TypeOK, RequestState, Serving, runVars, tableVars
<1>4. request'[r].step \in {"find", "refused"} /\ \A q \in Request \ {r} : request'[q] = request[q]
  BY <1>1 DEF TypeOK
<1>5. ServedAsksAreAcceptable'
  BY <1>1, <1>4 DEF ServedAsksAreAcceptable, Serving, Acceptable, TypeOK
<1>6. AnswersAreStored'
  BY <1>4 DEF AnswersAreStored, Post, tableVars
<1>7. HandlersServeAnswers'
  BY <1>2, <1>4 DEF HandlersServeAnswers, Post
<1> QED
  BY <1>3, <1>5, <1>6, <1>7
  DEF Post, EventsAreSound, RecordsMatchEvents, tableVars

\* A request goes on, or ends, without an answer and without writing.
LEMMA GoOnPreserves ==
    ASSUME Inductive, NEW r \in Request, request[r].step \in Serving,
           NEW step \in {"insert", "reload", "dead"}, GoOn(r, step),
           failures' \in Nat, UNCHANGED <<tableVars, handler, runVars>>
    PROVE  Inductive'
<1> USE DEF Inductive
<1>1. request[r] # NoRequest
  BY DEF NoRequest, Serving
<1>2. /\ request' \in [Request -> RequestState]
      /\ request'[r].step = step
      /\ request'[r].ask = request[r].ask
      /\ \A q \in Request \ {r} : request'[q] = request[q]
  BY <1>1, GoOnType DEF Serving
<1>3. TypeOK'
  BY <1>2 DEF TypeOK, tableVars, runVars
<1>4. ServedAsksAreAcceptable'
  BY <1>2 DEF ServedAsksAreAcceptable, Acceptable
<1>5. AnswersAreStored'
  BY <1>2 DEF AnswersAreStored, tableVars
<1>6. HandlersServeAnswers'
  BY <1>2 DEF HandlersServeAnswers, Serving
<1> QED
  BY <1>3, <1>4, <1>5, <1>6 DEF EventsAreSound, RecordsMatchEvents, tableVars

\* A request is given the stored row of its id.
LEMMA AnswerPreserves ==
    ASSUME Inductive, NEW r \in Request, request[r].step \in Serving,
           NEW row \in Stored(request[r].ask.event), Answer(r, row),
           UNCHANGED <<tableVars, handler, runVars, failures>>
    PROVE  Inductive'
<1> USE DEF Inductive
<1>1. request[r] # NoRequest
  BY DEF NoRequest, Serving
<1>2. row \in events /\ row.event = request[r].ask.event /\ row \in EventRow
  BY DEF Stored, TypeOK
<1>3. /\ request' \in [Request -> RequestState]
      /\ request'[r].step = "signal"
      /\ request'[r].ask = request[r].ask
      /\ request'[r].answer = row
      /\ \A q \in Request \ {r} : request'[q] = request[q]
  BY <1>1, <1>2, AnswerType
<1>4. TypeOK'
  BY <1>3 DEF TypeOK, tableVars, runVars
<1>5. ServedAsksAreAcceptable'
  BY <1>3 DEF ServedAsksAreAcceptable, Acceptable
<1>6. AnswersAreStored'
  BY <1>2, <1>3 DEF AnswersAreStored, tableVars
<1>7. HandlersServeAnswers'
  BY <1>3 DEF HandlersServeAnswers, Serving
<1> QED
  BY <1>4, <1>5, <1>6, <1>7 DEF EventsAreSound, RecordsMatchEvents, tableVars

\* A new row: its id was free, so it is alone under it.
LEMMA NewRowPreserves ==
    ASSUME Inductive, NEW r \in Request, request[r].step = "insert",
           Stored(request[r].ask.event) = {},
           events' = events \cup {request[r].ask}, Answer(r, request[r].ask),
           UNCHANGED <<records, handler, runVars, failures>>
    PROVE  Inductive'
<1> USE DEF Inductive
<1>1. request[r] # NoRequest /\ request[r].step \in Serving
  BY DEF NoRequest, Serving
<1>2. request[r].ask \in Ask
  BY <1>1 DEF TypeOK, RequestState
<1>3. request[r].ask \in EventRow /\ AttemptCase[request[r].ask.attempt] = request[r].ask.case
  BY <1>1, <1>2, AcceptableRow DEF ServedAsksAreAcceptable
<1>4. /\ request' \in [Request -> RequestState]
      /\ request'[r].step = "signal"
      /\ request'[r].ask = request[r].ask
      /\ request'[r].answer = request[r].ask
      /\ \A q \in Request \ {r} : request'[q] = request[q]
  BY <1>1, <1>3, AnswerType
<1>5. TypeOK'
  BY <1>3, <1>4 DEF TypeOK, runVars
<1>6. EventsAreSound'
  BY <1>3 DEF EventsAreSound, Stored
<1>7. ServedAsksAreAcceptable'
  BY <1>1, <1>4 DEF ServedAsksAreAcceptable, Acceptable
<1>8. AnswersAreStored'
  BY <1>4 DEF AnswersAreStored
<1>9. HandlersServeAnswers'
  BY <1>4, <1>1 DEF HandlersServeAnswers, Serving
<1>10. RecordsMatchEvents'
  BY DEF RecordsMatchEvents
<1> QED
  BY <1>5, <1>6, <1>7, <1>8, <1>9, <1>10

\* The caller is answered; a handler is new, or as it was.
LEMMA AnsweredPreserves ==
    ASSUME Inductive, NEW r \in Request, request[r].step = "signal",
           GoOn(r, "answered"), handler' \in [Request -> HandlerState],
           \A q \in Request \ {r} : handler'[q] = handler[q],
           handler'[r].step \in Working => KindOf(request[r].answer.status) # None,
           failures' \in Nat, UNCHANGED <<tableVars, runVars>>
    PROVE  Inductive'
<1> USE DEF Inductive
<1>1. request[r] # NoRequest
  BY DEF NoRequest
<1>2. /\ request' \in [Request -> RequestState]
      /\ request'[r].step = "answered"
      /\ request'[r].ask = request[r].ask
      /\ request'[r].answer = request[r].answer
      /\ \A q \in Request \ {r} : request'[q] = request[q]
  BY <1>1, GoOnType
<1>3. TypeOK'
  BY <1>2 DEF TypeOK, tableVars, runVars
<1>4. ServedAsksAreAcceptable'
  BY <1>2 DEF ServedAsksAreAcceptable, Serving, Acceptable
<1>5. AnswersAreStored'
  BY <1>2 DEF AnswersAreStored, tableVars
<1>6. HandlersServeAnswers'
  BY <1>2 DEF HandlersServeAnswers
<1> QED
  BY <1>3, <1>4, <1>5, <1>6 DEF EventsAreSound, RecordsMatchEvents, tableVars

\* Every step of a request.
LEMMA RequestPreserves ==
    ASSUME Inductive, NEW r \in Request,
           Serve(r) \/ LoseSignal(r) \/ FailRequest(r)
    PROVE  Inductive'
<1>1. CASE FindEvent(r)
  <2>1. failures' \in Nat /\ request[r].step \in Serving
    BY <1>1 DEF FindEvent, Inductive, TypeOK, Serving
  <2>2. CASE Stored(request[r].ask.event) = {}
    BY <1>1, <2>1, <2>2, GoOnPreserves DEF FindEvent
  <2>3. CASE Stored(request[r].ask.event) # {}
    BY <1>1, <2>1, <2>3, AnswerPreserves DEF FindEvent
  <2> QED
    BY <2>2, <2>3
<1>2. CASE InsertEvent(r)
  <2>1. failures' \in Nat /\ request[r].step \in Serving
    BY <1>2 DEF InsertEvent, Inductive, TypeOK, Serving
  <2>2. CASE Stored(request[r].ask.event) = {}
    BY <1>2, <2>2, NewRowPreserves DEF InsertEvent
  <2>3. CASE Stored(request[r].ask.event) # {}
    BY <1>2, <2>1, <2>3, GoOnPreserves DEF InsertEvent, tableVars
  <2> QED
    BY <2>2, <2>3
<1>3. CASE ReloadEvent(r)
  <2>1. request[r].step \in Serving
    BY <1>3 DEF ReloadEvent, Serving
  <2> QED
    BY <1>3, <2>1, AnswerPreserves DEF ReloadEvent
<1>4. CASE SendSignal(r)
  <2>1. handler[r] \in HandlerState /\ runs[CaseOf(r)] \in Nat
    <3>1. request[r].ask \in Ask
      BY <1>4 DEF SendSignal, Inductive, TypeOK, RequestState, NoRequest
    <3> QED
      BY <3>1, AskAssumption DEF Inductive, TypeOK, CaseOf
  <2>2. /\ handler' \in [Request -> HandlerState]
        /\ handler'[r].step = "buffered"
        /\ \A q \in Request \ {r} : handler'[q] = handler[q]
    BY <1>4, <2>1 DEF SendSignal, HandlerState, Inductive, TypeOK, Working
  <2> QED
    BY <1>4, <2>2, AnsweredPreserves DEF SendSignal, Inductive, TypeOK, Working
<1>5. CASE MissRun(r) \/ LoseSignal(r)
  <2>1. ~(handler[r].step \in Working)
    BY <1>5 DEF MissRun, LoseSignal, Inductive, HandlersServeAnswers
  <2> QED
    BY <1>5, <2>1, AnsweredPreserves DEF MissRun, LoseSignal, Inductive, TypeOK, tableVars
<1>6. CASE FailRequest(r)
  BY <1>6, GoOnPreserves DEF FailRequest, Inductive, TypeOK
<1> QED
  BY <1>1, <1>2, <1>3, <1>4, <1>5, <1>6 DEF Serve

-----------------------------------------------------------------------------
(***************************************************************************)
(* The activities and the runs.                                            *)
(***************************************************************************)
\* A handler goes on, or ends, without writing.
LEMMA StepPreserves ==
    ASSUME Inductive, NEW r \in Request, handler[r].step \in Working \cup {"buffered"},
           NEW step \in Working \cup {"done", "lost"}, Step(r, step),
           step \in Working => KindOf(request[r].answer.status) # None,
           failures' \in Nat, UNCHANGED <<tableVars, request, runVars>>
    PROVE  Inductive'
<1> USE DEF Inductive
<1>1. /\ handler' \in [Request -> HandlerState]
      /\ handler'[r].step = step
      /\ \A q \in Request \ {r} : handler'[q] = handler[q]
  BY StepType
<1>2. TypeOK'
  BY <1>1 DEF TypeOK, tableVars, runVars
<1>3. HandlersServeAnswers'
  BY <1>1 DEF HandlersServeAnswers
<1> QED
  BY <1>2, <1>3
  DEF EventsAreSound, ServedAsksAreAcceptable, Acceptable, AnswersAreStored,
      RecordsMatchEvents, tableVars

\* The row an activity writes is the record of the event its request stored.
LEMMA RecordPreserves ==
    ASSUME Inductive, NEW r \in Request, handler[r].step = "insert",
           records' = records \cup {RecordOf(r)}, Step(r, "answer"),
           UNCHANGED <<events, request, runVars, failures>>
    PROVE  Inductive'
<1> USE DEF Inductive
<1>1. /\ handler' \in [Request -> HandlerState]
      /\ handler'[r].step = "answer"
      /\ \A q \in Request \ {r} : handler'[q] = handler[q]
  BY StepType DEF Working
<1>2. request[r].answer \in events /\ KindOf(request[r].answer.status) # None
  BY DEF HandlersServeAnswers, AnswersAreStored, Working
<1>3. RecordOf(r) \in Record
  BY <1>2, KindType DEF RecordOf, Record, Signal, TypeOK, EventRow
<1>4. TypeOK'
  BY <1>1, <1>3 DEF TypeOK, runVars
<1>5. HandlersServeAnswers'
  BY <1>1 DEF HandlersServeAnswers, Working
<1>6. RecordsMatchEvents'
  BY <1>2 DEF RecordsMatchEvents, RecordOf, Signal, EventsAreSound
<1> QED
  BY <1>4, <1>5, <1>6
  DEF EventsAreSound, ServedAsksAreAcceptable, Acceptable, AnswersAreStored

\* Every step of a handler: while its activity is at work its event calls for a
\* record.
LEMMA WorkPreserves ==
    ASSUME Inductive, NEW r \in Request, HandleSignal(r) \/ Work(r) \/ Raise(r)
    PROVE  Inductive'
<1>0. handler[r].step \in Working => KindOf(request[r].answer.status) # None
  BY DEF Inductive, HandlersServeAnswers
<1>1. CASE FindRecord(r)
  BY <1>0, <1>1, StepPreserves DEF FindRecord, Working, Inductive, TypeOK
<1>2. CASE InsertRecord(r)
  <2>1. handler[r].step \in Working /\ failures' \in Nat
    BY <1>2 DEF InsertRecord, Working, Inductive, TypeOK
  <2>2. CASE SameId(r) = {}
    BY <1>2, <2>2, RecordPreserves DEF InsertRecord
  <2>3. CASE SameId(r) # {}
    BY <1>0, <1>2, <2>1, <2>3, StepPreserves DEF InsertRecord, Working, tableVars
  <2> QED
    BY <2>2, <2>3
<1>3. CASE ReloadRecord(r)
  BY <1>0, <1>3, StepPreserves DEF ReloadRecord, Working, Inductive, TypeOK
<1>4. CASE Return(r)
  BY <1>0, <1>4, StepPreserves DEF Return, Working, Inductive, TypeOK
<1>5. CASE Raise(r)
  BY <1>0, <1>5, StepPreserves DEF Raise, Working, Inductive, TypeOK
<1>6. CASE HandleSignal(r)
  BY <1>6, StepPreserves DEF HandleSignal, Signal, Working, Inductive, TypeOK
<1> QED
  BY <1>1, <1>2, <1>3, <1>4, <1>5, <1>6 DEF Work

\* A run starts, begins, closes or wedges: nothing the invariant speaks of but its
\* type.
LEMMA RunPreserves ==
    ASSUME Inductive, NEW c \in Case,
           StartRun(c) \/ FirstTask(c) \/ CloseRun(c) \/ WedgeRun(c)
    PROVE  Inductive'
<1>1. TypeOK'
  BY DEF Inductive, TypeOK, StartRun, FirstTask, CloseRun, WedgeRun, tableVars
<1> QED
  BY <1>1
  DEF Inductive, EventsAreSound, ServedAsksAreAcceptable, Acceptable, AnswersAreStored,
      HandlersServeAnswers, RecordsMatchEvents, StartRun, FirstTask, CloseRun, WedgeRun,
      tableVars

-----------------------------------------------------------------------------
(***************************************************************************)
(* The theorems.                                                           *)
(***************************************************************************)
\* The invariant the others follow from.
THEOREM EventsInductive == Spec => []Inductive
<1>1. Inductive /\ [Next]_vars => Inductive'
  <2> SUFFICES ASSUME Inductive, [Next]_vars PROVE Inductive'
    OBVIOUS
  <2>1. CASE \E r \in Request : Post(r)
    BY <2>1, PostPreserves
  <2>2. CASE \E r \in Request : Serve(r) \/ LoseSignal(r) \/ FailRequest(r)
    BY <2>2, RequestPreserves
  <2>3. CASE \E r \in Request : HandleSignal(r) \/ Work(r) \/ Raise(r)
    BY <2>3, WorkPreserves
  <2>4. CASE \E c \in Case : StartRun(c) \/ FirstTask(c) \/ CloseRun(c) \/ WedgeRun(c)
    BY <2>4, RunPreserves
  <2>5. CASE UNCHANGED vars
    BY <2>5
    DEF vars, tableVars, runVars, Inductive, TypeOK, EventsAreSound,
        ServedAsksAreAcceptable, Acceptable, AnswersAreStored, HandlersServeAnswers,
        RecordsMatchEvents
  <2> QED
    BY <2>1, <2>2, <2>3, <2>4, <2>5 DEF Next
<1> QED
  BY InitInductive, <1>1, PTL DEF Spec

\* Requests, handlers, runs and rows are well formed.
THEOREM EventsTypeCorrect == Spec => []TypeOK
BY EventsInductive, PTL DEF Inductive

\* Requests that race for an event id, or repeat it, are answered with the one
\* row stored under it.
THEOREM AnswersStored == Spec => []AnswersAreStored
BY EventsInductive, PTL DEF Inductive

\* A record is the one its event calls for, of that event's case and attempt.
THEOREM RecordsMatch == Spec => []RecordsMatchEvents
BY EventsInductive, PTL DEF Inductive

\* No step of the system changes a stored event or stores another under its id.
THEOREM StoredEventsStand == Spec => EventsStand
<1>1. Inductive /\ Inductive' /\ [Next]_vars
      => [/\ events \subseteq events'
          /\ \A e, f \in events' : e.event = f.event => e = f]_vars
  <2> SUFFICES ASSUME Inductive, Inductive', [Next]_vars
               PROVE  /\ events \subseteq events'
                      /\ \A e, f \in events' : e.event = f.event => e = f
    OBVIOUS
  <2>1. events \subseteq events'
    BY DEF Next, Post, Serve, FindEvent, InsertEvent, ReloadEvent, SendSignal, MissRun,
           LoseSignal, FailRequest, HandleSignal, Work, FindRecord, InsertRecord,
           ReloadRecord, Return, Raise, StartRun, FirstTask, CloseRun, WedgeRun, vars, tableVars
  <2>2. \A e, f \in events' : e.event = f.event => e = f
    BY DEF Inductive, EventsAreSound
  <2> QED
    BY <2>1, <2>2
<1> QED
  BY EventsInductive, <1>1, PTL DEF Spec, EventsStand

-----------------------------------------------------------------------------
(***************************************************************************)
(* Refinement: requests and activities that race, die and are repeated     *)
(* leave what the atomic steps of EventLog would.                          *)
(***************************************************************************)
\* A request that is still being looked up or stored has no answer.
AnswersAreFirst ==
    \A r \in Request : request[r].step \in {"find", "insert", "reload"} =>
        request[r].answer = None

\* How the log sees a request that goes on: not at all.
LEMMA GoOnShows ==
    ASSUME TypeOK, NEW r \in Request, request[r] # NoRequest,
           NEW step \in Serving \cup {"refused", "answered", "dead"}, GoOn(r, step)
    PROVE  Asked' = Asked /\ Answered' = Answered
<1>1. /\ request'[r].step = step
      /\ request'[r].ask = request[r].ask
      /\ request'[r].answer = request[r].answer
      /\ \A q \in Request \ {r} : request'[q] = request[q]
  BY GoOnType
<1>2. request'[r] # NoRequest
  BY <1>1 DEF NoRequest, Serving
<1> QED
  BY <1>1, <1>2 DEF Asked, Answered

\* And one that is answered: what it asked stands, and the answer is new.
LEMMA AnswerShows ==
    ASSUME TypeOK, NEW r \in Request, request[r] # NoRequest,
           NEW row \in EventRow, Answer(r, row)
    PROVE  Asked' = Asked /\ Answered' = [Answered EXCEPT ![r] = row]
<1>1. /\ request'[r].step = "signal"
      /\ request'[r].ask = request[r].ask
      /\ request'[r].answer = row
      /\ \A q \in Request \ {r} : request'[q] = request[q]
  BY AnswerType
<1>2. request'[r] # NoRequest
  BY <1>1 DEF NoRequest
<1> QED
  BY <1>1, <1>2 DEF Asked, Answered

\* A request is answered once.
LEMMA AnswersStayFirst ==
    ASSUME Inductive, AnswersAreFirst, [Next]_vars
    PROVE  AnswersAreFirst'
<1> USE DEF AnswersAreFirst
<1>1. TypeOK
  BY DEF Inductive
<1>2. ASSUME NEW r \in Request, Post(r) PROVE AnswersAreFirst'
  BY <1>1, <1>2 DEF Post, TypeOK
<1>3. ASSUME NEW r \in Request, request[r].step \in Serving,
             NEW step \in {"insert", "reload", "answered", "dead"}, GoOn(r, step),
             step \in {"insert", "reload"} => request[r].step \in {"find", "insert"}
      PROVE  AnswersAreFirst'
  <2>1. request[r] # NoRequest
    BY <1>3 DEF NoRequest, Serving
  <2>2. /\ request'[r].step = step
        /\ request'[r].answer = request[r].answer
        /\ \A q \in Request \ {r} : request'[q] = request[q]
    BY <1>1, <1>3, <2>1, GoOnType DEF Serving
  <2> QED
    BY <1>3, <2>2
<1>4. ASSUME NEW r \in Request, NEW row, Answer(r, row) PROVE AnswersAreFirst'
  BY <1>1, <1>4 DEF Answer, TypeOK, RequestState, NoRequest
<1>5. ASSUME NEW r \in Request, Serve(r) \/ LoseSignal(r) \/ FailRequest(r)
      PROVE  AnswersAreFirst'
  <2>1. CASE FindEvent(r) \/ InsertEvent(r) \/ ReloadEvent(r)
    BY <2>1, <1>3, <1>4 DEF FindEvent, InsertEvent, ReloadEvent, Serving
  <2>2. CASE SendSignal(r) \/ MissRun(r) \/ LoseSignal(r) \/ FailRequest(r)
    BY <2>2, <1>3 DEF SendSignal, MissRun, LoseSignal, FailRequest, Serving
  <2> QED
    BY <1>5, <2>1, <2>2 DEF Serve
<1>6. ASSUME NEW r \in Request, HandleSignal(r) \/ Work(r) \/ Raise(r)
      PROVE  AnswersAreFirst'
  BY <1>6 DEF HandleSignal, Work, FindRecord, InsertRecord, ReloadRecord, Return, Raise
<1>7. ASSUME NEW c \in Case, StartRun(c) \/ FirstTask(c) \/ CloseRun(c) \/ WedgeRun(c)
      PROVE  AnswersAreFirst'
  BY <1>7 DEF StartRun, FirstTask, CloseRun, WedgeRun
<1>8. CASE UNCHANGED vars
  BY <1>8 DEF vars
<1> QED
  BY <1>2, <1>5, <1>6, <1>7, <1>8, Zenon DEF Next

\* Steps that leave the log alone.
LEMMA LogStutters ==
    ASSUME UNCHANGED <<events, records>>, Asked' = Asked, Answered' = Answered
    PROVE  UNCHANGED Log!vars
BY DEF Log!vars

\* A new request.
LEMMA PostRefines ==
    ASSUME Inductive, NEW r \in Request, Post(r)
    PROVE  Log!Next
<1>1. TypeOK /\ request[r] = NoRequest
  BY DEF Inductive, Post
<1>2. PICK ask \in Ask : request' = [request EXCEPT ![r] =
              [step |-> IF Acceptable(ask) THEN "find" ELSE "refused", ask |-> ask,
               answer |-> None]]
  BY DEF Post
<1>3. /\ request'[r] # NoRequest
      /\ request'[r].ask = ask /\ request'[r].answer = None
      /\ \A q \in Request \ {r} : request'[q] = request[q]
  BY <1>1, <1>2 DEF TypeOK, NoRequest
<1>4. Asked[r] = None
  BY <1>1 DEF Asked
<1>5. Asked' = [Asked EXCEPT ![r] = ask]
  BY <1>3 DEF Asked
<1>6. Answered' = Answered
  BY <1>1, <1>3 DEF Answered
<1>7. Log!Post(r)
  BY <1>4, <1>5, <1>6 DEF Post, tableVars, Log!Post
<1> QED
  BY <1>7 DEF Log!Next

\* A request that is answered has had its event ingested: it was there, or is
\* the request's own, which nobody stored before.
LEMMA IngestRefines ==
    ASSUME Inductive, AnswersAreFirst, NEW r \in Request,
           request[r].step \in {"find", "insert", "reload"},
           NEW row \in EventRow, row \in events', row.event = request[r].ask.event,
           Answer(r, row), UNCHANGED records,
           \/ UNCHANGED events
           \/ Stored(row.event) = {} /\ events' = events \cup {request[r].ask}
    PROVE  Log!Next
<1>1. TypeOK /\ request[r] # NoRequest /\ request[r].step \in Serving
  BY DEF Inductive, NoRequest, Serving
<1>2. request[r].ask \in Ask /\ Acceptable(request[r].ask)
  BY <1>1 DEF TypeOK, RequestState, Inductive, ServedAsksAreAcceptable
<1>3. Asked[r] = request[r].ask /\ Answered[r] = None
  BY <1>1 DEF Asked, Answered, AnswersAreFirst
<1>4. Asked[r] # None
  BY <1>2, <1>3, NoneAssumption
<1>5. Asked' = Asked /\ Answered' = [Answered EXCEPT ![r] = row]
  BY <1>1, AnswerShows
<1>6. /\ AttemptCase[Asked[r].attempt] = Asked[r].case
      /\ Asked[r].status # None
  BY <1>2, <1>3 DEF Acceptable
<1>7. \E e \in events' : e.event = Asked[r].event
                         /\ Answered' = [Answered EXCEPT ![r] = e]
  BY <1>3, <1>5
<1>8. \/ UNCHANGED events
      \/ (~\E e \in events : e.event = Asked[r].event) /\ events' = events \cup {Asked[r]}
  BY <1>3 DEF Stored
<1>9. Log!Ingest(r)
  BY <1>3, <1>4, <1>5, <1>6, <1>7, <1>8 DEF Log!Ingest
<1> QED
  BY <1>9 DEF Log!Next

\* Every step of a request is that, or does not show.
LEMMA ServeRefines ==
    ASSUME Inductive, AnswersAreFirst, NEW r \in Request,
           Serve(r) \/ LoseSignal(r) \/ FailRequest(r)
    PROVE  [Log!Next]_(Log!vars)
<1>1. TypeOK
  BY DEF Inductive
<1>2. ASSUME request[r].step \in Serving, NEW step \in {"insert", "reload", "answered", "dead"},
             GoOn(r, step), UNCHANGED tableVars
      PROVE  UNCHANGED Log!vars
  <2>1. request[r] # NoRequest
    BY <1>2 DEF NoRequest, Serving
  <2> QED
    BY <1>1, <1>2, <2>1, GoOnShows, LogStutters DEF tableVars, Serving
<1>3. ASSUME request[r].step \in {"find", "reload"},
             NEW row \in Stored(request[r].ask.event), Answer(r, row), UNCHANGED tableVars
      PROVE  Log!Next
  <2>1. row \in events /\ row.event = request[r].ask.event /\ row \in EventRow
    BY <1>1 DEF Stored, TypeOK
  <2> QED
    BY <1>3, <2>1, IngestRefines DEF tableVars
<1>4. CASE FindEvent(r)
  BY <1>2, <1>3, <1>4 DEF FindEvent, Serving
<1>5. CASE InsertEvent(r)
  <2>1. CASE Stored(request[r].ask.event) # {}
    BY <1>2, <1>5, <2>1 DEF InsertEvent, Serving, tableVars
  <2>2. CASE Stored(request[r].ask.event) = {}
    <3>1. request[r].ask \in EventRow
      BY <1>1, <1>5, AcceptableRow
      DEF InsertEvent, Inductive, ServedAsksAreAcceptable, Serving, TypeOK, RequestState,
          NoRequest
    <3> QED
      BY <1>5, <2>2, <3>1, IngestRefines DEF InsertEvent
  <2> QED
    BY <2>1, <2>2
<1>6. CASE ReloadEvent(r)
  BY <1>3, <1>6 DEF ReloadEvent
<1>7. CASE SendSignal(r) \/ MissRun(r) \/ LoseSignal(r) \/ FailRequest(r)
  BY <1>2, <1>7 DEF SendSignal, MissRun, LoseSignal, FailRequest, Serving
<1> QED
  BY <1>4, <1>5, <1>6, <1>7 DEF Serve

\* The row an activity writes is the first record of an event that its request was
\* answered with: one of another kind would be of another event.
LEMMA WorkRefines ==
    ASSUME Inductive, NEW r \in Request, HandleSignal(r) \/ Work(r) \/ Raise(r)
    PROVE  [Log!Next]_(Log!vars)
<1>1. Asked' = Asked /\ Answered' = Answered /\ UNCHANGED events
  BY DEF HandleSignal, Work, FindRecord, InsertRecord, ReloadRecord, Return, Raise,
         Asked, Answered, tableVars
<1>2. CASE UNCHANGED records
  BY <1>1, <1>2, LogStutters
<1>3. CASE records' # records
  <2> DEFINE e == request[r].answer
  <2>1. /\ handler[r].step = "insert" /\ SameId(r) = {}
        /\ records' = records \cup {RecordOf(r)}
    BY <1>3 DEF HandleSignal, Work, FindRecord, InsertRecord, ReloadRecord, Return,
                Raise, tableVars
  <2>2. request[r].step = "answered" /\ KindOf(e.status) # None
    BY <2>1 DEF Inductive, HandlersServeAnswers, Working
  <2>3. e \in events
    BY <2>2 DEF Inductive, AnswersAreStored
  <2>4. Answered[r] = e
    BY <2>2 DEF Answered, NoRequest
  <2>5. ASSUME NEW rec \in records, rec.event = e.event PROVE FALSE
    <3>1. PICK f \in events : rec.event = f.event /\ rec.kind = KindOf(f.status)
      BY DEF Inductive, RecordsMatchEvents
    <3>2. f = e
      BY <2>3, <2>5, <3>1 DEF Inductive, EventsAreSound
    <3> QED
      BY <2>1, <2>5, <3>1, <3>2 DEF SameId, RecordOf, Signal
  <2>6. RecordOf(r) = Log!RecordFor(e)
    BY DEF RecordOf, Signal, Log!RecordFor
  <2>7. Log!RecordEvent(e)
    BY <1>1, <2>1, <2>2, <2>4, <2>5, <2>6 DEF Log!RecordEvent
  <2> QED
    BY <2>3, <2>7 DEF Log!Next
<1> QED
  BY <1>2, <1>3

\* The API, the signals and the activities keep the promise of the log.
THEOREM EventsRefine == Spec => EventsAreLoggedOnce
<1>1. Init => AnswersAreFirst /\ Log!Init
  BY DEF Init, AnswersAreFirst, NoRequest, Asked, Answered, Log!Init
<1>2. Inductive /\ AnswersAreFirst /\ [Next]_vars => [Log!Next]_(Log!vars)
  <2> SUFFICES ASSUME Inductive, AnswersAreFirst, [Next]_vars
               PROVE  [Log!Next]_(Log!vars)
    OBVIOUS
  <2>1. CASE \E r \in Request : Post(r)
    BY <2>1, PostRefines
  <2>2. CASE \E r \in Request : Serve(r) \/ LoseSignal(r) \/ FailRequest(r)
    BY <2>2, ServeRefines
  <2>3. CASE \E r \in Request : HandleSignal(r) \/ Work(r) \/ Raise(r)
    BY <2>3, WorkRefines
  <2>4. CASE \/ \E c \in Case : StartRun(c) \/ FirstTask(c) \/ CloseRun(c) \/ WedgeRun(c)
             \/ UNCHANGED vars
    <3>1. UNCHANGED <<events, records, request>>
      BY <2>4 DEF StartRun, FirstTask, CloseRun, WedgeRun, vars, tableVars
    <3> QED
      BY <3>1, LogStutters DEF Asked, Answered
  <2> QED
    BY <2>1, <2>2, <2>3, <2>4 DEF Next
<1>3. Inductive /\ AnswersAreFirst /\ [Next]_vars => AnswersAreFirst'
  BY AnswersStayFirst
<1> QED
  BY <1>1, <1>2, <1>3, EventsInductive, PTL DEF Spec, EventsAreLoggedOnce, Log!Spec
=============================================================================
