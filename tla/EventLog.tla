------------------------------ MODULE EventLog ------------------------------
(***************************************************************************)
(* What ingest_external_status_event and the activities behind it promise, *)
(* with no races, signals, runs or retries in sight: the first request of  *)
(* an event id says for good what happened; every request of that id is    *)
(* answered with it; and an event somebody was answered with leaves one    *)
(* record at most, the one its status calls for.                           *)
(*                                                                         *)
(* StatusEvents is shown to implement this specification.                  *)
(***************************************************************************)
CONSTANTS
    Request,      \* requests
    Ask,          \* what they may ask to be stored
    AttemptCase,  \* the case of an attempt
    KindOf(_),    \* the kind of record a status calls for, or None
    None

VARIABLES
    asked,     \* per request: what it asks
    answered,  \* per request: the event it is answered with
    events,    \* the events
    records    \* the records

vars == <<asked, answered, events, records>>

Init ==
    /\ asked = [r \in Request |-> None]
    /\ answered = [r \in Request |-> None]
    /\ events = {}
    /\ records = {}

Post(r) ==
    /\ asked[r] = None
    /\ \E ask \in Ask : asked' = [asked EXCEPT ![r] = ask]
    /\ UNCHANGED <<answered, events, records>>

\* The answer is the event of that id, or the request's own when there is none.
Ingest(r) ==
    /\ asked[r] # None
    /\ answered[r] = None
    /\ \E e \in events' :
          /\ e.event = asked[r].event
          /\ answered' = [answered EXCEPT ![r] = e]
    /\ \/ UNCHANGED events
       \/ /\ ~\E e \in events : e.event = asked[r].event
          /\ AttemptCase[asked[r].attempt] = asked[r].case
          /\ asked[r].status # None
          /\ events' = events \cup {asked[r]}
    /\ UNCHANGED <<asked, records>>

RecordFor(e) ==
    [kind |-> KindOf(e.status), event |-> e.event, case |-> e.case,
     attempt |-> e.attempt]

RecordEvent(e) ==
    /\ \E r \in Request : answered[r] = e
    /\ KindOf(e.status) # None
    /\ ~\E rec \in records : rec.event = e.event
    /\ records' = records \cup {RecordFor(e)}
    /\ UNCHANGED <<asked, answered, events>>

Next ==
    \/ \E r \in Request : Post(r) \/ Ingest(r)
    \/ \E e \in events : RecordEvent(e)

Spec == Init /\ [][Next]_vars
=============================================================================
