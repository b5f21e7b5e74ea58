--------------------------- MODULE ReviewDecisions ---------------------------
(***************************************************************************)
(* POST /reviews/decisions (src/sps/api/routes/reviews.py) on several API  *)
(* processes over one database.  The handler is a coroutine that does not  *)
(* await between its first statement and its commit, so a process runs one *)
(* of them at a time up to there; the processes interleave at every        *)
(* statement: two counts for the independence rule, the look-up of the     *)
(* idempotency key, and the commit of the decision, its dissent and its    *)
(* audit event.  The signal sent afterwards is PermitCaseWorkflow's.       *)
(***************************************************************************)
EXTENDS Integers, FiniteSets

CONSTANTS
    Case,        \* the permit cases there are
    DecisionId,  \* review_decisions.decision_id values, chosen by clients
    Key,         \* idempotency keys
    Person,      \* reviewers and subject authors
    Server,      \* API processes
    Posted,      \* bound: the requests clients send, each any number of times
    None,        \* an absent value
    Window,      \* the 90 days the independence rule looks back
    MaxNow       \* bound: the last clock value

ReviewOutcome == {"ACCEPT", "ACCEPT_WITH_DISSENT", "BLOCK"}

\* A scope that release_blockers.py takes for high-risk, or one it does not.
Scope == {"HIGH_RISK", "ROUTINE"}

ReviewRequest ==
    [id : DecisionId, key : Key, case : Case \cup {None}, reviewer : Person,
     author : Person, outcome : ReviewOutcome, scope : Scope]

ASSUME PostedAssumption == Posted \subseteq ReviewRequest
ASSUME ClockAssumption == Window \in Nat /\ MaxNow \in Nat
ASSUME ServerAssumption == IsFiniteSet(Server)

VARIABLES
    reviews,   \* review_decisions
    dissents,  \* dissent_artifacts
    audit,     \* audit_events: the decisions with a review_decision.created
    handling,  \* per process: the handler between its statements
    accepted,  \* requests that were answered with a decision
    judged,    \* history: who judged a stored decision, and on which others
    now        \* the clock behind decision_at

reviewVars == <<reviews, dissents, audit, handling, accepted, judged, now>>

Status == {"PASS", "WARNING", "ESCALATION_REQUIRED"}

Review ==
    [id : DecisionId, key : Key, case : Case, reviewer : Person, author : Person,
     outcome : ReviewOutcome, status : Status, decision_at : Nat]

Dissent ==
    [linked_review : DecisionId, case : Case, scope : Scope]

Idle == [step |-> "idle"]

\* Between two statements: the reviews are counted, the decision is judged,
\* or its key was free.  saw holds the decisions the first count included.
Handling ==
    {Idle}
    \cup [step : {"counted"}, request : ReviewRequest, at : Nat,
          saw : SUBSET DecisionId, total : Nat]
    \cup [step : {"judged", "inserting"}, request : ReviewRequest, at : Nat,
          saw : SUBSET DecisionId, status : Status]

Judgement == [id : DecisionId, server : Server, saw : SUBSET DecisionId]

ReviewInit ==
    /\ reviews = {}
    /\ dissents = {}
    /\ audit = {}
    /\ handling = [s \in Server |-> Idle]
    /\ accepted = {}
    /\ judged = {}
    /\ now = 0

-----------------------------------------------------------------------------
InWindow(at) == {v \in reviews : v.decision_at >= at - Window}

PairInWindow(q, at) ==
    {v \in InWindow(at) : v.reviewer = q.reviewer /\ v.author = q.author}

(***************************************************************************)
(* The share of a reviewer's repeated decisions on an author in all recent *)
(* decisions, the one at hand included: above a half is refused.           *)
(***************************************************************************)
\* Mutant: any share is let through.
IndependenceNeverBlocks(repeated, total) ==
    IF 20 * repeated > 7 * total THEN "ESCALATION_REQUIRED"
    ELSE IF 4 * repeated > total THEN "WARNING"
    ELSE "PASS"

IndependenceStatus(repeated, total) ==
    IF 2 * repeated > total THEN "BLOCKED"
    ELSE IF 20 * repeated > 7 * total THEN "ESCALATION_REQUIRED"
    ELSE IF 4 * repeated > total THEN "WARNING"
    ELSE "PASS"

\* A request of somebody else's work arrives at a process that is free: its
\* time is taken and the decisions of the window are counted.
CountAll(s, q) ==
    /\ handling[s] = Idle
    /\ q.reviewer # q.author
    /\ handling' = [handling EXCEPT ![s] =
            [step |-> "counted", request |-> q, at |-> now,
             saw |-> {v.id : v \in InWindow(now)},
             total |-> Cardinality(InWindow(now))]]
    /\ UNCHANGED <<reviews, dissents, audit, accepted, judged, now>>

\* Mutant: a blocked status is recorded and not refused.
CountPairRecords(s) ==
    /\ handling[s].step = "counted"
    /\ LET h == handling[s]
           pair == Cardinality(PairInWindow(h.request, h.at))
       IN  handling' = [handling EXCEPT ![s] =
                [step |-> "judged", request |-> h.request, at |-> h.at,
                 saw |-> h.saw, status |-> IndependenceStatus(pair, h.total + 1)]]
    /\ UNCHANGED <<reviews, dissents, audit, accepted, judged, now>>

\* The pair's decisions are counted by a statement of their own.  More of them
\* than of all decisions is an error, and an error is a refusal.
CountPair(s) ==
    /\ handling[s].step = "counted"
    /\ LET h == handling[s]
           pair == Cardinality(PairInWindow(h.request, h.at))
           status == IndependenceStatus(pair, h.total + 1)
       IN  handling' = [handling EXCEPT ![s] =
                IF pair > h.total \/ status = "BLOCKED" THEN Idle
                ELSE [step |-> "judged", request |-> h.request, at |-> h.at,
                      saw |-> h.saw, status |-> status]]
    /\ UNCHANGED <<reviews, dissents, audit, accepted, judged, now>>

\* The key is known: the stored decision is the answer if it has the request's
\* id, and otherwise the request is refused (409).
AnswerKnown(s) ==
    /\ handling[s].step = "judged"
    /\ \E v \in reviews :
        /\ v.key = handling[s].request.key
        /\ accepted' = IF v.id = handling[s].request.id
                       THEN accepted \cup {handling[s].request} ELSE accepted
    /\ handling' = [handling EXCEPT ![s] = Idle]
    /\ UNCHANGED <<reviews, dissents, audit, judged, now>>

KeyIsFree(s) ==
    /\ handling[s].step = "judged"
    /\ ~\E v \in reviews : v.key = handling[s].request.key
    /\ handling' = [handling EXCEPT ![s].step = "inserting"]
    /\ UNCHANGED <<reviews, dissents, audit, accepted, judged, now>>

\* Mutant: idempotency_key is not unique.
InsertableById(q) ==
    /\ q.case \in Case
    /\ ~\E v \in reviews : v.id = q.id

\* The primary key, the unique key and the foreign key of the row.
Insertable(q) ==
    /\ q.case \in Case
    /\ ~\E v \in reviews : v.id = q.id \/ v.key = q.key

\* Mutant: whatever is not plainly accepted is a dissent.
DissentOfBlocks(q) == IF q.outcome = "ACCEPT" THEN {} ELSE
    {[linked_review |-> q.id, case |-> q.case, scope |-> q.scope]}

DissentOf(q) ==
    IF q.outcome = "ACCEPT_WITH_DISSENT"
    THEN {[linked_review |-> q.id, case |-> q.case, scope |-> q.scope]}
    ELSE {}

\* The decision, its dissent and its audit event commit together.
Commit(s) ==
    /\ handling[s].step = "inserting"
    /\ LET h == handling[s]
           q == h.request
       IN  /\ Insertable(q)
           /\ reviews' = reviews \cup
                {[id |-> q.id, key |-> q.key, case |-> q.case,
                  reviewer |-> q.reviewer, author |-> q.author,
                  outcome |-> q.outcome, status |-> h.status,
                  decision_at |-> h.at]}
           /\ dissents' = dissents \cup DissentOf(q)
           /\ audit' = audit \cup {q.id}
           /\ accepted' = accepted \cup {q}
           /\ judged' = judged \cup {[id |-> q.id, server |-> s, saw |-> h.saw]}
    /\ handling' = [handling EXCEPT ![s] = Idle]
    /\ UNCHANGED now

\* A constraint refuses the row: nothing is written, and the client gets a 500.
CommitFails(s) ==
    /\ handling[s].step = "inserting"
    /\ ~Insertable(handling[s].request)
    /\ handling' = [handling EXCEPT ![s] = Idle]
    /\ UNCHANGED <<reviews, dissents, audit, accepted, judged, now>>

\* A process dies or loses its connection: its transaction rolls back.
Crash(s) ==
    /\ handling[s] # Idle
    /\ handling' = [handling EXCEPT ![s] = Idle]
    /\ UNCHANGED <<reviews, dissents, audit, accepted, judged, now>>

Tick ==
    /\ now < MaxNow
    /\ now' = now + 1
    /\ UNCHANGED <<reviews, dissents, audit, handling, accepted, judged>>

ReviewNext ==
    \/ \E s \in Server, q \in Posted : CountAll(s, q)
    \/ \E s \in Server :
          \/ CountPair(s) \/ AnswerKnown(s) \/ KeyIsFree(s)
          \/ Commit(s) \/ CommitFails(s) \/ Crash(s)
    \/ Tick

ReviewSpec == ReviewInit /\ [][ReviewNext]_reviewVars

-----------------------------------------------------------------------------
ReviewTypeOK ==
    /\ reviews \subseteq Review
    /\ dissents \subseteq Dissent
    /\ audit \subseteq DecisionId
    /\ handling \in [Server -> Handling]
    /\ accepted \subseteq ReviewRequest
    /\ judged \subseteq Judgement
    /\ now \in Nat

\* However the processes overlap, die and are asked again, an idempotency key
\* stands for one decision and a decision id for one row.
OneDecisionPerKey ==
    \A v, w \in reviews : v.id = w.id \/ v.key = w.key => v = w

\* A decision has an open dissent exactly when it was accepted with one, under
\* its own case, and its audit event: none of the three is without the others.
DecisionsAreComplete ==
    /\ audit = {v.id : v \in reviews}
    /\ \A v \in reviews :
          v.outcome = "ACCEPT_WITH_DISSENT" <=>
              \E d \in dissents : d.linked_review = v.id
    /\ \A d \in dissents :
          \E v \in reviews : v.id = d.linked_review /\ v.case = d.case

\* Whoever was answered with a decision, at first or on a retry, has it stored
\* under the id and the key of the request.
AnswersAreStored ==
    \A q \in accepted : \E v \in reviews : v.id = q.id /\ v.key = q.key

DecisionsStand == OneDecisionPerKey /\ DecisionsAreComplete /\ AnswersAreStored

\* What the count of the decision v included.
SawOf(v) == (CHOOSE j \in judged : j.id = v.id).saw

\* No decision of its pair was judged after r: none is younger, and what their
\* counts included of the window of r, its own did too.
JudgedLast(r) ==
    \A v \in reviews : v.reviewer = r.reviewer /\ v.author = r.author =>
        /\ v.decision_at <= r.decision_at
        /\ \A w \in InWindow(r.decision_at) : w.id \in SawOf(v) => w.id \in SawOf(r)

\* The rule lets a reviewer make at most half of the recent decisions about an
\* author; requests judged at the same time get past it, but no more of them
\* than there are processes: in the window of the pair's last judged decision
\* twice its decisions exceed all by at most one, and by one more a process.
PairShareIsBounded ==
    \A r \in reviews : JudgedLast(r) =>
        2 * Cardinality(PairInWindow(r, r.decision_at))
            <= Cardinality(InWindow(r.decision_at)) + 1 + Cardinality(Server)
=============================================================================
