--------------------------- MODULE CaseLifecycle ---------------------------
(***************************************************************************)
(* What apply_state_transition promises its callers, with no databases,    *)
(* locks, retries or crashes in sight: a request id is decided at most     *)
(* once; a request that is applied moves its case from the state it named  *)
(* along an edge of the case-state graph; a denied one moves nothing; and  *)
(* an answer repeats the recorded decision.  One move is nobody's request: *)
(* a case whose package is stored is taken on by the package activity.     *)
(*                                                                         *)
(* CaseTransition is shown to implement this specification.                *)
(***************************************************************************)
CONSTANTS
    Case,       \* permit cases
    Id,         \* transition request ids
    CaseState,  \* case states
    Verdict,    \* "APPLIED" and the reasons for a denial
    LegalEdge   \* the edges <<from, to>> a transition may take

VARIABLES
    case_state,  \* the state of each case, "ABSENT" before it is created
    decisions,   \* the decided requests
    answers      \* what callers were told: <<request id, verdict>>

vars == <<case_state, decisions, answers>>

Decision ==
    [id : Id, case : Case, from : CaseState, to : CaseState,
     verdict : Verdict]

InitialState == {"INTAKE_PENDING", "REVIEW_PENDING"}

Init ==
    /\ case_state = [c \in Case |-> "ABSENT"]
    /\ decisions = {}
    /\ answers = {}

Create(c) ==
    /\ case_state[c] = "ABSENT"
    /\ \E s \in InitialState : case_state' = [case_state EXCEPT ![c] = s]
    /\ UNCHANGED <<decisions, answers>>

Undecided(id) == ~\E d \in decisions : d.id = id

Apply(d) ==
    /\ d.verdict = "APPLIED"
    /\ case_state[d.case] = d.from
    /\ <<d.from, d.to>> \in LegalEdge
    /\ case_state' = [case_state EXCEPT ![d.case] = d.to]

Deny(d) ==
    /\ d.verdict # "APPLIED"
    /\ UNCHANGED case_state

\* d is the decision the step records.
Decide(d) ==
    /\ Undecided(d.id)
    /\ d \in Decision
    /\ decisions' = decisions \cup {d}
    /\ Apply(d) \/ Deny(d)
    /\ UNCHANGED answers

\* The first answer is the one the caller gets.
Answer(d) ==
    /\ ~\E a \in answers : a[1] = d.id
    /\ answers' = answers \cup {<<d.id, d.verdict>>}
    /\ UNCHANGED <<case_state, decisions>>

\* Not decided and not recorded.
CompleteDocuments(c) ==
    /\ case_state[c] = "INCENTIVES_COMPLETE"
    /\ case_state' = [case_state EXCEPT ![c] = "DOCUMENT_COMPLETE"]
    /\ UNCHANGED <<decisions, answers>>

DecisionNext ==
    \/ \E c \in Case : Create(c)
    \/ \E d \in decisions' : Decide(d)
    \/ \E d \in decisions : Answer(d)

Next == DecisionNext \/ \E c \in Case : CompleteDocuments(c)

Spec == Init /\ [][Next]_vars
=============================================================================
