-------------------------- MODULE MCCaseTransition --------------------------
(***************************************************************************)
(* Instances of CaseTransition small enough for TLC.  The .cfg files give  *)
(* the identifiers as model values; the requests a client may schedule and *)
(* the surfaces an override may name are defined here.                     *)
(***************************************************************************)
EXTENDS CaseTransition, TLC

CONSTANTS
    c1, r1, o1  \* a case, a review and an override the templates name

Ask(from, to, review, override) ==
    [case |-> c1, from |-> from, to |-> to, review |-> review,
     override |-> override]

Plain(from, to) == Ask(from, to, None, None)

\* The review gate, with and without its review, a hold that races it, and the
\* way out of the hold to the state the package activity takes a case from.
RaceTemplates ==
    {Ask("REVIEW_PENDING", "APPROVED_FOR_SUBMISSION", r1, None),
     Plain("REVIEW_PENDING", "APPROVED_FOR_SUBMISSION"),
     Plain("REVIEW_PENDING", "EMERGENCY_HOLD"),
     Plain("EMERGENCY_HOLD", "INCENTIVES_COMPLETE"),
     Plain("DOCUMENT_COMPLETE", "EMERGENCY_HOLD")}

\* Of the data activities only the package's runs beside the race.
PackageRowsOnly ==
    \A c \in Case : Rows(c) = Cardinality({row \in {"package"} : artifacts[c][row]})

RaceNext ==
    \/ \E id \in RequestId, t \in Template : Schedule(id, t)
    \/ \E x \in Execution : Run(x) \/ Crash(x)
    \/ WriteRecords /\ PackageRowsOnly'

RaceSpec ==
    /\ Init
    /\ [][RaceNext]_vars
    /\ \A x \in Execution : WF_vars(Run(x))

\* Approvals with an override, and one the hold exit forbids.
OverrideTemplates ==
    {Ask("REVIEW_PENDING", "APPROVED_FOR_SUBMISSION", r1, None),
     Ask("REVIEW_PENDING", "APPROVED_FOR_SUBMISSION", r1, o1)}

ApprovalSurface == {Approval}
OtherSurface == {<<"DOCUMENT_COMPLETE", "SUBMITTED">>}
BothSurfaces == {ApprovalSurface, OtherSurface}
NoSurfaces == {}

\* The guarded edges of the pipeline, the hold as the way to
\* reach the state each starts from, and requests the guard has to refuse.
EntryTo(edges) ==
    {Plain("INTAKE_PENDING", "EMERGENCY_HOLD")}
    \cup {Plain("EMERGENCY_HOLD", e[1]) : e \in edges}

PipelineEdges == GuardedEdge \ {Approval}

PipelineTemplates ==
    {Plain(e[1], e[2]) : e \in PipelineEdges} \cup EntryTo(PipelineEdges)
    \cup {Plain("EMERGENCY_HOLD", "SUBMITTED"), Plain("INTAKE_COMPLETE", "SUBMITTED")}

GuardTemplates == OverrideTemplates \cup PipelineTemplates

(***************************************************************************)
(* The guards run explores the sum of two stories, not their product:      *)
(* approvals beside contradictions, overrides and reviews of two cases     *)
(* seeded for review, or the pipeline of one case created at intake, with  *)
(* its rows, where the last request may be refused.  Request ids are       *)
(* interchangeable, so they are used in one order.                         *)
(***************************************************************************)
ApprovalStory ==
    /\ \A c \in Case : case_state[c] # "INTAKE_PENDING"
    /\ \A c \in PipelineCase : Rows(c) = 0
    /\ \A q \in scheduled : EdgeOf(q) = Approval
    /\ Cardinality(scheduled) <= 2

PipelineStory ==
    /\ \A c \in PipelineCase : case_state[c] # "REVIEW_PENDING"
    /\ reviews = {} /\ contradictions = {} /\ overrides = {}
    /\ \A c \in Case \ PipelineCase : ~Exists(c)
    /\ \A q \in scheduled : EdgeOf(q) # Approval
    /\ Cardinality({q \in scheduled : ~Answered(q.id)}) <= 1
    /\ Cardinality(scheduled) = 3 => \A row \in ledger : row.verdict = "APPLIED"

OneStory == ApprovalStory \/ PipelineStory

UnusedIds == {id \in RequestId : ~\E q \in scheduled : q.id = id}

ScheduleUnused(templates) ==
    /\ UnusedIds # {}
    /\ \E t \in templates : Schedule(CHOOSE id \in UnusedIds : TRUE, t)

GuardsNext ==
    \/ /\ ApprovalStory /\ Cardinality(scheduled) < 2
       /\ ScheduleUnused(OverrideTemplates)
    \/ /\ PipelineStory
       /\ \A q \in scheduled : Answered(q.id)
       /\ ScheduleUnused(PipelineTemplates)
    \/ \E x \in Execution : Run(x) \/ Crash(x)
    \/ WriteRecords

GuardsSpec == Init /\ [][GuardsNext]_vars
=============================================================================
