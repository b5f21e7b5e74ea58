--------------------------- MODULE CaseSubmission ---------------------------
(***************************************************************************)
(* What persist_submission_package, deterministic_submission_adapter and   *)
(* the run between them promise of one case, with no executions, locks,    *)
(* time-outs or errors in sight: packages are made; one of them, at most,  *)
(* is submitted, to the portal or to the fallback, once and for all runs;  *)
(* and the case goes where the outcome of that attempt says.               *)
(*                                                                         *)
(* SubmissionPackage is shown to implement this specification.             *)
(***************************************************************************)
CONSTANTS
    PackageId,  \* the packages a case may come to have
    Request,    \* the runs that ask for them
    None        \* no package

Package == [id : PackageId, request : Request]

VARIABLES
    case_state,       \* the state of the case
    fallback,         \* whether its portal calls for a manual fallback
    packages,         \* packages: id and the run each was made for
    current_package,  \* the package made last
    attempts          \* the attempt at submission, if there is one

vars == <<case_state, fallback, packages, current_package, attempts>>

Init ==
    /\ case_state = "INCENTIVES_COMPLETE"
    /\ fallback \in BOOLEAN
    /\ packages = {}
    /\ current_package = None
    /\ attempts = {}

\* A package of a new id; the first completes the documents of the case.
MakePackage(p) ==
    /\ p \in Package
    /\ ~\E q \in packages : q.id = p.id
    /\ packages' = packages \cup {p}
    /\ current_package' = p.id
    /\ case_state' = IF case_state = "INCENTIVES_COMPLETE" THEN "DOCUMENT_COMPLETE"
                     ELSE case_state
    /\ UNCHANGED <<fallback, attempts>>

OutcomeOf(manual) == IF manual THEN "UNSUPPORTED_WORKFLOW" ELSE "SUCCESS"

\* A run submits a package that was made for it, when none was submitted yet.
Submit(p) ==
    /\ attempts = {}
    /\ attempts' = {[run |-> p.request, package |-> p.id,
                     outcome |-> OutcomeOf(fallback)]}
    /\ UNCHANGED <<case_state, fallback, packages, current_package>>

\* Only a fallback may be recorded as failed after all.
GiveUp(a) ==
    /\ a.outcome = "UNSUPPORTED_WORKFLOW"
    /\ attempts' = {[a EXCEPT !.outcome = "FAILED"]}
    /\ UNCHANGED <<case_state, fallback, packages, current_package>>

\* The case goes to the state of the attempt's outcome; a fallback that failed
\* later may have been answered before.
Advance(a) ==
    /\ case_state = "DOCUMENT_COMPLETE"
    /\ case_state' = IF a.outcome = "SUCCESS" THEN "SUBMITTED"
                     ELSE "MANUAL_SUBMISSION_REQUIRED"
    /\ UNCHANGED <<fallback, packages, current_package, attempts>>

RequestResubmission ==
    /\ case_state = "SUBMITTED"
    /\ case_state' = "RESUBMISSION_PENDING"
    /\ UNCHANGED <<fallback, packages, current_package, attempts>>

Resume ==
    /\ case_state = "RESUBMISSION_PENDING"
    /\ case_state' = "DOCUMENT_COMPLETE"
    /\ UNCHANGED <<fallback, packages, current_package, attempts>>

Next ==
    \/ \E p \in packages' : MakePackage(p)
    \/ \E p \in packages : Submit(p)
    \/ \E a \in attempts : GiveUp(a) \/ Advance(a)
    \/ RequestResubmission \/ Resume

Spec == Init /\ [][Next]_vars
=============================================================================
