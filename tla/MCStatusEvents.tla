--------------------------- MODULE MCStatusEvents ---------------------------
(***************************************************************************)
(* An instance of StatusEvents for TLC: two cases with an attempt each.    *)
(***************************************************************************)
EXTENDS StatusEvents, TLC

CONSTANTS c1, c2, a1, a2, e1, e2

Attempts == (a1 :> c1) @@ (a2 :> c2)

Report(event, case, attempt, status) ==
    [event |-> event, case |-> case, attempt |-> attempt, status |-> status]

\* One event, again with a status that calls for no record, and under the other
\* case; another event, and requests that are refused.
Asks ==
    {Report(e1, c1, a1, "COMMENT_ISSUED"),
     Report(e1, c1, a1, "IN_REVIEW"),
     Report(e1, c2, a2, "INSPECTION_PASSED"),
     Report(e2, c1, a1, "RESUBMISSION_REQUESTED"),
     Report(e2, c1, a1, None),
     Report(e2, c1, a2, "COMMENT_ISSUED")}
=============================================================================
