------------------------ MODULE MCPermitCaseWorkflow ------------------------
(***************************************************************************)
(* Instances of PermitCaseWorkflow for TLC.  The .cfg files choose the     *)
(* stage of the case the run is about by what may happen outside run().    *)
(***************************************************************************)
EXTENDS PermitCaseWorkflow, TLC

\* No override reaches the workflow: it passes override_id = None.
NoSurfaces == {}

(***************************************************************************)
(* The safety run is the sum of three stories: once an emergency is        *)
(* declared, the emergency signals of the first two runs, whose entries    *)
(* ask for the hold, or the first signal of each of three runs, which may  *)
(* be an entry that asks for another state; or seven runs without signals, *)
(* with contradictions, a moving clock and the CLI's signal to the first   *)
(* two.  The two accepting outcomes of a review are alike to the guard, so *)
(* one of them will do.                                                    *)
(***************************************************************************)
EmergencyDeclared ==
    /\ emergencies # {} /\ contradictions = {} /\ now = 0
    /\ \A e \in emergencies : e[2] = 1
    /\ \A c \in Case : review_signal[c] # "LEGACY"

Entries ==
    {m \in {handlers[h] : h \in HandlerSlot} \ {Free} : m.kind = "entry"}

EmergencyStory ==
    /\ EmergencyDeclared
    /\ \A c \in Case : runs[c] <= 2
    /\ \A m \in Entries : m.target = "EMERGENCY_HOLD"
    /\ \A row \in ledger : row.id[3] = <<"emergency_hold", "entry">> => row.to = "EMERGENCY_HOLD"

RedirectStory ==
    /\ EmergencyDeclared
    /\ reviews = {}
    /\ \A c \in Case : runs[c] <= 3 /\ signals[c].taken <= 1
    /\ \E h \in HandlerSlot : \A g \in HandlerSlot \ {h} : handlers[g] = Free
    /\ \A h \in HandlerSlot : handlers[h] = Free \/ handlers[h].kind = "entry"

PipelineStory ==
    /\ emergencies = {}
    /\ \A c \in Case :
          /\ signals[c] = NoSignals
          /\ review_signal[c] = "LEGACY" => runs[c] <= 2

OneStory ==
    /\ EmergencyStory \/ RedirectStory \/ PipelineStory
    /\ \A v \in reviews : v.outcome \in {"ACCEPT", "BLOCK"}

SlotSymmetry == Permutations(HandlerSlot)
=============================================================================
