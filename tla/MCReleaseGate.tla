--------------------------- MODULE MCReleaseGate ---------------------------
(***************************************************************************)
(* An instance of ReleaseGate for TLC: the sum of four stories.            *)
(***************************************************************************)
EXTENDS ReleaseGate, TLC

CONSTANTS
    c1, d1, d2, d3, d4, k1, k2, k3, k4,  \* a case, decisions and their keys
    alice, bob, carol,                   \* reviewers and an author
    y1, y2, a1, a2, a3                   \* releases and artifacts

Decide(id, key, case, reviewer, outcome, scope) ==
    [id |-> id, key |-> key, case |-> case, reviewer |-> reviewer,
     author |-> bob, outcome |-> outcome, scope |-> scope]

\* Four decisions of one pair, and requests that meet their ids and keys, that
\* name no case, or that judge the author's own work.
Requests ==
    {Decide(d1, k1, c1, alice, "ACCEPT", "ROUTINE"),
     Decide(d2, k2, c1, alice, "ACCEPT_WITH_DISSENT", "HIGH_RISK"),
     Decide(d3, k3, c1, alice, "BLOCK", "ROUTINE"),
     Decide(d4, k4, c1, alice, "ACCEPT_WITH_DISSENT", "ROUTINE"),
     Decide(d4, k1, c1, carol, "ACCEPT", "ROUTINE"),
     Decide(d1, k2, None, carol, "ACCEPT", "ROUTINE"),
     Decide(d3, k4, c1, bob, "ACCEPT", "ROUTINE")}

\* Two packages that share an artifact, and one with an artifact twice.
Manifests == {<<a1, a2>>, <<a2, a3>>, <<a1, a1>>}

Bundle1(release, artifacts, digests) ==
    [release |-> release, artifacts |-> artifacts, digests |-> digests]

DirectPosts ==
    {Bundle1(y1, <<a3>>, {a3}), Bundle1(y2, <<a1, a3>>, {a1})}

(***************************************************************************)
(* Four stories are explored: the decisions of a window; one poster beside *)
(* a contradiction and a decision with a dissent; several posters without  *)
(* anything that blocks them; rehearsals.                                  *)
(***************************************************************************)
Posters ==
    {r \in Run : script[r] # Idle} \cup {p \in Direct : posting[p] # Idle}

NoRelease == bundles = {} /\ Posters = {}
NoRehearsal == rehearsing = [x \in Rehearsal |-> "idle"]
NoDecision == reviews = {} /\ handling = [s \in Server |-> Idle] /\ now = 0

OnlyDissent ==
    /\ now = 0
    /\ {v.id : v \in reviews} \subseteq {d2}
    /\ \A s \in Server : handling[s] # Idle => handling[s].request.id = d2
    /\ Cardinality({s \in Server : handling[s] # Idle}) <= 1

OneStory ==
    \/ NoRelease /\ NoRehearsal /\ contradictions = {}
    \/ OnlyDissent /\ Cardinality(Posters) <= 1 /\ NoRehearsal
    \/ NoDecision /\ contradictions = {} /\ NoRehearsal
    \/ NoDecision /\ contradictions = {} /\ NoRelease

\* Next, with no step that the constraint would throw away at once.
StoryNext ==
    \/ /\ (NoRelease /\ NoRehearsal /\ contradictions = {}) \/ OnlyDissent
       /\ ReviewNext /\ UNCHANGED gateVars
    \/ /\ OnlyDissent
       /\ GateNext /\ UNCHANGED reviewVars

StorySpec == Init /\ [][StoryNext]_vars

Symmetry == Permutations(Server)
=============================================================================
