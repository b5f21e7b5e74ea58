----------------------------- MODULE ReleaseGate -----------------------------
(***************************************************************************)
(* Releases beside the reviews and contradictions that may block them: the *)
(* script generate_release_bundle.py, which asks the API for the open      *)
(* blockers and only then posts its bundle, and the API routes it meets    *)
(* (ops.py, releases.py, contradictions.py).  Nothing ties the post to the *)
(* check: blockers open and are resolved between any two of their steps,   *)
(* and the endpoint takes bundles that no script checked.                  *)
(***************************************************************************)
EXTENDS ReviewDecisions, Sequences, Functions

CONSTANTS
    ContradictionId,  \* contradiction_artifacts.contradiction_id values
    Resolver,         \* requests resolving a contradiction, one a thread
    ReleaseId,        \* release ids given to the script or the endpoint
    ArtifactId,       \* artifact ids of files in a package, and of evidence
    Manifest,         \* bound: the packages, each the sequence of its artifacts
    Run,              \* runs of the script
    Direct,           \* bundles posted by the release principal itself
    DirectPost,       \* bound: what those say
    Rehearsal         \* rollback rehearsal requests

Poster == Run \cup Direct

BundleRequest ==
    [release : ReleaseId, artifacts : Seq(ArtifactId), digests : SUBSET ArtifactId]

ASSUME ReleaseAssumption ==
    /\ Run \cap Direct = {}
    /\ Manifest \subseteq Seq(ArtifactId)
    /\ DirectPost \subseteq BundleRequest

VARIABLES
    contradictions,     \* contradiction_artifacts
    resolving,          \* per resolver: the contradiction it read as open
    script,             \* per run: how far the script is
    posting,            \* per poster: the request inside create_release_bundle
    bundles,            \* release_bundles; gate is a history of the script's check
    release_artifacts,  \* release_artifacts
    rehearsing,         \* per rehearsal: whether its object is stored
    objects,            \* evidence objects in S3
    rehearsals          \* evidence_artifacts of rollback rehearsals

gateVars ==
    <<contradictions, resolving, script, posting, bundles, release_artifacts,
      rehearsing, objects, rehearsals>>
vars == <<reviewVars, gateVars>>

Contradiction ==
    [id : ContradictionId, blocking : BOOLEAN, status : {"OPEN", "RESOLVED"},
     resolved_by : Resolver \cup {None}]

Blocker == {"contradiction"} \X ContradictionId \cup {"dissent"} \X DecisionId

Script ==
    {Idle}
    \cup [step : {"built"}, release : ReleaseId, manifest : Seq(ArtifactId)]
    \cup [step : {"half_read", "clear"}, release : ReleaseId,
          manifest : Seq(ArtifactId), recorded : SUBSET Blocker]
    \cup [step : {"posted", "created", "failed"}, release : ReleaseId]

Posting ==
    {Idle}
    \cup [step : {"received", "flushed"}, request : BundleRequest,
          gate : (SUBSET Blocker) \cup {None}]

Bundle ==
    [release : ReleaseId, artifacts : Seq(ArtifactId),
     gate : (SUBSET Blocker) \cup {None}]

ReleaseArtifact == [id : ArtifactId, release : ReleaseId]

Init ==
    /\ ReviewInit
    /\ contradictions = {}
    /\ resolving = [v \in Resolver |-> None]
    /\ script = [r \in Run |-> Idle]
    /\ posting = [p \in Poster |-> Idle]
    /\ bundles = {}
    /\ release_artifacts = {}
    /\ rehearsing = [x \in Rehearsal |-> "idle"]
    /\ objects = {}
    /\ rehearsals = {}

-----------------------------------------------------------------------------
(***************************************************************************)
(* Contradictions: created once an id, resolved by whoever read them open. *)
(***************************************************************************)
CreateContradiction(id, blocking) ==
    /\ ~\E k \in contradictions : k.id = id
    /\ contradictions' = contradictions \cup
            {[id |-> id, blocking |-> blocking, status |-> "OPEN",
              resolved_by |-> None]}
    /\ UNCHANGED <<resolving, script, posting, bundles, release_artifacts,
                   rehearsing, objects, rehearsals>>

ReadOpen(v, k) ==
    /\ resolving[v] = None
    /\ k.status = "OPEN"
    /\ resolving' = [resolving EXCEPT ![v] = k.id]
    /\ UNCHANGED <<contradictions, script, posting, bundles, release_artifacts,
                   rehearsing, objects, rehearsals>>

\* The row is updated by its key alone: another resolver may have been there.
Resolve(v) ==
    /\ \E k \in contradictions :
        /\ k.id = resolving[v]
        /\ contradictions' = (contradictions \ {k}) \cup
                {[k EXCEPT !.status = "RESOLVED", !.resolved_by = v]}
    /\ resolving' = [resolving EXCEPT ![v] = None]
    /\ UNCHANGED <<script, posting, bundles, release_artifacts, rehearsing,
                   objects, rehearsals>>

OpenContradictions ==
    {k \in contradictions : k.blocking /\ k.status = "OPEN"}

\* Nothing under src/sps closes a dissent: each is open for good.
OpenDissents == {d \in dissents : d.scope = "HIGH_RISK"}

-----------------------------------------------------------------------------
(***************************************************************************)
(* The script, one action per call it makes.                               *)
(***************************************************************************)
\* All that was ever recorded as a blocker, resolved or not.
Recorded ==
    {<<"contradiction", k.id>> : k \in {c \in contradictions : c.blocking}}
    \cup {<<"dissent", d.linked_review>> : d \in OpenDissents}

\* The package is verified and its components built; a package with an
\* artifact id twice ends the run.
BuildComponents(r, release, manifest) ==
    /\ script[r] = Idle
    /\ IsInjective(manifest)
    /\ script' = [script EXCEPT ![r] =
            [step |-> "built", release |-> release, manifest |-> manifest]]
    /\ UNCHANGED <<contradictions, resolving, posting, bundles, release_artifacts,
                   rehearsing, objects, rehearsals>>

Failed(r) == [script EXCEPT ![r] = [step |-> "failed", release |-> @.release]]

\* GET /ops/release-blockers selects the contradictions and then the dissents.
ReadContradictions(r) ==
    /\ script[r].step = "built"
    /\ script' =
          IF OpenContradictions # {} THEN Failed(r)
          ELSE [script EXCEPT ![r] =
                  [step |-> "half_read", release |-> @.release,
                   manifest |-> @.manifest, recorded |-> Recorded]]
    /\ UNCHANGED <<contradictions, resolving, posting, bundles, release_artifacts,
                   rehearsing, objects, rehearsals>>

\* Mutant: dissents are listed and not counted.
ReadDissentsUncounted(r) ==
    /\ script[r].step = "half_read"
    /\ script' = [script EXCEPT ![r].step = "clear"]
    /\ UNCHANGED <<contradictions, resolving, posting, bundles, release_artifacts,
                   rehearsing, objects, rehearsals>>

ReadDissents(r) ==
    /\ script[r].step = "half_read"
    /\ script' = IF OpenDissents # {} THEN Failed(r)
                 ELSE [script EXCEPT ![r].step = "clear"]
    /\ UNCHANGED <<contradictions, resolving, posting, bundles, release_artifacts,
                   rehearsing, objects, rehearsals>>

PostBundle(r) ==
    /\ script[r].step = "clear"
    /\ posting' = [posting EXCEPT ![r] =
            [step |-> "received",
             request |-> [release |-> script[r].release,
                          artifacts |-> script[r].manifest,
                          digests |-> Range(script[r].manifest)],
             gate |-> script[r].recorded]]
    /\ script' = [script EXCEPT ![r] = [step |-> "posted", release |-> @.release]]
    /\ UNCHANGED <<contradictions, resolving, bundles, release_artifacts,
                   rehearsing, objects, rehearsals>>

\* Ten seconds without an answer; the request may still be served.
TimeOut(r) ==
    /\ script[r].step = "posted"
    /\ script' = Failed(r)
    /\ UNCHANGED <<contradictions, resolving, posting, bundles, release_artifacts,
                   rehearsing, objects, rehearsals>>

\* A release principal that does not use the script.
PostDirectly(p, request) ==
    /\ posting[p] = Idle
    /\ posting' = [posting EXCEPT ![p] =
            [step |-> "received", request |-> request, gate |-> None]]
    /\ UNCHANGED <<contradictions, resolving, script, bundles, release_artifacts,
                   rehearsing, objects, rehearsals>>

-----------------------------------------------------------------------------
(***************************************************************************)
(* POST /releases/bundles.                                                 *)
(***************************************************************************)
ValidReferences(request) ==
    /\ IsInjective(request.artifacts)
    /\ request.digests = Range(request.artifacts)

\* What a script that still waits makes of the answer.
ScriptAfter(p, step) ==
    IF p \in Run /\ script[p].step = "posted"
    THEN [script EXCEPT ![p].step = step] ELSE script

Refuse(p) ==
    /\ posting' = [posting EXCEPT ![p] = Idle]
    /\ script' = ScriptAfter(p, "failed")
    /\ UNCHANGED <<contradictions, resolving, bundles, release_artifacts,
                   rehearsing, objects, rehearsals>>

RejectReferences(p) ==
    /\ posting[p].step = "received"
    /\ ~ValidReferences(posting[p].request)
    /\ Refuse(p)

\* The bundle row goes in first.  While another transaction has inserted the
\* same release and not ended, the insert waits for it.
FlushBundle(p) ==
    /\ posting[p].step = "received"
    /\ ValidReferences(posting[p].request)
    /\ ~\E o \in Poster : /\ posting[o].step = "flushed"
                          /\ posting[o].request.release = posting[p].request.release
    /\ IF \E b \in bundles : b.release = posting[p].request.release
       THEN Refuse(p)
       ELSE /\ posting' = [posting EXCEPT ![p].step = "flushed"]
            /\ UNCHANGED <<contradictions, resolving, script, bundles,
                           release_artifacts, rehearsing, objects, rehearsals>>

ArtifactsOf(request) ==
    {[id |-> a, release |-> request.release] : a \in Range(request.artifacts)}

Taken(request) ==
    \E a \in release_artifacts : a.id \in Range(request.artifacts)

\* Mutant: the bundle row was committed before its artifacts went in.
CommitBundleAlone(p) ==
    /\ posting[p].step = "flushed"
    /\ LET request == posting[p].request IN
        /\ bundles' = bundles \cup
             {[release |-> request.release, artifacts |-> request.artifacts,
               gate |-> posting[p].gate]}
        /\ release_artifacts' = IF Taken(request) THEN release_artifacts
                                ELSE release_artifacts \cup ArtifactsOf(request)
    /\ posting' = [posting EXCEPT ![p] = Idle]
    /\ script' = ScriptAfter(p, "created")
    /\ UNCHANGED <<contradictions, resolving, rehearsing, objects, rehearsals>>

\* artifact_id is the key of release_artifacts: an artifact another release
\* has taken undoes the whole bundle, with the answer that it exists already.
CommitBundle(p) ==
    /\ posting[p].step = "flushed"
    /\ LET request == posting[p].request IN
        IF Taken(request) THEN Refuse(p)
        ELSE /\ bundles' = bundles \cup
                  {[release |-> request.release, artifacts |-> request.artifacts,
                    gate |-> posting[p].gate]}
             /\ release_artifacts' = release_artifacts \cup ArtifactsOf(request)
             /\ posting' = [posting EXCEPT ![p] = Idle]
             /\ script' = ScriptAfter(p, "created")
             /\ UNCHANGED <<contradictions, resolving, rehearsing, objects,
                            rehearsals>>

LoseRequest(p) ==
    /\ posting[p] # Idle
    /\ Refuse(p)

-----------------------------------------------------------------------------
(***************************************************************************)
(* POST /releases/rollbacks/rehearsals: the object first, then its row.    *)
(* Each request draws an evidence id of its own.  The release it names     *)
(* need not exist.                                                         *)
(***************************************************************************)
PutRehearsal(x) ==
    /\ rehearsing[x] = "idle"
    /\ objects' = objects \cup {x}
    /\ rehearsing' = [rehearsing EXCEPT ![x] = "stored"]
    /\ UNCHANGED <<contradictions, resolving, script, posting, bundles,
                   release_artifacts, rehearsals>>

CommitRehearsal(x) ==
    /\ rehearsing[x] = "stored"
    /\ rehearsals' = rehearsals \cup {x}
    /\ rehearsing' = [rehearsing EXCEPT ![x] = "done"]
    /\ UNCHANGED <<contradictions, resolving, script, posting, bundles,
                   release_artifacts, objects>>

LoseRehearsal(x) ==
    /\ rehearsing[x] = "stored"
    /\ rehearsing' = [rehearsing EXCEPT ![x] = "done"]
    /\ UNCHANGED <<contradictions, resolving, script, posting, bundles,
                   release_artifacts, objects, rehearsals>>

GateNext ==
    \/ \E id \in ContradictionId, blocking \in BOOLEAN :
          CreateContradiction(id, blocking)
    \/ \E v \in Resolver :
          (\E k \in contradictions : ReadOpen(v, k)) \/ Resolve(v)
    \/ \E r \in Run :
          \/ \E release \in ReleaseId, manifest \in Manifest :
                BuildComponents(r, release, manifest)
          \/ ReadContradictions(r) \/ ReadDissents(r) \/ PostBundle(r) \/ TimeOut(r)
    \/ \E p \in Direct, request \in DirectPost : PostDirectly(p, request)
    \/ \E p \in Poster :
          RejectReferences(p) \/ FlushBundle(p) \/ CommitBundle(p) \/ LoseRequest(p)
    \/ \E x \in Rehearsal : PutRehearsal(x) \/ CommitRehearsal(x) \/ LoseRehearsal(x)

Next ==
    \/ ReviewNext /\ UNCHANGED gateVars
    \/ GateNext /\ UNCHANGED reviewVars

Spec == Init /\ [][Next]_vars

-----------------------------------------------------------------------------
TypeOK ==
    /\ ReviewTypeOK
    /\ contradictions \subseteq Contradiction
    /\ resolving \in [Resolver -> ContradictionId \cup {None}]
    /\ script \in [Run -> Script]
    /\ posting \in [Poster -> Posting]
    /\ bundles \subseteq Bundle
    /\ release_artifacts \subseteq ReleaseArtifact
    /\ rehearsing \in [Rehearsal -> {"idle", "stored", "done"}]
    /\ objects \subseteq Rehearsal
    /\ rehearsals \subseteq Rehearsal

OpenBlockers ==
    {<<"contradiction", k.id>> : k \in OpenContradictions}
    \cup {<<"dissent", d.linked_review>> : d \in OpenDissents}

\* What the gate of the script promises of REL-001: a bundle it posted ignores
\* no contradiction and no high-risk dissent that was recorded when its check
\* began and is open today.  What opened during or after the check got past it.
GateSeesOlderBlockers ==
    \A b \in bundles : b.gate # None => b.gate \cap OpenBlockers = {}

\* A release has one bundle, all of its artifacts and no other's: a bundle that
\* meets an artifact of another release leaves nothing behind.
BundlesAreWhole ==
    /\ \A b, d \in bundles : b.release = d.release => b = d
    /\ \A a, e \in release_artifacts : a.id = e.id => a = e
    /\ \A b \in bundles :
          {a.id : a \in {e \in release_artifacts : e.release = b.release}}
              = Range(b.artifacts)
    /\ \A a \in release_artifacts : \E b \in bundles : a.release = b.release

\* A script that reports its bundle as created has it stored under its release.
CreatedIsStored ==
    \A r \in Run :
        script[r].step = "created" =>
            \E b \in bundles : b.release = script[r].release

\* A rehearsal in the registry has its object in the store.
RehearsalsAreStored == rehearsals \subseteq objects

ReleasesAreWhole == BundlesAreWhole /\ CreatedIsStored /\ RehearsalsAreStored
=============================================================================
