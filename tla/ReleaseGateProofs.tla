------------------------- MODULE ReleaseGateProofs -------------------------
(***************************************************************************)
(* Theorems about ReleaseGate: for any number of scripts, clients and API  *)
(* processes, what the gate of the script promises and what it does not    *)
(* reach, and bundles that are whole.                                      *)
(***************************************************************************)
EXTENDS ReleaseGate, ReviewDecisionsProofs

GateTypeOK ==
    /\ contradictions \subseteq Contradiction
    /\ resolving \in [Resolver -> ContradictionId \cup {None}]
    /\ script \in [Run -> Script]
    /\ posting \in [Poster -> Posting]
    /\ bundles \subseteq Bundle
    /\ release_artifacts \subseteq ReleaseArtifact
    /\ rehearsing \in [Rehearsal -> {"idle", "stored", "done"}]
    /\ objects \subseteq Rehearsal
    /\ rehearsals \subseteq Rehearsal

ContradictionIdsAreUnique ==
    \A k, l \in contradictions : k.id = l.id => k = l

\* The blocker was a contradiction and is resolved.
IsResolved(b) ==
    \E k \in contradictions : b = <<"contradiction", k.id>> /\ k.status = "RESOLVED"

\* Only an open dissent is left, which the second statement will see.
IsLeft(b) == \E d \in OpenDissents : b = <<"dissent", d.linked_review>>

Cleared(blockers) == \A b \in blockers : IsResolved(b)
HalfCleared(blockers) == \A b \in blockers : IsResolved(b) \/ IsLeft(b)

Sent == {"received", "flushed"}

ChecksAreClear ==
    /\ \A r \in Run : script[r].step = "half_read" => HalfCleared(script[r].recorded)
    /\ \A r \in Run : script[r].step = "clear" => Cleared(script[r].recorded)

PostsAreClear ==
    \A p \in Poster :
        posting[p].step \in Sent /\ posting[p].gate # None => Cleared(posting[p].gate)

BundlesAreClear == \A b \in bundles : b.gate # None => Cleared(b.gate)

\* A bundle that is about to be committed is the only one of its release.
FlushedIsAlone ==
    \A p \in Poster : posting[p].step = "flushed" =>
        /\ \A b \in bundles : b.release # posting[p].request.release
        /\ \A o \in Poster \ {p} : posting[o].step = "flushed" =>
              posting[o].request.release # posting[p].request.release

\* What a script waits for is the answer to its own release.
PostIsOwn ==
    \A r \in Run :
        script[r].step = "posted" /\ posting[r].step \in Sent =>
            posting[r].request.release = script[r].release

StoredBeforeRegistered == \A x \in Rehearsal : rehearsing[x] = "stored" => x \in objects

GateInductive ==
    /\ GateTypeOK
    /\ ContradictionIdsAreUnique
    /\ ChecksAreClear
    /\ PostsAreClear
    /\ BundlesAreClear
    /\ FlushedIsAlone
    /\ BundlesAreWhole
    /\ PostIsOwn
    /\ CreatedIsStored
    /\ StoredBeforeRegistered
    /\ RehearsalsAreStored

-----------------------------------------------------------------------------
LEMMA GateInitInductive == Init => GateInductive
BY DEF Init, GateInductive, GateTypeOK, ContradictionIdsAreUnique, ChecksAreClear,
    PostsAreClear, BundlesAreClear, FlushedIsAlone, BundlesAreWhole, PostIsOwn,
    CreatedIsStored, StoredBeforeRegistered, RehearsalsAreStored, Script, Posting, Idle, Sent

LEMMA RunsArePosters == Run \subseteq Poster
BY DEF Poster

LEMMA ManifestRange ==
    ASSUME NEW m \in Seq(ArtifactId)
    PROVE  Range(m) \in SUBSET ArtifactId
BY DEF Range

\* What a script and a poster hold.
LEMMA ScriptFields ==
    ASSUME GateTypeOK, NEW r \in Run
    PROVE  /\ script[r].step \in {"built", "half_read", "clear"} =>
                script[r].release \in ReleaseId /\ script[r].manifest \in Seq(ArtifactId)
           /\ script[r].step \in {"half_read", "clear"} => script[r].recorded \in SUBSET Blocker
           /\ script[r].step \in {"posted", "created", "failed"} =>
                script[r].release \in ReleaseId
BY DEF GateTypeOK, Script, Idle

LEMMA PostingFields ==
    ASSUME GateTypeOK, NEW p \in Poster, posting[p].step \in Sent
    PROVE  /\ posting[p].request \in BundleRequest
           /\ posting[p].gate \in (SUBSET Blocker) \cup {None}
           /\ posting[p] = [step |-> posting[p].step, request |-> posting[p].request,
                            gate |-> posting[p].gate]
BY DEF GateTypeOK, Posting, Idle, Sent

\* What is resolved stays so while contradictions are only created and resolved.
LEMMA ResolvedStays ==
    ASSUME \A k \in contradictions : k.status = "RESOLVED" =>
             \E l \in contradictions' : l.id = k.id /\ l.status = "RESOLVED",
           NEW b, IsResolved(b)
    PROVE  IsResolved(b)'
BY DEF IsResolved

LEMMA LeftStays ==
    ASSUME dissents \subseteq dissents', NEW b, IsLeft(b)
    PROVE  IsLeft(b)'
BY DEF IsLeft, OpenDissents

\* So the scripts, posts and bundles that are not touched stay clear.
LEMMA ClearStays ==
    ASSUME \A k \in contradictions : k.status = "RESOLVED" =>
             \E l \in contradictions' : l.id = k.id /\ l.status = "RESOLVED",
           dissents \subseteq dissents'
    PROVE  /\ \A blockers : Cleared(blockers) => Cleared(blockers)'
           /\ \A blockers : HalfCleared(blockers) => HalfCleared(blockers)'
<1>1. \A b : IsResolved(b) => IsResolved(b)'
  BY ResolvedStays
<1>2. \A b : IsLeft(b) => IsLeft(b)'
  BY LeftStays
<1> QED
  BY <1>1, <1>2 DEF Cleared, HalfCleared

-----------------------------------------------------------------------------
(***************************************************************************)
(* Steps of the reviews and of the contradictions.                         *)
(***************************************************************************)
LEMMA DissentsGrow == [ReviewNext]_reviewVars => dissents \subseteq dissents'
BY DEF ReviewNext, reviewVars, CountAll, CountPair, AnswerKnown, KeyIsFree, Commit,
    CommitFails, Crash, Tick

LEMMA OtherStepsPreserve ==
    ASSUME GateInductive, dissents \subseteq dissents',
           contradictions' \subseteq Contradiction,
           resolving' \in [Resolver -> ContradictionId \cup {None}],
           \A k, l \in contradictions' : k.id = l.id => k = l,
           \A k \in contradictions : k.status = "RESOLVED" =>
             \E l \in contradictions' : l.id = k.id /\ l.status = "RESOLVED",
           UNCHANGED <<script, posting, bundles, release_artifacts, rehearsing, objects,
                       rehearsals>>
    PROVE  GateInductive'
<1> USE DEF GateInductive
<1>1. GateTypeOK' /\ ContradictionIdsAreUnique'
  BY DEF GateTypeOK, ContradictionIdsAreUnique
<1>2. /\ \A blockers : Cleared(blockers) => Cleared(blockers)'
      /\ \A blockers : HalfCleared(blockers) => HalfCleared(blockers)'
  BY ClearStays
<1>3. ChecksAreClear' /\ PostsAreClear' /\ BundlesAreClear'
  BY <1>2 DEF ChecksAreClear, PostsAreClear, BundlesAreClear
<1> QED
  BY <1>1, <1>3
  DEF FlushedIsAlone, BundlesAreWhole, PostIsOwn, CreatedIsStored,
      StoredBeforeRegistered, RehearsalsAreStored

LEMMA ContradictionStepsPreserve ==
    ASSUME GateInductive, UNCHANGED reviewVars,
           \/ \E id \in ContradictionId, blocking \in BOOLEAN :
                 CreateContradiction(id, blocking)
           \/ \E v \in Resolver :
                 (\E k \in contradictions : ReadOpen(v, k)) \/ Resolve(v)
    PROVE  GateInductive'
<1>0. dissents \subseteq dissents'
  BY DEF reviewVars
<1>1. ASSUME NEW id \in ContradictionId, NEW blocking \in BOOLEAN,
             CreateContradiction(id, blocking)
      PROVE  GateInductive'
  <2>1. [id |-> id, blocking |-> blocking, status |-> "OPEN", resolved_by |-> None]
            \in Contradiction
    BY DEF Contradiction
  <2>2. contradictions' \subseteq Contradiction
    BY <1>1, <2>1 DEF CreateContradiction, GateInductive, GateTypeOK
  <2>3. \A k, l \in contradictions' : k.id = l.id => k = l
    BY <1>1 DEF CreateContradiction, GateInductive, ContradictionIdsAreUnique
  <2> QED
    BY <1>0, <1>1, <2>2, <2>3, OtherStepsPreserve
    DEF CreateContradiction, GateInductive, GateTypeOK
<1>2. ASSUME NEW v \in Resolver, NEW k \in contradictions, ReadOpen(v, k)
      PROVE  GateInductive'
  <2>1. resolving' \in [Resolver -> ContradictionId \cup {None}]
    BY <1>2 DEF ReadOpen, GateInductive, GateTypeOK, Contradiction
  <2> QED
    BY <1>0, <1>2, <2>1, OtherStepsPreserve
    DEF ReadOpen, GateInductive, GateTypeOK, ContradictionIdsAreUnique
<1>3. ASSUME NEW v \in Resolver, Resolve(v)
      PROVE  GateInductive'
  <2>1. PICK k \in contradictions :
            /\ k.id = resolving[v]
            /\ contradictions' = (contradictions \ {k}) \cup
                  {[k EXCEPT !.status = "RESOLVED", !.resolved_by = v]}
    BY <1>3 DEF Resolve
  <2> DEFINE l == [k EXCEPT !.status = "RESOLVED", !.resolved_by = v]
  <2>2. l \in Contradiction /\ l.id = k.id /\ l.status = "RESOLVED"
    BY DEF GateInductive, GateTypeOK, Contradiction
  <2> HIDE DEF l
  <2>3. contradictions' = (contradictions \ {k}) \cup {l}
    BY <2>1 DEF l
  <2>4. contradictions' \subseteq Contradiction
    BY <2>2, <2>3 DEF GateInductive, GateTypeOK
  <2>5. \A m, n \in contradictions' : m.id = n.id => m = n
    BY <2>2, <2>3 DEF GateInductive, ContradictionIdsAreUnique
  <2>6. \A m \in contradictions : m.status = "RESOLVED" =>
           \E n \in contradictions' : n.id = m.id /\ n.status = "RESOLVED"
    BY <2>2, <2>3
  <2>7. resolving' \in [Resolver -> ContradictionId \cup {None}]
    BY <1>3 DEF Resolve, GateInductive, GateTypeOK
  <2> QED
    BY <1>0, <1>3, <2>4, <2>5, <2>6, <2>7, OtherStepsPreserve DEF Resolve
<1> QED
  BY <1>1, <1>2, <1>3

-----------------------------------------------------------------------------
(***************************************************************************)
(* Steps of the script.                                                    *)
(***************************************************************************)
\* A script that does not wait for an answer changes nothing but itself.
LEMMA ScriptStepPreserves ==
    ASSUME GateInductive, NEW r \in Run, NEW h \in Script,
           script' = [script EXCEPT ![r] = h],
           h.step \notin {"posted", "created"},
           h.step = "half_read" => HalfCleared(h.recorded),
           h.step = "clear" => Cleared(h.recorded),
           UNCHANGED <<contradictions, resolving, dissents, posting, bundles,
                       release_artifacts, rehearsing, objects, rehearsals>>
    PROVE  GateInductive'
<1> USE DEF GateInductive
<1>1. \A p \in Run : script'[p] = IF p = r THEN h ELSE script[p]
  BY DEF GateTypeOK
<1>2. GateTypeOK'
  BY DEF GateTypeOK
<1>3. /\ \A blockers : Cleared(blockers) => Cleared(blockers)'
      /\ \A blockers : HalfCleared(blockers) => HalfCleared(blockers)'
  BY ClearStays
<1>4. ChecksAreClear'
  BY <1>1, <1>3 DEF ChecksAreClear
<1>5. PostsAreClear' /\ BundlesAreClear'
  BY <1>3 DEF PostsAreClear, BundlesAreClear
<1>6. PostIsOwn' /\ CreatedIsStored'
  BY <1>1 DEF PostIsOwn, CreatedIsStored
<1> QED
  BY <1>2, <1>4, <1>5, <1>6
  DEF ContradictionIdsAreUnique, FlushedIsAlone, BundlesAreWhole,
      StoredBeforeRegistered, RehearsalsAreStored

LEMMA FailedPreserves ==
    ASSUME GateInductive, NEW r \in Run, script[r].step # "idle", script' = Failed(r),
           UNCHANGED <<contradictions, resolving, dissents, posting, bundles,
                       release_artifacts, rehearsing, objects, rehearsals>>
    PROVE  GateInductive'
<1> DEFINE h == [step |-> "failed", release |-> script[r].release]
<1>1. h \in Script
  BY DEF GateInductive, GateTypeOK, Script, Idle
<1>2. script' = [script EXCEPT ![r] = h]
  BY DEF Failed, GateInductive, GateTypeOK
<1>3. h.step = "failed"
  OBVIOUS
<1> HIDE DEF h
<1> QED
  BY <1>1, <1>2, <1>3, ScriptStepPreserves

LEMMA BuildPreserves ==
    ASSUME GateInductive, UNCHANGED reviewVars, NEW r \in Run, NEW release \in ReleaseId,
           NEW manifest \in Manifest, BuildComponents(r, release, manifest)
    PROVE  GateInductive'
<1> DEFINE h == [step |-> "built", release |-> release, manifest |-> manifest]
<1>1. h \in Script /\ h.step = "built"
  BY ReleaseAssumption DEF Script
<1>2. script' = [script EXCEPT ![r] = h]
  BY DEF BuildComponents
<1> HIDE DEF h
<1> QED
  BY <1>1, <1>2, ScriptStepPreserves DEF BuildComponents, reviewVars

LEMMA ReadContradictionsPreserves ==
    ASSUME GateInductive, ReviewTypeOK, UNCHANGED reviewVars, NEW r \in Run,
           ReadContradictions(r)
    PROVE  GateInductive'
<1> DEFINE h == [step |-> "half_read", release |-> script[r].release,
                 manifest |-> script[r].manifest, recorded |-> Recorded]
<1>1. /\ script[r].step = "built"
      /\ UNCHANGED <<contradictions, resolving, dissents, posting, bundles,
                     release_artifacts, rehearsing, objects, rehearsals>>
  BY DEF ReadContradictions, reviewVars
<1>2. CASE OpenContradictions # {}
  BY <1>1, <1>2, FailedPreserves DEF ReadContradictions
<1>3. CASE OpenContradictions = {}
  <2>1. script' = [script EXCEPT ![r] = h]
    BY <1>3 DEF ReadContradictions, GateInductive, GateTypeOK
  <2>2. \A k \in contradictions : k.blocking => k.status = "RESOLVED"
    BY <1>3 DEF OpenContradictions, GateInductive, GateTypeOK, Contradiction
  <2>3. HalfCleared(Recorded)
    BY <2>2 DEF HalfCleared, Recorded, IsResolved, IsLeft
  <2>4. \A d \in OpenDissents : d.linked_review \in DecisionId
    BY DEF OpenDissents, ReviewTypeOK, Dissent
  <2>5. Recorded \in SUBSET Blocker
    BY <2>4 DEF Recorded, Blocker, GateInductive, GateTypeOK, Contradiction
  <2>6. h \in Script /\ h.step = "half_read" /\ h.recorded = Recorded
    BY <1>1, <2>5, ScriptFields DEF Script, GateInductive
  <2> HIDE DEF h
  <2> QED
    BY <1>1, <2>1, <2>3, <2>6, ScriptStepPreserves
<1> QED
  BY <1>2, <1>3

LEMMA ReadDissentsPreserves ==
    ASSUME GateInductive, UNCHANGED reviewVars, NEW r \in Run, ReadDissents(r)
    PROVE  GateInductive'
<1> DEFINE h == [step |-> "clear", release |-> script[r].release,
                 manifest |-> script[r].manifest, recorded |-> script[r].recorded]
<1>1. /\ script[r].step = "half_read"
      /\ UNCHANGED <<contradictions, resolving, dissents, posting, bundles,
                     release_artifacts, rehearsing, objects, rehearsals>>
  BY DEF ReadDissents, reviewVars
<1>2. CASE OpenDissents # {}
  BY <1>1, <1>2, FailedPreserves DEF ReadDissents
<1>3. CASE OpenDissents = {}
  <2>1. [script[r] EXCEPT !.step = "clear"] = h
    BY <1>1 DEF GateInductive, GateTypeOK, Script, Idle
  <2>2. script' = [script EXCEPT ![r] = h]
    BY <1>3, <2>1 DEF ReadDissents, GateInductive, GateTypeOK
  <2>3. Cleared(script[r].recorded)
    BY <1>1, <1>3 DEF Cleared, HalfCleared, IsLeft, GateInductive, ChecksAreClear
  <2>4. h \in Script /\ h.step = "clear" /\ h.recorded = script[r].recorded
    BY <1>1, ScriptFields DEF Script, GateInductive
  <2> HIDE DEF h
  <2> QED
    BY <1>1, <2>2, <2>3, <2>4, ScriptStepPreserves
<1> QED
  BY <1>2, <1>3

\* A request comes in, from the script or from elsewhere.
LEMMA SendPreserves ==
    ASSUME GateInductive, NEW p \in Poster, NEW request \in BundleRequest,
           NEW gate \in (SUBSET Blocker) \cup {None}, gate # None => Cleared(gate),
           posting' = [posting EXCEPT ![p] =
               [step |-> "received", request |-> request, gate |-> gate]],
           \/ p \notin Run /\ script' = script
           \/ /\ p \in Run
              /\ script' = [script EXCEPT ![p] =
                    [step |-> "posted", release |-> request.release]],
           UNCHANGED <<contradictions, resolving, dissents, bundles,
                       release_artifacts, rehearsing, objects, rehearsals>>
    PROVE  GateInductive'
<1> USE DEF GateInductive
<1> DEFINE h == [step |-> "received", request |-> request, gate |-> gate]
           sc == [step |-> "posted", release |-> request.release]
<1>1. h \in Posting /\ sc \in Script
  BY DEF Posting, Script, BundleRequest
<1>2. \A o \in Poster : posting'[o] = IF o = p THEN h ELSE posting[o]
  BY DEF GateTypeOK
<1>3. \A r \in Run : script'[r] = IF r = p THEN sc ELSE script[r]
  BY DEF GateTypeOK
<1>4. h.step = "received" /\ h.request = request /\ h.gate = gate
  OBVIOUS
<1>5. sc.step = "posted" /\ sc.release = request.release
  OBVIOUS
<1>6. GateTypeOK'
  BY <1>1 DEF GateTypeOK
<1> HIDE DEF h, sc
<1>7. /\ \A blockers : Cleared(blockers) => Cleared(blockers)'
      /\ \A blockers : HalfCleared(blockers) => HalfCleared(blockers)'
  BY ClearStays
<1>8. ChecksAreClear'
  BY <1>3, <1>5, <1>7 DEF ChecksAreClear
<1>9. PostsAreClear' /\ BundlesAreClear'
  BY <1>2, <1>4, <1>7 DEF PostsAreClear, BundlesAreClear
<1>10. FlushedIsAlone'
  BY <1>2, <1>4 DEF FlushedIsAlone
<1>11. PostIsOwn' /\ CreatedIsStored'
  BY <1>2, <1>3, <1>4, <1>5, RunsArePosters DEF PostIsOwn, CreatedIsStored
<1> QED
  BY <1>6, <1>8, <1>9, <1>10, <1>11
  DEF ContradictionIdsAreUnique, BundlesAreWhole, StoredBeforeRegistered,
      RehearsalsAreStored

LEMMA PostPreserves ==
    ASSUME GateInductive, UNCHANGED reviewVars,
           \/ \E r \in Run : PostBundle(r)
           \/ \E p \in Direct, request \in DirectPost : PostDirectly(p, request)
    PROVE  GateInductive'
<1>1. ASSUME NEW r \in Run, PostBundle(r) PROVE GateInductive'
  <2> DEFINE request == [release |-> script[r].release, artifacts |-> script[r].manifest,
                         digests |-> Range(script[r].manifest)]
  <2>1. script[r].step = "clear"
    BY <1>1 DEF PostBundle
  <2>2. /\ script[r].release \in ReleaseId /\ script[r].manifest \in Seq(ArtifactId)
        /\ script[r].recorded \in SUBSET Blocker /\ Cleared(script[r].recorded)
    BY <2>1, ScriptFields DEF GateInductive, ChecksAreClear
  <2>3. request \in BundleRequest /\ request.release = script[r].release
    BY <2>2, ManifestRange DEF BundleRequest
  <2>4. posting' = [posting EXCEPT ![r] =
           [step |-> "received", request |-> request, gate |-> script[r].recorded]]
    BY <1>1 DEF PostBundle
  <2>5. script' = [script EXCEPT ![r] = [step |-> "posted", release |-> request.release]]
    BY <1>1, <2>3 DEF PostBundle, GateInductive, GateTypeOK
  <2> HIDE DEF request
  <2>6. r \in Poster /\ script[r].recorded \in (SUBSET Blocker) \cup {None}
    BY <2>2, RunsArePosters
  <2>7. UNCHANGED <<contradictions, resolving, dissents, bundles, release_artifacts,
                    rehearsing, objects, rehearsals>>
    BY <1>1 DEF PostBundle, reviewVars
  <2> QED
    BY <2>2, <2>3, <2>4, <2>5, <2>6, <2>7, SendPreserves
<1>2. ASSUME NEW p \in Direct, NEW request \in DirectPost, PostDirectly(p, request)
      PROVE  GateInductive'
  <2>1. p \in Poster /\ p \notin Run /\ request \in BundleRequest
    BY ReleaseAssumption DEF Poster
  <2> QED
    BY <1>2, <2>1, SendPreserves DEF PostDirectly, reviewVars
<1> QED
  BY <1>1, <1>2

-----------------------------------------------------------------------------
(***************************************************************************)
(* Steps of the endpoint.                                                  *)
(***************************************************************************)
\* What the script makes of an answer.
LEMMA ScriptAfterFields ==
    ASSUME GateTypeOK, NEW p \in Poster, NEW step \in {"created", "failed"},
           script' = ScriptAfter(p, step)
    PROVE  /\ script' \in [Run -> Script]
           /\ \A r \in Run :
                \/ script'[r] = script[r] /\ ~(r = p /\ script[r].step = "posted")
                \/ /\ r = p /\ script[r].step = "posted"
                   /\ script'[r].step = step
                   /\ script'[r].release = script[r].release
<1>1. CASE p \in Run /\ script[p].step = "posted"
  <2> DEFINE h == [step |-> step, release |-> script[p].release]
  <2>1. [script[p] EXCEPT !.step = step] = h /\ h \in Script
    BY <1>1 DEF GateTypeOK, Script, Idle
  <2>2. script' = [script EXCEPT ![p] = h]
    BY <1>1, <2>1 DEF ScriptAfter, GateTypeOK
  <2> QED
    BY <1>1, <2>1, <2>2 DEF GateTypeOK
<1>2. CASE ~(p \in Run /\ script[p].step = "posted")
  BY <1>2 DEF ScriptAfter, GateTypeOK
<1> QED
  BY <1>1, <1>2

LEMMA RefusePreserves ==
    ASSUME GateInductive, UNCHANGED reviewVars, NEW p \in Poster, Refuse(p)
    PROVE  GateInductive'
<1> USE DEF GateInductive
<1>1. /\ posting' = [posting EXCEPT ![p] = Idle] /\ script' = ScriptAfter(p, "failed")
      /\ UNCHANGED <<contradictions, resolving, dissents, bundles, release_artifacts,
                     rehearsing, objects, rehearsals>>
  BY DEF Refuse, reviewVars
<1>2. \A o \in Poster : posting'[o] = IF o = p THEN Idle ELSE posting[o]
  BY <1>1 DEF GateTypeOK
<1>3. /\ script' \in [Run -> Script]
      /\ \A r \in Run :
            \/ script'[r] = script[r]
            \/ script'[r].step = "failed"
  BY <1>1, ScriptAfterFields
<1>4. GateTypeOK'
  BY <1>1, <1>3 DEF GateTypeOK, Posting
<1>5. /\ \A blockers : Cleared(blockers) => Cleared(blockers)'
      /\ \A blockers : HalfCleared(blockers) => HalfCleared(blockers)'
  BY <1>1, ClearStays
<1>6. ChecksAreClear'
  BY <1>3, <1>5 DEF ChecksAreClear
<1>7. PostsAreClear' /\ BundlesAreClear'
  BY <1>1, <1>2, <1>5 DEF PostsAreClear, BundlesAreClear, Idle, Sent
<1>8. FlushedIsAlone'
  BY <1>1, <1>2 DEF FlushedIsAlone, Idle
<1>9. PostIsOwn' /\ CreatedIsStored'
  BY <1>1, <1>2, <1>3, RunsArePosters DEF PostIsOwn, CreatedIsStored, Idle, Sent
<1> QED
  BY <1>1, <1>4, <1>6, <1>7, <1>8, <1>9
  DEF ContradictionIdsAreUnique, BundlesAreWhole, StoredBeforeRegistered,
      RehearsalsAreStored

LEMMA FlushPreserves ==
    ASSUME GateInductive, UNCHANGED reviewVars, NEW p \in Poster, FlushBundle(p)
    PROVE  GateInductive'
<1> USE DEF GateInductive
<1>1. CASE \E b \in bundles : b.release = posting[p].request.release
  BY <1>1, RefusePreserves DEF FlushBundle
<1>2. CASE ~\E b \in bundles : b.release = posting[p].request.release
  <2> DEFINE h == [step |-> "flushed", request |-> posting[p].request,
                   gate |-> posting[p].gate]
  <2>1. /\ posting[p].step = "received"
        /\ posting' = [posting EXCEPT ![p].step = "flushed"]
        /\ \A o \in Poster : posting[o].step = "flushed" =>
              posting[o].request.release # posting[p].request.release
        /\ UNCHANGED <<contradictions, resolving, script, dissents, bundles,
                       release_artifacts, rehearsing, objects, rehearsals>>
    BY <1>2 DEF FlushBundle, reviewVars
  <2>2. [posting[p] EXCEPT !.step = "flushed"] = h
    BY <2>1 DEF GateTypeOK, Posting, Idle
  <2>3. h \in Posting
    BY <2>1, PostingFields DEF Posting, Sent
  <2>4. posting' = [posting EXCEPT ![p] = h]
    BY <2>1, <2>2 DEF GateTypeOK
  <2>5. \A o \in Poster : posting'[o] = IF o = p THEN h ELSE posting[o]
    BY <2>4 DEF GateTypeOK
  <2>6. h.step = "flushed" /\ h.request = posting[p].request /\ h.gate = posting[p].gate
    OBVIOUS
  <2> HIDE DEF h
  <2>7. GateTypeOK'
    BY <2>1, <2>3, <2>4 DEF GateTypeOK
  <2>8. /\ \A blockers : Cleared(blockers) => Cleared(blockers)'
        /\ \A blockers : HalfCleared(blockers) => HalfCleared(blockers)'
    BY <2>1, ClearStays
  <2>9. ChecksAreClear' /\ BundlesAreClear'
    BY <2>1, <2>8 DEF ChecksAreClear, BundlesAreClear
  <2>10. PostsAreClear'
    BY <2>1, <2>5, <2>6, <2>8 DEF PostsAreClear, Sent
  <2>11. FlushedIsAlone'
    BY <1>2, <2>1, <2>5, <2>6 DEF FlushedIsAlone
  <2>12. PostIsOwn' /\ CreatedIsStored'
    BY <2>1, <2>5, <2>6, RunsArePosters DEF PostIsOwn, CreatedIsStored, Sent
  <2> QED
    BY <2>1, <2>7, <2>9, <2>10, <2>11, <2>12
    DEF ContradictionIdsAreUnique, BundlesAreWhole, StoredBeforeRegistered,
        RehearsalsAreStored
<1> QED
  BY <1>1, <1>2

\* Bundles stay whole when one more is stored with its artifacts.
LEMMA OneMoreIsWhole ==
    ASSUME BundlesAreWhole, NEW b, NEW request,
           b.release = request.release, b.artifacts = request.artifacts,
           \A d \in bundles : d.release # request.release,
           ~Taken(request),
           bundles' = bundles \cup {b},
           release_artifacts' = release_artifacts \cup ArtifactsOf(request)
    PROVE  BundlesAreWhole'
<1>1. \A a \in ArtifactsOf(request) : a.release = request.release /\ a.id \in Range(request.artifacts)
  BY DEF ArtifactsOf
<1>2. ASSUME NEW x \in Range(request.artifacts)
      PROVE  \E a \in ArtifactsOf(request) : a.id = x
  <2>1. [id |-> x, release |-> request.release] \in ArtifactsOf(request)
    BY DEF ArtifactsOf
  <2> QED
    BY <2>1
<1>3. \A a, e \in ArtifactsOf(request) : a.id = e.id => a = e
  BY DEF ArtifactsOf
<1>4. \A a \in release_artifacts : a.id \notin Range(request.artifacts)
  BY DEF Taken
<1>5. \A a \in release_artifacts : a.release # request.release
  BY DEF BundlesAreWhole
<1>6. \A c, d \in bundles' : c.release = d.release => c = d
  BY DEF BundlesAreWhole
<1>7. \A a, e \in release_artifacts' : a.id = e.id => a = e
  BY <1>1, <1>3, <1>4 DEF BundlesAreWhole
<1>8. {a.id : a \in {e \in release_artifacts' : e.release = b.release}} = Range(b.artifacts)
  BY <1>1, <1>2, <1>5
<1>9. ASSUME NEW d \in bundles
      PROVE  {a.id : a \in {e \in release_artifacts' : e.release = d.release}} = Range(d.artifacts)
  <2>1. {e \in release_artifacts' : e.release = d.release}
          = {e \in release_artifacts : e.release = d.release}
    BY <1>1
  <2>2. {a.id : a \in {e \in release_artifacts : e.release = d.release}} = Range(d.artifacts)
    BY DEF BundlesAreWhole
  <2> QED
    BY <2>1, <2>2
<1>10. \A a \in release_artifacts' : \E d \in bundles' : a.release = d.release
  BY <1>1 DEF BundlesAreWhole
<1> QED
  BY <1>6, <1>7, <1>8, <1>9, <1>10 DEF BundlesAreWhole

LEMMA CommitBundlePreserves ==
    ASSUME GateInductive, UNCHANGED reviewVars, NEW p \in Poster, CommitBundle(p)
    PROVE  GateInductive'
<1> USE DEF GateInductive
<1>1. CASE Taken(posting[p].request)
  BY <1>1, RefusePreserves DEF CommitBundle
<1>2. CASE ~Taken(posting[p].request)
  <2>1. PICK request \in BundleRequest, gate \in (SUBSET Blocker) \cup {None} :
            request = posting[p].request /\ gate = posting[p].gate
    BY PostingFields DEF CommitBundle, Sent
  <2> DEFINE b == [release |-> request.release, artifacts |-> request.artifacts,
                   gate |-> gate]
  <2>2. /\ posting[p].step = "flushed"
        /\ bundles' = bundles \cup {b}
        /\ release_artifacts' = release_artifacts \cup ArtifactsOf(request)
        /\ posting' = [posting EXCEPT ![p] = Idle]
        /\ script' = ScriptAfter(p, "created")
        /\ UNCHANGED <<contradictions, resolving, dissents, rehearsing, objects, rehearsals>>
    BY <1>2, <2>1 DEF CommitBundle, reviewVars
  <2>3. b.release = request.release /\ b.artifacts = request.artifacts /\ b.gate = gate
    OBVIOUS
  <2>4. b \in Bundle
    BY DEF Bundle, BundleRequest
  <2>5. ArtifactsOf(request) \subseteq ReleaseArtifact
    BY ManifestRange DEF ArtifactsOf, ReleaseArtifact, BundleRequest
  <2> HIDE DEF b
  <2>6. \A o \in Poster : posting'[o] = IF o = p THEN Idle ELSE posting[o]
    BY <2>2 DEF GateTypeOK
  <2>7. /\ script' \in [Run -> Script]
        /\ \A r \in Run :
              \/ script'[r] = script[r] /\ ~(r = p /\ script[r].step = "posted")
              \/ /\ r = p /\ script[r].step = "posted"
                 /\ script'[r].step = "created"
                 /\ script'[r].release = script[r].release
    BY <2>2, ScriptAfterFields
  <2>8. GateTypeOK'
    BY <2>2, <2>4, <2>5, <2>7 DEF GateTypeOK, Posting
  <2>9. /\ \A blockers : Cleared(blockers) => Cleared(blockers)'
        /\ \A blockers : HalfCleared(blockers) => HalfCleared(blockers)'
    BY <2>2, ClearStays
  <2>10. ChecksAreClear'
    BY <2>7, <2>9 DEF ChecksAreClear
  <2>11. PostsAreClear'
    BY <2>6, <2>9 DEF PostsAreClear, Idle, Sent
  <2>12. gate # None => Cleared(gate)
    BY <2>1, <2>2 DEF PostsAreClear, Sent
  <2>13. BundlesAreClear'
    BY <2>2, <2>3, <2>9, <2>12 DEF BundlesAreClear
  <2>14. \A d \in bundles : d.release # request.release
    BY <2>1, <2>2 DEF FlushedIsAlone
  <2>15. FlushedIsAlone'
    BY <2>1, <2>2, <2>3, <2>6 DEF FlushedIsAlone, Idle
  <2>16. BundlesAreWhole'
    BY <1>2, <2>1, <2>2, <2>3, <2>14, OneMoreIsWhole
  <2>17. PostIsOwn'
    BY <2>6, <2>7, RunsArePosters DEF PostIsOwn, Idle, Sent
  <2>18. CreatedIsStored'
    <3> SUFFICES ASSUME NEW r \in Run, script'[r].step = "created"
                 PROVE  \E d \in bundles' : d.release = script'[r].release
      BY DEF CreatedIsStored
    <3>1. CASE script'[r] = script[r]
      BY <2>2, <3>1 DEF CreatedIsStored
    <3>2. CASE /\ r = p /\ script[r].step = "posted"
               /\ script'[r].release = script[r].release
      <4>1. script[r].release = request.release
        BY <2>1, <2>2, <3>2 DEF PostIsOwn, Sent
      <4> QED
        BY <2>2, <2>3, <3>2, <4>1
    <3> QED
      BY <2>7, <3>1, <3>2
  <2> QED
    BY <2>2, <2>8, <2>10, <2>11, <2>13, <2>15, <2>16, <2>17, <2>18
    DEF ContradictionIdsAreUnique, StoredBeforeRegistered, RehearsalsAreStored
<1> QED
  BY <1>1, <1>2

LEMMA RehearsalStepsPreserve ==
    ASSUME GateInductive, UNCHANGED reviewVars, NEW x \in Rehearsal,
           PutRehearsal(x) \/ CommitRehearsal(x) \/ LoseRehearsal(x)
    PROVE  GateInductive'
<1> USE DEF GateInductive
<1>1. /\ UNCHANGED <<contradictions, resolving, script, dissents, posting, bundles,
                     release_artifacts>>
      /\ rehearsing' \in [Rehearsal -> {"idle", "stored", "done"}]
      /\ objects' \subseteq Rehearsal /\ rehearsals' \subseteq Rehearsal
  BY DEF PutRehearsal, CommitRehearsal, LoseRehearsal, GateTypeOK, reviewVars
<1>2. StoredBeforeRegistered' /\ RehearsalsAreStored'
  BY DEF PutRehearsal, CommitRehearsal, LoseRehearsal, GateTypeOK, StoredBeforeRegistered,
     RehearsalsAreStored
<1>3. GateTypeOK'
  BY <1>1 DEF GateTypeOK
<1>4. /\ \A blockers : Cleared(blockers) => Cleared(blockers)'
      /\ \A blockers : HalfCleared(blockers) => HalfCleared(blockers)'
  BY <1>1, ClearStays
<1>5. ChecksAreClear' /\ PostsAreClear' /\ BundlesAreClear'
  BY <1>1, <1>4 DEF ChecksAreClear, PostsAreClear, BundlesAreClear
<1> QED
  BY <1>1, <1>2, <1>3, <1>5
  DEF ContradictionIdsAreUnique, FlushedIsAlone, BundlesAreWhole, PostIsOwn, CreatedIsStored

-----------------------------------------------------------------------------
GateAndReviews == ReviewInductive /\ GateInductive

LEMMA NextPreserves == GateAndReviews /\ [Next]_vars => GateAndReviews'
<1> SUFFICES ASSUME ReviewInductive, GateInductive, [Next]_vars
             PROVE  ReviewInductive' /\ GateInductive'
  BY DEF GateAndReviews
<1>1. [ReviewNext]_reviewVars
  BY DEF Next, vars
<1>2. ReviewInductive'
  BY <1>1, ReviewNextPreserves
<1>3. ASSUME UNCHANGED gateVars PROVE GateInductive'
  <2>1. dissents \subseteq dissents'
    BY <1>1, DissentsGrow
  <2>2. /\ contradictions' \subseteq Contradiction
        /\ resolving' \in [Resolver -> ContradictionId \cup {None}]
        /\ \A k, l \in contradictions' : k.id = l.id => k = l
        /\ contradictions' = contradictions
        /\ UNCHANGED <<script, posting, bundles, release_artifacts, rehearsing, objects,
                       rehearsals>>
    BY <1>3 DEF gateVars, GateInductive, GateTypeOK, ContradictionIdsAreUnique
  <2> QED
    BY <2>1, <2>2, OtherStepsPreserve
<1>4. ASSUME GateNext, UNCHANGED reviewVars PROVE GateInductive'
  <2>0. ReviewTypeOK /\ UNCHANGED reviewVars
    BY <1>4 DEF ReviewInductive
  <2>1. ASSUME NEW r \in Run, TimeOut(r) PROVE GateInductive'
    BY <2>0, <2>1, FailedPreserves DEF TimeOut, reviewVars
  <2>2. ASSUME NEW p \in Poster, RejectReferences(p) \/ LoseRequest(p) PROVE GateInductive'
    BY <2>0, <2>2, RefusePreserves DEF RejectReferences, LoseRequest
  <2>3. CASE \/ \E id \in ContradictionId, blocking \in BOOLEAN :
                   CreateContradiction(id, blocking)
             \/ \E v \in Resolver :
                   (\E k \in contradictions : ReadOpen(v, k)) \/ Resolve(v)
    BY <2>0, <2>3, ContradictionStepsPreserve
  <2>4. CASE \E r \in Run : \E release \in ReleaseId, manifest \in Manifest :
                BuildComponents(r, release, manifest)
    BY <2>0, <2>4, BuildPreserves
  <2>5. CASE \E r \in Run : ReadContradictions(r) \/ ReadDissents(r)
    BY <2>0, <2>5, ReadContradictionsPreserves, ReadDissentsPreserves
  <2>6. CASE \/ \E r \in Run : PostBundle(r)
             \/ \E p \in Direct, request \in DirectPost : PostDirectly(p, request)
    BY <2>0, <2>6, PostPreserves
  <2>7. CASE \E p \in Poster : FlushBundle(p) \/ CommitBundle(p)
    BY <2>0, <2>7, FlushPreserves, CommitBundlePreserves
  <2>8. CASE \E x \in Rehearsal : PutRehearsal(x) \/ CommitRehearsal(x) \/ LoseRehearsal(x)
    BY <2>0, <2>8, RehearsalStepsPreserve
  <2> QED
    BY <1>4, <2>1, <2>2, <2>3, <2>4, <2>5, <2>6, <2>7, <2>8 DEF GateNext
<1> QED
  BY <1>2, <1>3, <1>4 DEF Next, vars

LEMMA GateInvariant == Spec => []GateAndReviews
<1>1. Init => GateAndReviews
  BY ReviewInitInductive, GateInitInductive DEF Init, GateAndReviews
<1> QED
  BY <1>1, NextPreserves, PTL DEF Spec

\* Tables, handlers and scripts have their types.
THEOREM GateTypeCorrect == Spec => []TypeOK
<1>1. GateAndReviews => TypeOK
  BY DEF GateAndReviews, ReviewInductive, GateInductive, GateTypeOK, TypeOK
<1> QED
  BY <1>1, GateInvariant, PTL

\* A key stands for one decision, a decision has its dissent and its event, and
\* whoever was answered with a decision has it.
THEOREM DecisionsStandForGood == Spec => []DecisionsStand
<1>1. GateAndReviews => DecisionsStand
  BY DEF GateAndReviews, ReviewInductive, DecisionsStand
<1> QED
  BY <1>1, GateInvariant, PTL

\* Scripts, releases and contradictions leave the decisions to themselves: what
\* is shown of the review API alone holds beside them.
THEOREM ReviewsStandAlone == Spec => ReviewSpec
<1>1. Init => ReviewInit
  BY DEF Init
<1>2. [Next]_vars => [ReviewNext]_reviewVars
  BY DEF Next, vars
<1> QED
  BY <1>1, <1>2, PTL DEF Spec, ReviewSpec

\* Requests judged at the same time get past the independence rule by one decision
\* a process at most.
THEOREM PairShareHolds == Spec => []PairShareIsBounded
BY ReviewsStandAlone, PairShareBounded, PTL

\* A bundle the script posted ignores nothing that was recorded when it checked.
THEOREM GateHolds == Spec => []GateSeesOlderBlockers
<1>1. GateAndReviews => GateSeesOlderBlockers
  <2> SUFFICES ASSUME GateAndReviews, NEW b \in bundles, b.gate # None,
                      NEW x \in b.gate, x \in OpenBlockers
               PROVE  FALSE
    BY DEF GateSeesOlderBlockers
  <2>1. PICK k \in contradictions : x = <<"contradiction", k.id>> /\ k.status = "RESOLVED"
    BY DEF GateAndReviews, GateInductive, BundlesAreClear, Cleared, IsResolved
  <2>2. PICK l \in OpenContradictions : x = <<"contradiction", l.id>>
    BY <2>1 DEF OpenBlockers
  <2>3. l \in contradictions /\ l.status = "OPEN" /\ l.id = k.id
    BY <2>1, <2>2 DEF OpenContradictions
  <2> QED
    BY <2>1, <2>3 DEF GateAndReviews, GateInductive, ContradictionIdsAreUnique
<1> QED
  BY <1>1, GateInvariant, PTL

\* Releases have one bundle with all of its artifacts, reports of the script are
\* true, and registered rehearsals are stored.
THEOREM ReleasesWhole == Spec => []ReleasesAreWhole
<1>1. GateAndReviews => ReleasesAreWhole
  BY DEF GateAndReviews, GateInductive, ReleasesAreWhole
<1> QED
  BY <1>1, GateInvariant, PTL
=============================================================================
