----------------------- MODULE ReviewDecisionsProofs -----------------------
(***************************************************************************)
(* Theorems about ReviewDecisions: for any number of processes, requests   *)
(* and retries, what was decided stands, and the share of a pair that the  *)
(* independence rule bounds is exceeded by what the processes overlap.     *)
(***************************************************************************)
EXTENDS ReviewDecisions, FiniteSetTheorems, TLAPS

Counting == {"counted", "judged", "inserting"}

\* The count included the decision v, or v was too old for it.
Covered(v, saw, at) == v.id \in saw \/ v.decision_at < at - Window

\* The decisions that process s committed are covered by a later count of it.
CoversOwn(s, h) ==
    \A v \in reviews, j \in judged :
        j.id = v.id /\ j.server = s => Covered(v, h.saw, h.at)

CountsAreOwn ==
    \A s \in Server : handling[s].step \in Counting => CoversOwn(s, handling[s])

\* Of two decisions of one process, the later one's count covers the earlier.
OwnAreCovered ==
    \A v, w \in reviews, a, b \in judged :
        a.id = v.id /\ b.id = w.id /\ a.server = b.server /\ v # w =>
            Covered(v, b.saw, w.decision_at) \/ Covered(w, a.saw, v.decision_at)

JudgedAreStored == \A j \in judged : \E v \in reviews : v.id = j.id

ReviewInductive ==
    /\ ReviewTypeOK
    /\ IsFiniteSet(reviews)
    /\ OneDecisionPerKey
    /\ DecisionsAreComplete
    /\ AnswersAreStored
    /\ OwnAreCovered
    /\ CountsAreOwn
    /\ JudgedAreStored

rows == <<reviews, dissents, audit, accepted, judged, now>>

-----------------------------------------------------------------------------
LEMMA ReviewInitInductive == ReviewInit => ReviewInductive
BY FS_EmptySet
DEF ReviewInit, ReviewInductive, ReviewTypeOK, OneDecisionPerKey, DecisionsAreComplete,
    AnswersAreStored, OwnAreCovered, CountsAreOwn, CoversOwn, JudgedAreStored,
    Handling, Idle, Counting

\* What a process holds when it has counted.
LEMMA HandlingFields ==
    ASSUME ReviewTypeOK, NEW s \in Server
    PROVE  /\ handling[s].step \in Counting =>
                /\ handling[s].request \in ReviewRequest
                /\ handling[s].at \in Nat
                /\ handling[s].saw \in SUBSET DecisionId
           /\ handling[s].step = "counted" => handling[s].total \in Nat
           /\ handling[s].step \in {"judged", "inserting"} => handling[s].status \in Status
           /\ handling[s] = Idle \/ handling[s].step \in Counting
BY DEF ReviewTypeOK, Handling, Idle, Counting

\* Counts are numbers.
LEMMA CountType ==
    ASSUME IsFiniteSet(reviews), NEW at
    PROVE  Cardinality(InWindow(at)) \in Nat
<1>1. InWindow(at) \subseteq reviews
  BY DEF InWindow
<1> QED
  BY <1>1, FS_Subset, FS_CardinalityType

\* A process that counts, or is done, disturbs nothing but itself.
LEMMA OnlyHandling ==
    ASSUME ReviewInductive, NEW s \in Server, NEW h \in Handling, UNCHANGED rows,
           handling' = [handling EXCEPT ![s] = h],
           h.step \in Counting => CoversOwn(s, h)
    PROVE  ReviewInductive'
<1>1. \A p \in Server : handling'[p] = IF p = s THEN h ELSE handling[p]
  BY DEF ReviewInductive, ReviewTypeOK
<1>2. ReviewTypeOK'
  BY DEF ReviewInductive, ReviewTypeOK, rows
<1>3. CountsAreOwn'
  BY <1>1 DEF ReviewInductive, CountsAreOwn, CoversOwn, Covered, rows
<1> QED
  BY <1>2, <1>3
  DEF ReviewInductive, rows, OneDecisionPerKey, DecisionsAreComplete, AnswersAreStored,
      OwnAreCovered, Covered, JudgedAreStored

LEMMA CountAllPreserves ==
    ASSUME ReviewInductive, NEW s \in Server, NEW q \in Posted, CountAll(s, q)
    PROVE  ReviewInductive'
<1> DEFINE h == [step |-> "counted", request |-> q, at |-> now,
                 saw |-> {v.id : v \in InWindow(now)}, total |-> Cardinality(InWindow(now))]
<1>1. Cardinality(InWindow(now)) \in Nat
  BY CountType DEF ReviewInductive
<1>2. {v.id : v \in InWindow(now)} \in SUBSET DecisionId
  BY DEF ReviewInductive, ReviewTypeOK, Review, InWindow
<1>3. h \in Handling
  BY <1>1, <1>2, PostedAssumption DEF Handling, ReviewInductive, ReviewTypeOK
<1>4. CoversOwn(s, h)
  <2>1. \A v \in reviews : v.decision_at \in Nat /\ now \in Nat
    BY DEF ReviewInductive, ReviewTypeOK, Review
  <2>2. \A v \in reviews : v \in InWindow(now) \/ v.decision_at < now - Window
    BY <2>1, ClockAssumption DEF InWindow
  <2> QED
    BY <2>2 DEF CoversOwn, Covered
<1>5. handling' = [handling EXCEPT ![s] = h] /\ UNCHANGED rows
  BY DEF CountAll, rows
<1> HIDE DEF h
<1> QED
  BY <1>3, <1>4, <1>5, OnlyHandling

LEMMA GivesUp ==
    ASSUME ReviewInductive, NEW s \in Server, UNCHANGED rows,
           handling' = [handling EXCEPT ![s] = Idle]
    PROVE  ReviewInductive'
<1>1. Idle \in Handling /\ Idle.step \notin Counting
  BY DEF Handling, Idle, Counting
<1> QED
  BY <1>1, OnlyHandling

LEMMA CountPairPreserves ==
    ASSUME ReviewInductive, NEW s \in Server, CountPair(s)
    PROVE  ReviewInductive'
<1> DEFINE pair == Cardinality(PairInWindow(handling[s].request, handling[s].at))
           status == IndependenceStatus(pair, handling[s].total + 1)
           h == [step |-> "judged", request |-> handling[s].request,
                 at |-> handling[s].at, saw |-> handling[s].saw, status |-> status]
<1>1. handling[s].step = "counted" /\ UNCHANGED rows
  BY DEF CountPair, rows
<1>2. handling' = [handling EXCEPT ![s] =
          IF pair > handling[s].total \/ status = "BLOCKED" THEN Idle ELSE h]
  BY DEF CountPair
<1>3. CASE pair > handling[s].total \/ status = "BLOCKED"
  BY <1>1, <1>2, <1>3, GivesUp
<1>4. CASE ~(pair > handling[s].total \/ status = "BLOCKED")
  <2>1. status \in Status
    BY <1>4 DEF IndependenceStatus, Status
  <2> HIDE DEF status, pair
  <2>2. h \in Handling
    BY <1>1, <2>1, HandlingFields DEF Handling, ReviewInductive, Counting
  <2>3. CoversOwn(s, h)
    BY <1>1 DEF ReviewInductive, CountsAreOwn, CoversOwn, Counting
  <2>4. handling' = [handling EXCEPT ![s] = h]
    BY <1>2, <1>4
  <2> HIDE DEF h
  <2> QED
    BY <1>1, <2>2, <2>3, <2>4, OnlyHandling
<1> QED
  BY <1>3, <1>4

LEMMA AnswerKnownPreserves ==
    ASSUME ReviewInductive, NEW s \in Server, AnswerKnown(s)
    PROVE  ReviewInductive'
<1>1. handling[s].request \in ReviewRequest
  BY HandlingFields DEF AnswerKnown, ReviewInductive, Counting
<1>2. PICK v \in reviews :
        /\ v.key = handling[s].request.key
        /\ accepted' = IF v.id = handling[s].request.id
                       THEN accepted \cup {handling[s].request} ELSE accepted
  BY DEF AnswerKnown
<1>3. /\ handling' = [handling EXCEPT ![s] = Idle]
      /\ UNCHANGED <<reviews, dissents, audit, judged, now>>
  BY DEF AnswerKnown
<1>4. \A p \in Server : handling'[p] = IF p = s THEN Idle ELSE handling[p]
  BY <1>3 DEF ReviewInductive, ReviewTypeOK
<1>5. ReviewTypeOK'
  BY <1>1, <1>2, <1>3 DEF ReviewInductive, ReviewTypeOK, Handling
<1>6. AnswersAreStored'
  BY <1>2, <1>3 DEF ReviewInductive, AnswersAreStored
<1>7. CountsAreOwn'
  BY <1>3, <1>4 DEF ReviewInductive, CountsAreOwn, CoversOwn, Covered, Idle, Counting
<1> QED
  BY <1>3, <1>5, <1>6, <1>7
  DEF ReviewInductive, OneDecisionPerKey, DecisionsAreComplete, OwnAreCovered, Covered,
      JudgedAreStored

LEMMA KeyIsFreePreserves ==
    ASSUME ReviewInductive, NEW s \in Server, KeyIsFree(s)
    PROVE  ReviewInductive'
<1> DEFINE h == [step |-> "inserting", request |-> handling[s].request,
                 at |-> handling[s].at, saw |-> handling[s].saw,
                 status |-> handling[s].status]
<1>1. handling[s].step = "judged" /\ UNCHANGED rows
  BY DEF KeyIsFree, rows
<1>2. [handling[s] EXCEPT !.step = "inserting"] = h
  BY <1>1 DEF ReviewInductive, ReviewTypeOK, Handling, Idle
<1>3. handling' = [handling EXCEPT ![s] = h]
  BY <1>2 DEF KeyIsFree, ReviewInductive, ReviewTypeOK
<1>4. h \in Handling
  BY <1>1, HandlingFields DEF Handling, ReviewInductive, Counting
<1>5. CoversOwn(s, h)
  BY <1>1 DEF ReviewInductive, CountsAreOwn, CoversOwn, Counting
<1> HIDE DEF h
<1> QED
  BY <1>1, <1>3, <1>4, <1>5, OnlyHandling

\* The one step that writes a decision.
LEMMA CommitPreserves ==
    ASSUME ReviewInductive, NEW s \in Server, Commit(s)
    PROVE  ReviewInductive'
<1> USE DEF ReviewInductive
<1>1. PICK q \in ReviewRequest, at \in Nat, saw \in SUBSET DecisionId, st \in Status :
        /\ q = handling[s].request /\ at = handling[s].at
        /\ saw = handling[s].saw /\ st = handling[s].status
  BY HandlingFields DEF Commit, Counting
<1> DEFINE v == [id |-> q.id, key |-> q.key, case |-> q.case, reviewer |-> q.reviewer,
                 author |-> q.author, outcome |-> q.outcome, status |-> st,
                 decision_at |-> at]
           d == [linked_review |-> q.id, case |-> q.case, scope |-> q.scope]
           j == [id |-> q.id, server |-> s, saw |-> saw]
<1>2. /\ Insertable(q)
      /\ reviews' = reviews \cup {v}
      /\ dissents' = dissents \cup DissentOf(q)
      /\ audit' = audit \cup {q.id}
      /\ accepted' = accepted \cup {q}
      /\ judged' = judged \cup {j}
      /\ handling' = [handling EXCEPT ![s] = Idle]
      /\ now' = now
  BY <1>1 DEF Commit
<1>3. v \in Review /\ j \in Judgement /\ q.id \in DecisionId
  BY <1>2 DEF Insertable, Review, Judgement, ReviewRequest
<1>4. DissentOf(q) \subseteq Dissent
  BY <1>2 DEF DissentOf, Dissent, Insertable, ReviewRequest
<1>5. \A p \in Server : handling'[p] = IF p = s THEN Idle ELSE handling[p]
  BY <1>2 DEF ReviewTypeOK
<1>6. /\ v.id = q.id /\ v.key = q.key /\ v.case = q.case /\ v.outcome = q.outcome
      /\ j.id = q.id /\ j.server = s /\ j.saw = saw
  OBVIOUS
<1>7. \A w \in reviews : w.id # q.id /\ w.key # q.key
  BY <1>2 DEF Insertable
<1>8. DissentOf(q) = IF v.outcome = "ACCEPT_WITH_DISSENT" THEN {d} ELSE {}
  BY DEF DissentOf
<1>9. d.linked_review = q.id /\ d.case = q.case
  OBVIOUS
<1> HIDE DEF v, d, j
<1>10. ReviewTypeOK'
  BY <1>2, <1>3, <1>4 DEF ReviewTypeOK, Handling
<1>11. IsFiniteSet(reviews')
  BY <1>2, FS_AddElement
<1>12. OneDecisionPerKey'
  BY <1>2, <1>6, <1>7 DEF OneDecisionPerKey
<1>13. DecisionsAreComplete'
  <2>1. audit' = {w.id : w \in reviews'}
    BY <1>2, <1>6 DEF DecisionsAreComplete
  <2>2. \A w \in reviews : w.outcome = "ACCEPT_WITH_DISSENT" <=>
                             \E e \in dissents' : e.linked_review = w.id
    BY <1>2, <1>7, <1>8, <1>9 DEF DecisionsAreComplete
  <2>3. \A e \in dissents : e.linked_review # q.id
    BY <1>7 DEF DecisionsAreComplete
  <2>4. v.outcome = "ACCEPT_WITH_DISSENT" <=> \E e \in dissents' : e.linked_review = v.id
    BY <1>2, <1>6, <1>8, <1>9, <2>3
  <2>5. \A e \in dissents' : \E w \in reviews' : w.id = e.linked_review /\ w.case = e.case
    BY <1>2, <1>6, <1>8, <1>9 DEF DecisionsAreComplete
  <2> QED
    BY <1>2, <2>1, <2>2, <2>4, <2>5 DEF DecisionsAreComplete
<1>14. AnswersAreStored'
  BY <1>2, <1>6 DEF AnswersAreStored
<1>15. \A w \in reviews, a \in judged :
          a.id = w.id /\ a.server = s => Covered(w, saw, at)
  BY <1>1 DEF CountsAreOwn, CoversOwn, Commit, Counting
<1>16. v.decision_at = at /\ \A a \in judged : a.id # q.id
  BY <1>7 DEF JudgedAreStored, v
<1>17. OwnAreCovered'
  <2> SUFFICES ASSUME NEW x \in reviews', NEW y \in reviews',
                      NEW a \in judged', NEW b \in judged',
                      a.id = x.id, b.id = y.id, a.server = b.server, x # y
               PROVE  \/ Covered(x, b.saw, y.decision_at)
                      \/ Covered(y, a.saw, x.decision_at)
    BY DEF OwnAreCovered, Covered
  <2>1. CASE x = v
    <3>1. a = j /\ y \in reviews /\ b \in judged
      BY <1>2, <1>6, <1>7, <1>16, <2>1
    <3> QED
      BY <1>6, <1>15, <1>16, <2>1, <3>1
  <2>2. CASE y = v
    <3>1. b = j /\ x \in reviews /\ a \in judged
      BY <1>2, <1>6, <1>7, <1>16, <2>2
    <3> QED
      BY <1>6, <1>15, <1>16, <2>2, <3>1
  <2>3. CASE x # v /\ y # v
    <3>1. x \in reviews /\ y \in reviews /\ a \in judged /\ b \in judged
      BY <1>2, <1>6, <1>7, <2>3
    <3> QED
      BY <3>1 DEF OwnAreCovered
  <2> QED
    BY <2>1, <2>2, <2>3
<1>18. CountsAreOwn'
  <2> SUFFICES ASSUME NEW p \in Server, handling'[p].step \in Counting,
                      NEW w \in reviews', NEW a \in judged', a.id = w.id, a.server = p
               PROVE  Covered(w, handling'[p].saw, handling'[p].at)
    BY DEF CountsAreOwn, CoversOwn, Covered
  <2>1. p # s /\ handling'[p] = handling[p]
    BY <1>5 DEF Idle, Counting
  <2>2. a \in judged /\ w \in reviews
    BY <1>2, <1>6, <1>7, <1>16, <2>1
  <2> QED
    BY <2>1, <2>2 DEF CountsAreOwn, CoversOwn
<1>19. JudgedAreStored'
  BY <1>2, <1>6 DEF JudgedAreStored
<1> QED
  BY <1>10, <1>11, <1>12, <1>13, <1>14, <1>17, <1>18, <1>19

LEMMA ReviewNextPreserves == ReviewInductive /\ [ReviewNext]_reviewVars => ReviewInductive'
<1> SUFFICES ASSUME ReviewInductive, [ReviewNext]_reviewVars PROVE ReviewInductive'
  OBVIOUS
<1>1. CASE UNCHANGED reviewVars
  BY <1>1 DEF reviewVars, ReviewInductive, ReviewTypeOK, OneDecisionPerKey,
     DecisionsAreComplete, AnswersAreStored, OwnAreCovered, CountsAreOwn,
     CoversOwn, Covered, JudgedAreStored
<1>2. CASE Tick
  BY <1>2 DEF Tick, ReviewInductive, ReviewTypeOK, OneDecisionPerKey,
     DecisionsAreComplete, AnswersAreStored, OwnAreCovered, CountsAreOwn,
     CoversOwn, Covered, JudgedAreStored
<1>3. ASSUME NEW s \in Server, CommitFails(s) \/ Crash(s) PROVE ReviewInductive'
  BY <1>3, GivesUp DEF CommitFails, Crash, rows
<1> QED
  BY <1>1, <1>2, <1>3, CountAllPreserves, CountPairPreserves, AnswerKnownPreserves,
     KeyIsFreePreserves, CommitPreserves
  DEF ReviewNext

LEMMA ReviewInvariant == ReviewSpec => []ReviewInductive
BY ReviewInitInductive, ReviewNextPreserves, PTL DEF ReviewSpec

\* The tables and the handlers have their types.
THEOREM ReviewTypeCorrect == ReviewSpec => []ReviewTypeOK
<1>1. ReviewInductive => ReviewTypeOK
  BY DEF ReviewInductive
<1> QED
  BY <1>1, ReviewInvariant, PTL
-----------------------------------------------------------------------------
(***************************************************************************)
(* The share of a pair.  A count is of the decisions it saw: those stay in *)
(* the table, and none is added to them, for a later decision has an id    *)
(* that was in no earlier count.                                           *)
(***************************************************************************)
StoredIds == {v.id : v \in reviews}

\* The recent decisions a count saw, and those of them that are the pair's.
Seen(saw, at) == {v \in InWindow(at) : v.id \in saw}
SeenPair(q, saw, at) == {v \in PairInWindow(q, at) : v.id \in saw}

\* The rule, for the decisions a count saw and the one at hand.
HalfSeen(q, saw, at) ==
    2 * Cardinality(SeenPair(q, saw, at)) <= Cardinality(Seen(saw, at)) + 1

\* What a handler knows of the decisions it has seen.
CountStands(h) ==
    /\ h.saw \subseteq StoredIds
    /\ h.step = "counted" => h.total = Cardinality(Seen(h.saw, h.at))
    /\ h.step # "counted" => HalfSeen(h.request, h.saw, h.at)

CountsStand == \A s \in Server : handling[s].step \in Counting => CountStands(handling[s])

\* The rule held, for the decisions it had seen, of every decision there is.
JudgementsStand ==
    \A v \in reviews : \E j \in judged :
        /\ j.id = v.id
        /\ j.saw \subseteq StoredIds
        /\ v.id \notin j.saw
        /\ HalfSeen(v, j.saw, v.decision_at)

JudgedOnce == \A a, b \in judged : a.id = b.id => a = b

ShareInductive == CountsStand /\ JudgementsStand /\ JudgedOnce

LEMMA ShareInit == ReviewInit => ShareInductive
BY DEF ReviewInit, ShareInductive, CountsStand, JudgementsStand, JudgedOnce, Idle, Counting

\* New decisions change nothing about what a count saw.
LEMMA SeenStays ==
    ASSUME reviews \subseteq reviews', NEW saw, NEW at, NEW q,
           \A v \in reviews' \ reviews : v.id \notin saw
    PROVE  /\ Seen(saw, at)' = Seen(saw, at)
           /\ HalfSeen(q, saw, at)' <=> HalfSeen(q, saw, at)
<1>1. Seen(saw, at)' = Seen(saw, at)
  BY DEF Seen, InWindow
<1>2. SeenPair(q, saw, at)' = SeenPair(q, saw, at)
  BY DEF SeenPair, PairInWindow, InWindow
<1> QED
  BY <1>1, <1>2 DEF HalfSeen

\* A step that moves one handler and writes no decision.
LEMMA OnlyHandlingShares ==
    ASSUME ReviewInductive, ShareInductive, NEW s \in Server, NEW h,
           handling' = [handling EXCEPT ![s] = h], UNCHANGED <<reviews, judged>>,
           h.step \in Counting => CountStands(h)
    PROVE  ShareInductive'
<1>1. \A p \in Server : handling'[p] = IF p = s THEN h ELSE handling[p]
  BY DEF ReviewInductive, ReviewTypeOK
<1>2. ASSUME NEW g PROVE CountStands(g)' <=> CountStands(g)
  BY DEF CountStands, StoredIds, Seen, SeenPair, HalfSeen, InWindow, PairInWindow
<1>3. CountsStand'
  BY <1>1, <1>2 DEF ShareInductive, CountsStand
<1>4. JudgementsStand' /\ JudgedOnce'
  BY DEF ShareInductive, JudgementsStand, JudgedOnce, StoredIds, Seen, SeenPair,
     HalfSeen, InWindow, PairInWindow
<1> QED
  BY <1>3, <1>4 DEF ShareInductive

LEMMA GivesUpShares ==
    ASSUME ReviewInductive, ShareInductive, NEW s \in Server,
           handling' = [handling EXCEPT ![s] = Idle], UNCHANGED <<reviews, judged>>
    PROVE  ShareInductive'
BY OnlyHandlingShares DEF Idle, Counting

\* The first count includes every recent decision there is.
LEMMA CountAllShares ==
    ASSUME ReviewInductive, ShareInductive, NEW s \in Server, NEW q \in Posted,
           CountAll(s, q)
    PROVE  ShareInductive'
<1> DEFINE h == [step |-> "counted", request |-> q, at |-> now,
                 saw |-> {v.id : v \in InWindow(now)}, total |-> Cardinality(InWindow(now))]
<1>1. Seen(h.saw, h.at) = InWindow(now)
  BY DEF Seen, InWindow
<1>2. CountStands(h)
  BY <1>1 DEF CountStands, StoredIds, InWindow
<1>3. handling' = [handling EXCEPT ![s] = h] /\ UNCHANGED <<reviews, judged>>
  BY DEF CountAll
<1> HIDE DEF h
<1> QED
  BY <1>2, <1>3, OnlyHandlingShares

\* The second counts no fewer of the pair's decisions than the first has seen.
LEMMA CountPairShares ==
    ASSUME ReviewInductive, ShareInductive, NEW s \in Server, CountPair(s)
    PROVE  ShareInductive'
<1> DEFINE g == handling[s]
           pair == Cardinality(PairInWindow(g.request, g.at))
           status == IndependenceStatus(pair, g.total + 1)
           h == [step |-> "judged", request |-> g.request, at |-> g.at,
                 saw |-> g.saw, status |-> status]
<1>1. g.step = "counted" /\ UNCHANGED <<reviews, judged>>
  BY DEF CountPair
<1>2. handling' = [handling EXCEPT ![s] =
          IF pair > g.total \/ status = "BLOCKED" THEN Idle ELSE h]
  BY DEF CountPair
<1>3. CASE pair > g.total \/ status = "BLOCKED"
  BY <1>1, <1>2, <1>3, GivesUpShares
<1>4. CASE ~(pair > g.total \/ status = "BLOCKED")
  <2>1. ~(2 * pair > g.total + 1)
    BY <1>4 DEF IndependenceStatus
  <2>2. g.saw \subseteq StoredIds /\ g.total = Cardinality(Seen(g.saw, g.at))
    BY <1>1 DEF ShareInductive, CountsStand, CountStands, Counting
  <2>3. IsFiniteSet(PairInWindow(g.request, g.at))
    <3>1. PairInWindow(g.request, g.at) \in SUBSET reviews
      BY DEF PairInWindow, InWindow
    <3> QED
      BY <3>1, FS_Subset DEF ReviewInductive
  <2>4. SeenPair(g.request, g.saw, g.at) \in SUBSET PairInWindow(g.request, g.at)
    BY DEF SeenPair
  <2>5. /\ Cardinality(SeenPair(g.request, g.saw, g.at)) <= pair
        /\ pair \in Nat
        /\ Cardinality(SeenPair(g.request, g.saw, g.at)) \in Nat
    BY <2>3, <2>4, FS_Subset, FS_CardinalityType
  <2>6. g.total \in Nat
    BY <1>1, HandlingFields DEF ReviewInductive
  <2> HIDE DEF pair
  <2>7. HalfSeen(g.request, g.saw, g.at)
    BY <2>1, <2>2, <2>5, <2>6 DEF HalfSeen
  <2>8. CountStands(h)
    BY <2>2, <2>7 DEF CountStands
  <2>9. handling' = [handling EXCEPT ![s] = h]
    BY <1>2, <1>4
  <2> HIDE DEF h
  <2> QED
    BY <1>1, <2>8, <2>9, OnlyHandlingShares
<1> QED
  BY <1>3, <1>4

LEMMA KeyIsFreeShares ==
    ASSUME ReviewInductive, ShareInductive, NEW s \in Server, KeyIsFree(s)
    PROVE  ShareInductive'
<1> DEFINE h == [step |-> "inserting", request |-> handling[s].request,
                 at |-> handling[s].at, saw |-> handling[s].saw,
                 status |-> handling[s].status]
<1>1. handling[s].step = "judged" /\ UNCHANGED <<reviews, judged>>
  BY DEF KeyIsFree
<1>2. [handling[s] EXCEPT !.step = "inserting"] = h
  BY <1>1 DEF ReviewInductive, ReviewTypeOK, Handling, Idle
<1>3. handling' = [handling EXCEPT ![s] = h]
  BY <1>2 DEF KeyIsFree, ReviewInductive, ReviewTypeOK
<1>4. CountStands(handling[s])
  BY <1>1 DEF ShareInductive, CountsStand, Counting
<1>5. CountStands(h)
  BY <1>1, <1>4 DEF CountStands
<1> HIDE DEF h
<1> QED
  BY <1>1, <1>3, <1>5, OnlyHandlingShares
\* The decision that is written passed the rule, and no count has seen it.
LEMMA CommitShares ==
    ASSUME ReviewInductive, ShareInductive, NEW s \in Server, Commit(s)
    PROVE  ShareInductive'
<1>1. PICK q \in ReviewRequest, at \in Nat, saw \in SUBSET DecisionId, st \in Status :
        /\ q = handling[s].request /\ at = handling[s].at
        /\ saw = handling[s].saw /\ st = handling[s].status
  BY HandlingFields DEF Commit, Counting, ReviewInductive
<1> DEFINE v == [id |-> q.id, key |-> q.key, case |-> q.case, reviewer |-> q.reviewer,
                 author |-> q.author, outcome |-> q.outcome, status |-> st,
                 decision_at |-> at]
           j == [id |-> q.id, server |-> s, saw |-> saw]
<1>2. /\ handling[s].step = "inserting"
      /\ Insertable(q)
      /\ reviews' = reviews \cup {v}
      /\ judged' = judged \cup {j}
      /\ handling' = [handling EXCEPT ![s] = Idle]
  BY <1>1 DEF Commit
<1>3. /\ v.id = q.id /\ v.reviewer = q.reviewer /\ v.author = q.author
      /\ v.decision_at = at /\ j.id = q.id /\ j.saw = saw
  OBVIOUS
<1> HIDE DEF v, j
<1>4. q.id \notin StoredIds
  BY <1>2 DEF Insertable, StoredIds
<1>5. StoredIds \subseteq StoredIds' /\ reviews' \ reviews \subseteq {v}
  BY <1>2 DEF StoredIds
<1>6. ASSUME NEW known, NEW t, NEW p, known \subseteq StoredIds
      PROVE  /\ known \subseteq StoredIds'
             /\ Seen(known, t)' = Seen(known, t)
             /\ HalfSeen(p, known, t)' <=> HalfSeen(p, known, t)
  BY <1>2, <1>3, <1>4, <1>5, <1>6, SeenStays
<1>7. CountsStand'
  <2>1. ASSUME NEW p \in Server, NEW g, g = handling'[p], g.step \in Counting
        PROVE  CountStands(g)'
    <3>1. g = handling[p]
      BY <1>2, <2>1 DEF ReviewInductive, ReviewTypeOK, Idle, Counting
    <3>2. CountStands(g)
      BY <2>1, <3>1 DEF ShareInductive, CountsStand
    <3>3. /\ g.saw \subseteq StoredIds'
          /\ Seen(g.saw, g.at)' = Seen(g.saw, g.at)
          /\ HalfSeen(g.request, g.saw, g.at)' <=> HalfSeen(g.request, g.saw, g.at)
      BY <1>6, <3>2 DEF CountStands
    <3> QED
      BY <3>2, <3>3 DEF CountStands
  <2> QED
    BY <2>1 DEF CountsStand
<1>8. JudgementsStand'
  <2>1. ASSUME NEW w \in reviews
        PROVE  \E i \in judged' :
                  /\ i.id = w.id
                  /\ i.saw \subseteq StoredIds'
                  /\ w.id \notin i.saw
                  /\ HalfSeen(w, i.saw, w.decision_at)'
    <3>1. PICK i \in judged :
              /\ i.id = w.id /\ i.saw \subseteq StoredIds
              /\ w.id \notin i.saw /\ HalfSeen(w, i.saw, w.decision_at)
      BY DEF ShareInductive, JudgementsStand
    <3>2. i.saw \subseteq StoredIds' /\ HalfSeen(w, i.saw, w.decision_at)'
      BY <1>6, <3>1
    <3> QED
      BY <1>2, <3>1, <3>2
  <2>2. saw \subseteq StoredIds /\ HalfSeen(q, saw, at)
    BY <1>1, <1>2 DEF ShareInductive, CountsStand, CountStands, Counting
  <2>3. HalfSeen(q, saw, at)' /\ saw \subseteq StoredIds'
    BY <1>6, <2>2
  <2>4. HalfSeen(v, saw, v.decision_at)'
    BY <1>3, <2>3 DEF HalfSeen, SeenPair, PairInWindow
  <2>5. v.id \notin saw
    BY <1>3, <1>4, <2>2
  <2>6. \E i \in judged' :
            /\ i.id = v.id
            /\ i.saw \subseteq StoredIds'
            /\ v.id \notin i.saw
            /\ HalfSeen(v, i.saw, v.decision_at)'
    BY <1>2, <1>3, <2>3, <2>4, <2>5
  <2> QED
    BY <1>2, <2>1, <2>6 DEF JudgementsStand
<1>9. JudgedOnce'
  <2>1. \A i \in judged : i.id # q.id
    BY <1>4 DEF ReviewInductive, JudgedAreStored, StoredIds
  <2> QED
    BY <1>2, <1>3, <2>1 DEF ShareInductive, JudgedOnce
<1> QED
  BY <1>7, <1>8, <1>9 DEF ShareInductive

LEMMA ReviewNextShares ==
    ReviewInductive /\ ShareInductive /\ [ReviewNext]_reviewVars => ShareInductive'
<1> SUFFICES ASSUME ReviewInductive, ShareInductive, [ReviewNext]_reviewVars
             PROVE  ShareInductive'
  OBVIOUS
<1>1. CASE UNCHANGED <<reviews, judged, handling>>
  BY <1>1 DEF ShareInductive, CountsStand, JudgementsStand, JudgedOnce, CountStands,
     StoredIds, Seen, SeenPair, HalfSeen, InWindow, PairInWindow
<1>2. ASSUME NEW s \in Server, AnswerKnown(s) \/ CommitFails(s) \/ Crash(s)
      PROVE  ShareInductive'
  BY <1>2, GivesUpShares DEF AnswerKnown, CommitFails, Crash
<1> QED
  BY <1>1, <1>2, CountAllShares, CountPairShares, KeyIsFreeShares, CommitShares
  DEF ReviewNext, Tick, reviewVars

\* The server that judged a decision, and what its count saw.
LEMMA JudgementOf ==
    ASSUME ReviewInductive, ShareInductive, NEW v \in reviews
    PROVE  \E j \in judged :
              /\ j.id = v.id /\ j.server \in Server /\ SawOf(v) = j.saw
              /\ v.id \notin j.saw
              /\ HalfSeen(v, j.saw, v.decision_at)
<1>1. PICK j \in judged :
          /\ j.id = v.id /\ v.id \notin j.saw /\ HalfSeen(v, j.saw, v.decision_at)
  BY DEF ShareInductive, JudgementsStand
<1>2. SawOf(v) = j.saw
  BY <1>1 DEF SawOf, ShareInductive, JudgedOnce
<1>3. j.server \in Server
  BY DEF ReviewInductive, ReviewTypeOK, Judgement
<1> QED
  BY <1>1, <1>2, <1>3

\* Decisions that the last of their pair has not counted though they are of its
\* window are of different processes: of two of one process, one has counted the
\* other, which is not too old for it.
LEMMA UnseenAreOfDifferentServers ==
    ASSUME ReviewInductive, ShareInductive, NEW saw,
           NEW U \in SUBSET reviews, NEW at \in Nat,
           \A v \in U : /\ v.id \notin saw
                        /\ v.decision_at >= at - Window /\ v.decision_at <= at
                        /\ \A w \in U : w.id \in SawOf(v) => w.id \in saw
    PROVE  /\ IsFiniteSet(U)
           /\ Cardinality(U) <= Cardinality(Server)
<1> DEFINE f == [v \in U |-> (CHOOSE j \in judged : j.id = v.id).server]
<1>1. \A v \in U : \E j \in judged : j.id = v.id /\ j.saw = SawOf(v) /\ f[v] = j.server
                                     /\ j.server \in Server
  <2> SUFFICES ASSUME NEW v \in U
               PROVE  \E j \in judged : j.id = v.id /\ j.saw = SawOf(v) /\ f[v] = j.server
                                        /\ j.server \in Server
    OBVIOUS
  <2>1. PICK j \in judged : j.id = v.id /\ j.server \in Server /\ SawOf(v) = j.saw
    BY JudgementOf
  <2>2. (CHOOSE i \in judged : i.id = v.id) = j
    BY <2>1 DEF ShareInductive, JudgedOnce
  <2> QED
    BY <2>1, <2>2
<1>2. f \in [U -> Server]
  BY <1>1
<1>3. ASSUME NEW v \in U, NEW w \in U, v # w, f[v] = f[w] PROVE FALSE
  <2>1. PICK i \in judged : i.id = v.id /\ i.saw = SawOf(v) /\ f[v] = i.server
    BY <1>1
  <2>2. PICK j \in judged : j.id = w.id /\ j.saw = SawOf(w) /\ f[w] = j.server
    BY <1>1
  <2>3. Covered(v, j.saw, w.decision_at) \/ Covered(w, i.saw, v.decision_at)
    BY <1>3, <2>1, <2>2 DEF ReviewInductive, OwnAreCovered
  <2>4. v.decision_at \in Nat /\ w.decision_at \in Nat
    BY DEF ReviewInductive, ReviewTypeOK, Review
  <2>5. /\ ~(v.decision_at < w.decision_at - Window)
        /\ ~(w.decision_at < v.decision_at - Window)
    BY <2>4, ClockAssumption
  <2> QED
    BY <2>1, <2>2, <2>3, <2>5 DEF Covered
<1>4. IsFiniteSet(U)
  BY FS_Subset DEF ReviewInductive
<1> HIDE DEF f
<1>5. ~(Cardinality(Server) < Cardinality(U))
  BY <1>2, <1>3, <1>4, ServerAssumption, FS_PigeonHole
<1> QED
  BY <1>4, <1>5, ServerAssumption, FS_CardinalityType

\* The bound: half of what the last decision of the pair has counted, and at most
\* one decision a process that it has not.
LEMMA ShareBound ==
    ASSUME ReviewInductive, ShareInductive
    PROVE  PairShareIsBounded
<1> SUFFICES ASSUME NEW r \in reviews, JudgedLast(r)
             PROVE  2 * Cardinality(PairInWindow(r, r.decision_at))
                      <= Cardinality(InWindow(r.decision_at)) + 1 + Cardinality(Server)
  BY DEF PairShareIsBounded
<1>1. PICK saw, at : saw = SawOf(r) /\ at = r.decision_at
  OBVIOUS
<1> DEFINE all == InWindow(at)
           pair == PairInWindow(r, at)
           seen == Seen(saw, at)
           seenPair == SeenPair(r, saw, at)
           unseen == pair \ seenPair
<1>2. HalfSeen(r, saw, at)
  BY <1>1, JudgementOf
<1>3. /\ pair \subseteq all /\ all \subseteq reviews
      /\ seen \subseteq all /\ seenPair \subseteq pair
      /\ \A v \in unseen : v.id \notin saw
      /\ seen \cap unseen = {} /\ seenPair \cap unseen = {}
      /\ pair = seenPair \cup unseen
  BY DEF InWindow, PairInWindow, Seen, SeenPair
<1>4. at \in Nat /\ \A v \in unseen :
          /\ v.decision_at >= at - Window /\ v.decision_at <= at
          /\ \A w \in unseen : w.id \in SawOf(v) => w.id \in saw
  BY <1>1 DEF PairInWindow, InWindow, JudgedLast, ReviewInductive, ReviewTypeOK, Review
<1>5. 2 * Cardinality(seenPair) <= Cardinality(seen) + 1
  BY <1>2 DEF HalfSeen
<1> HIDE DEF all, pair, seen, seenPair, unseen
<1>6. unseen \in SUBSET reviews
  BY <1>3
<1>7. IsFiniteSet(all) /\ IsFiniteSet(pair) /\ IsFiniteSet(seen) /\ IsFiniteSet(seenPair)
      /\ IsFiniteSet(unseen)
  BY <1>3, FS_Subset DEF ReviewInductive
<1>8. Cardinality(unseen) <= Cardinality(Server)
  BY <1>3, <1>4, <1>6, UnseenAreOfDifferentServers
<1>9. /\ Cardinality(all) \in Nat /\ Cardinality(pair) \in Nat
      /\ Cardinality(seen) \in Nat /\ Cardinality(seenPair) \in Nat
      /\ Cardinality(unseen) \in Nat /\ Cardinality(Server) \in Nat
  BY <1>7, ServerAssumption, FS_CardinalityType
<1>10. Cardinality(pair) = Cardinality(seenPair) + Cardinality(unseen)
  <2>1. Cardinality(seenPair \cup unseen) =
            Cardinality(seenPair) + Cardinality(unseen) - Cardinality(seenPair \cap unseen)
    BY <1>7, FS_Union
  <2>2. Cardinality(seenPair \cap unseen) = 0
    BY <1>3, FS_EmptySet
  <2> QED
    BY <1>3, <1>9, <2>1, <2>2
<1>11. Cardinality(seen) + Cardinality(unseen) <= Cardinality(all)
  <2>1. Cardinality(seen \cup unseen) =
            Cardinality(seen) + Cardinality(unseen) - Cardinality(seen \cap unseen)
    BY <1>7, FS_Union
  <2>2. Cardinality(seen \cap unseen) = 0
    BY <1>3, FS_EmptySet
  <2>3. Cardinality(seen \cup unseen) = Cardinality(seen) + Cardinality(unseen)
    BY <1>9, <2>1, <2>2
  <2>4. seen \cup unseen \in SUBSET all
    BY <1>3
  <2> QED
    BY <1>7, <2>3, <2>4, FS_Subset
<1>12. 2 * Cardinality(pair) <= Cardinality(all) + 1 + Cardinality(Server)
  BY <1>5, <1>8, <1>9, <1>10, <1>11
<1> QED
  BY <1>1, <1>12 DEF all, pair

\* Any number of processes that overlap let twice a pair's decisions exceed all of
\* the window by one, and by one more for each process.
THEOREM PairShareBounded == ReviewSpec => []PairShareIsBounded
<1>1. ReviewInductive /\ ShareInductive => PairShareIsBounded
  BY ShareBound
<1>2. ReviewSpec => []ShareInductive
  BY ShareInit, ReviewNextShares, ReviewInvariant, PTL DEF ReviewSpec
<1> QED
  BY <1>1, <1>2, ReviewInvariant, PTL
=============================================================================
