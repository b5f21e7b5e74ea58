----------------------- MODULE AdminGovernanceProofs -----------------------
(***************************************************************************)
(* Theorems about AdminGovernance: for any clients, threads and orders of  *)
(* their statements, what is configured was asked for and approved.        *)
(***************************************************************************)
EXTENDS AdminGovernance, TLAPS

\* Of a kind no two intents have an id in common.
IntentIdsAreUnique ==
    \A i, j \in intents : i.kind = j.kind /\ i.id = j.id => i = j

\* Rows have the columns of their kind.
RowsHaveTheirColumns ==
    /\ \A i \in intents : i.content \in [ColumnsOf[i.kind] -> Value]
    /\ \A k \in Kind, s \in Scope :
          configuration[<<k, s>>] \in [ColumnsOf[k] -> Value] \cup {None}

ReviewIdsAndKeysAreUnique ==
    \A v, w \in reviews :
        v.kind = w.kind /\ (v.id = w.id \/ v.key = w.key) => v = w

EventsMatchRows ==
    /\ {e \in audit : e.action = "intent_created"}
          = {[action |-> "intent_created", intent |-> i] : i \in intents}
    /\ {e \in audit : e.action = "review_recorded"}
          = {[action |-> "review_recorded", review |-> v] : v \in reviews}
    /\ \A e \in audit :
          e.action = "applied" => e.intent \in intents /\ e.review \in Approving(e.intent)

HasCause(i) ==
    \/ status[<<i.kind, i.id>>] = "PENDING_REVIEW"
    \/ \E v \in reviews : /\ v.kind = i.kind /\ v.intent = i.id
                          /\ status[<<i.kind, i.id>>] = Upper[v.outcome]
    \/ /\ status[<<i.kind, i.id>>] = "APPLIED"
       /\ \E v \in reviews : AppliedOn(i, v)

StatusHasCause ==
    /\ \A i \in intents : HasCause(i)
    /\ \A k \in Kind, id \in IntentId :
          status[<<k, id>>] # "PENDING_REVIEW" =>
              \E i \in intents : i.kind = k /\ i.id = id

\* What a handler read is still there: intents and reviews are never removed,
\* and neither is the row of a scope.
HandlersAreBacked ==
    \A t \in Thread :
        LET h == handling[t] IN
        /\ h.step \in {"loaded_for_review", "key_free", "id_free"} =>
              \E i \in intents : i.kind = h.request.kind /\ i.id = h.request.intent
        /\ h.step \in {"loaded_for_apply", "approved", "configuration_read"} =>
              h.intent \in intents
        /\ h.step \in {"approved", "configuration_read"} => h.review \in Approving(h.intent)
        /\ h.step = "configuration_read" =>
              /\ h.old \in [ColumnsOf[h.intent.kind] -> Value] \cup {None}
              /\ h.old # None => configuration[<<h.intent.kind, h.intent.scope>>] # None

\* The parts that do not look at the handlers.
TablesAreSound ==
    /\ IntentIdsAreUnique
    /\ RowsHaveTheirColumns
    /\ ReviewIdsAndKeysAreUnique
    /\ EventsMatchRows
    /\ StatusHasCause
    /\ ConfigurationIsReviewed

Inductive == TypeOK /\ TablesAreSound /\ HandlersAreBacked

tables == <<intents, status, reviews, configuration, audit>>

-----------------------------------------------------------------------------
\* Outcomes in capitals are statuses.
LEMMA UpperType == \A o \in Outcome : Upper[o] \in Status
BY DEF Upper, Outcome, Status

\* The columns of a kind hold values, and None is no row.
LEMMA ColumnsType ==
    ASSUME NEW k \in Kind
    PROVE  /\ [ColumnsOf[k] -> Value] \subseteq Content
           /\ None \notin [ColumnsOf[k] -> Value]
BY GovernanceAssumption DEF Content

LEMMA WrittenIsEither ==
    ASSUME NEW loaded, NEW new, NEW stored
    PROVE  Written(loaded, new, stored) \in {new, stored}
BY DEF Written

\* An upsert leaves each column as it was or as the intent wants it.
LEMMA UpsertedColumns ==
    ASSUME NEW i \in Intent, i.content \in [ColumnsOf[i.kind] -> Value],
           NEW old, NEW stored,
           old # None => stored \in [ColumnsOf[i.kind] -> Value]
    PROVE  /\ Upserted(i, old, stored) \in [ColumnsOf[i.kind] -> Value]
           /\ \A c \in ColumnsOf[i.kind] :
                \/ Upserted(i, old, stored)[c] = i.content[c]
                \/ old # None /\ Upserted(i, old, stored)[c] = stored[c]
<1>1. CASE old = None
  BY <1>1 DEF Upserted
<1>2. CASE old # None
  <2>1. \A c \in ColumnsOf[i.kind] :
            Written(old[c], i.content[c], stored[c]) \in {i.content[c], stored[c]}
    BY WrittenIsEither
  <2>2. \A c \in ColumnsOf[i.kind] : Written(old[c], i.content[c], stored[c]) \in Value
    BY <1>2, <2>1
  <2> QED
    BY <1>2, <2>1, <2>2 DEF Upserted
<1> QED
  BY <1>1, <1>2

\* An unchanged configuration stays reviewed: nothing behind it is taken away.
LEMMA StaysReviewed ==
    ASSUME ConfigurationIsReviewed, configuration' = configuration,
           intents \subseteq intents', reviews \subseteq reviews', audit \subseteq audit'
    PROVE  ConfigurationIsReviewed'
<1>1. \A i, v : AppliedOn(i, v) => AppliedOn(i, v)'
  BY DEF AppliedOn, SaysApplied
<1>2. \A i, v : v \in Approving(i) => v \in Approving(i)'
  BY DEF Approving
<1> SUFFICES ASSUME NEW k \in Kind, NEW s \in Scope, configuration'[<<k, s>>] # None,
                    NEW c \in ColumnsOf[k]
             PROVE  \E i \in intents' :
                      /\ i.kind = k /\ i.scope = s
                      /\ i.content[c] = configuration'[<<k, s>>][c]
                      /\ \E v \in Approving(i)' : AppliedOn(i, v)'
  BY DEF ConfigurationIsReviewed
<1>3. PICK i \in intents : /\ i.kind = k /\ i.scope = s
                           /\ i.content[c] = configuration[<<k, s>>][c]
                           /\ \E v \in Approving(i) : AppliedOn(i, v)
  BY DEF ConfigurationIsReviewed
<1>4. PICK v \in Approving(i) : AppliedOn(i, v)
  BY <1>3
<1>5. v \in Approving(i)' /\ AppliedOn(i, v)'
  BY <1>1, <1>2, <1>4
<1>6. i \in intents' /\ i.content[c] = configuration'[<<k, s>>][c]
  BY <1>3
<1> QED
  BY <1>3, <1>5, <1>6

LEMMA InitInductive == Init => Inductive
BY DEF Init, Inductive, TypeOK, TablesAreSound, HandlersAreBacked, IntentIdsAreUnique,
    RowsHaveTheirColumns, ReviewIdsAndKeysAreUnique, EventsMatchRows, StatusHasCause,
    ConfigurationIsReviewed, HasCause, Handling, Idle, Status

-----------------------------------------------------------------------------
(***************************************************************************)
(* Steps that write no table.                                              *)
(***************************************************************************)
\* The tables are sound whatever the handlers do meanwhile.
LEMMA TablesUnchanged ==
    ASSUME TablesAreSound, UNCHANGED tables
    PROVE  TablesAreSound'
<1> USE DEF TablesAreSound, tables
<1>1. IntentIdsAreUnique' /\ RowsHaveTheirColumns' /\ ReviewIdsAndKeysAreUnique'
  BY DEF IntentIdsAreUnique, RowsHaveTheirColumns, ReviewIdsAndKeysAreUnique
<1>2. \A i : Approving(i)' = Approving(i)
  BY DEF Approving
<1>3. EventsMatchRows'
  BY <1>2 DEF EventsMatchRows
<1>4. StatusHasCause'
  BY DEF StatusHasCause, HasCause, AppliedOn, SaysApplied
<1>5. ConfigurationIsReviewed'
  BY StaysReviewed
<1> QED
  BY <1>1, <1>3, <1>4, <1>5

\* A handler that is given up is backed by nothing and needs nothing.
LEMMA GivenUp ==
    ASSUME Inductive, NEW t \in Thread, UNCHANGED tables,
           handling' = [handling EXCEPT ![t] = Idle]
    PROVE  Inductive'
<1>1. TypeOK'
  BY DEF Inductive, TypeOK, tables, Handling
<1>2. \A u \in Thread : handling'[u] = IF u = t THEN Idle ELSE handling[u]
  BY DEF Inductive, TypeOK
<1>3. HandlersAreBacked'
  BY <1>2 DEF Inductive, HandlersAreBacked, tables, Approving, Idle
<1> QED
  BY <1>1, <1>3, TablesUnchanged DEF Inductive

LEMMA LoadForReviewPreserves ==
    ASSUME Inductive, NEW t \in Thread, NEW q \in SubmittedReviews, LoadForReview(t, q)
    PROVE  Inductive'
<1> DEFINE h == [step |-> "loaded_for_review", request |-> q,
                 saw |-> status[<<q.kind, q.intent>>]]
<1>1. q \in Review /\ q.kind \in Kind /\ q.intent \in IntentId
  BY GovernanceAssumption DEF Review
<1>2. h \in Handling
  BY <1>1 DEF Inductive, TypeOK, Handling
<1>3. \A u \in Thread : handling'[u] = IF u = t THEN h ELSE handling[u]
  BY DEF Inductive, TypeOK, LoadForReview
<1>4. TypeOK'
  BY <1>2 DEF Inductive, TypeOK, LoadForReview
<1>5. HandlersAreBacked'
  BY <1>3 DEF Inductive, HandlersAreBacked, LoadForReview, Approving
<1> QED
  BY <1>4, <1>5, TablesUnchanged DEF Inductive, LoadForReview, tables

\* A review that goes on keeps its request.
LEMMA ReviewGoesOn ==
    ASSUME Inductive, NEW t \in Thread, UNCHANGED tables,
           handling[t].step \in {"loaded_for_review", "key_free"},
           NEW step \in {"key_free", "id_free"},
           handling' = [handling EXCEPT ![t].step = step]
    PROVE  Inductive'
<1>1. PICK q \in Review, saw \in Status :
          handling[t] = [step |-> handling[t].step, request |-> q, saw |-> saw]
  BY DEF Inductive, TypeOK, Handling, Idle
<1> DEFINE h == [step |-> step, request |-> q, saw |-> saw]
<1>2. [handling[t] EXCEPT !.step = step] = h
  BY <1>1
<1>3. h \in Handling
  BY DEF Handling
<1>4. \A u \in Thread : handling'[u] = IF u = t THEN h ELSE handling[u]
  BY <1>2 DEF Inductive, TypeOK
<1>5. TypeOK'
  BY <1>2, <1>3 DEF Inductive, TypeOK, tables
<1>6. \E i \in intents : i.kind = q.kind /\ i.id = q.intent
  <2>1. \E i \in intents : /\ i.kind = handling[t].request.kind
                           /\ i.id = handling[t].request.intent
    BY DEF Inductive, HandlersAreBacked
  <2> QED
    BY <1>1, <2>1
<1>7. HandlersAreBacked'
  BY <1>4, <1>6 DEF Inductive, HandlersAreBacked, tables, Approving
<1> QED
  BY <1>5, <1>7, TablesUnchanged DEF Inductive

LEMMA LoadForApplyPreserves ==
    ASSUME Inductive, NEW t \in Thread, NEW i \in intents, LoadForApply(t, i)
    PROVE  Inductive'
<1> DEFINE h == [step |-> "loaded_for_apply", intent |-> i, saw |-> status[<<i.kind, i.id>>]]
<1>1. i \in Intent /\ i.kind \in Kind /\ i.id \in IntentId
  BY DEF Inductive, TypeOK, Intent
<1>2. h \in Handling
  BY <1>1 DEF Inductive, TypeOK, Handling
<1>3. \A u \in Thread : handling'[u] = IF u = t THEN h ELSE handling[u]
  BY DEF Inductive, TypeOK, LoadForApply
<1>4. TypeOK'
  BY <1>2 DEF Inductive, TypeOK, LoadForApply
<1>5. HandlersAreBacked'
  BY <1>3 DEF Inductive, HandlersAreBacked, LoadForApply, Approving
<1> QED
  BY <1>4, <1>5, TablesUnchanged DEF Inductive, LoadForApply, tables

LEMMA RequirePreserves ==
    ASSUME Inductive, NEW t \in Thread, RequireApprovedReview(t)
    PROVE  Inductive'
<1> DEFINE i == handling[t].intent
<1>1. UNCHANGED tables
  BY DEF RequireApprovedReview, tables
<1>2. CASE handling' = [handling EXCEPT ![t] = Idle]
  BY <1>1, <1>2, GivenUp
<1>3. ASSUME NEW v \in Approving(i),
             handling' = [handling EXCEPT ![t] =
                 [step |-> "approved", intent |-> i, saw |-> handling[t].saw, review |-> v]]
      PROVE  Inductive'
  <2> DEFINE h == [step |-> "approved", intent |-> i, saw |-> handling[t].saw, review |-> v]
  <2>1. handling[t].step = "loaded_for_apply"
    BY DEF RequireApprovedReview
  <2>2. i \in Intent /\ handling[t].saw \in Status /\ v \in Review
    BY <2>1 DEF Inductive, TypeOK, Handling, Idle, Approving
  <2>3. h \in Handling
    BY <2>2 DEF Handling
  <2>4. \A u \in Thread : handling'[u] = IF u = t THEN h ELSE handling[u]
    BY <1>3 DEF Inductive, TypeOK
  <2>5. TypeOK'
    BY <1>1, <1>3, <2>3 DEF Inductive, TypeOK, tables
  <2>6. HandlersAreBacked'
    BY <1>1, <2>1, <2>4 DEF Inductive, HandlersAreBacked, tables, Approving
  <2> QED
    BY <1>1, <2>5, <2>6, TablesUnchanged DEF Inductive
<1> QED
  BY <1>2, <1>3 DEF RequireApprovedReview

LEMMA ReadConfigurationPreserves ==
    ASSUME Inductive, NEW t \in Thread, ReadConfiguration(t)
    PROVE  Inductive'
<1> DEFINE i == handling[t].intent
           h == [step |-> "configuration_read", intent |-> i, saw |-> handling[t].saw,
                 review |-> handling[t].review, old |-> configuration[<<i.kind, i.scope>>]]
<1>1. handling[t].step = "approved" /\ UNCHANGED tables
  BY DEF ReadConfiguration, tables
<1>2. i \in Intent /\ handling[t].saw \in Status /\ handling[t].review \in Review
  BY <1>1 DEF Inductive, TypeOK, Handling, Idle
<1>3. i.kind \in Kind /\ i.scope \in Scope
  BY <1>2 DEF Intent
<1>4. h \in Handling
  BY <1>2, <1>3 DEF Handling, Inductive, TypeOK
<1>5. \A u \in Thread : handling'[u] = IF u = t THEN h ELSE handling[u]
  BY DEF Inductive, TypeOK, ReadConfiguration
<1>6. TypeOK'
  BY <1>1, <1>4 DEF Inductive, TypeOK, tables, ReadConfiguration
<1>7. h.old \in [ColumnsOf[i.kind] -> Value] \cup {None}
  BY <1>3 DEF Inductive, TablesAreSound, RowsHaveTheirColumns
<1>8. HandlersAreBacked'
  BY <1>1, <1>5, <1>7 DEF Inductive, HandlersAreBacked, tables, Approving
<1> QED
  BY <1>1, <1>6, <1>8, TablesUnchanged DEF Inductive

-----------------------------------------------------------------------------
(***************************************************************************)
(* Steps that write.                                                       *)
(***************************************************************************)
LEMMA CreateIntentPreserves ==
    ASSUME Inductive, NEW q \in SubmittedIntents, CreateIntent(q)
    PROVE  Inductive'
<1> USE DEF Inductive, TablesAreSound
<1>1. q \in Intent /\ q.content \in [ColumnsOf[q.kind] -> Value]
  BY GovernanceAssumption
<1>2. TypeOK'
  BY <1>1 DEF CreateIntent, TypeOK, Event
<1>3. IntentIdsAreUnique' /\ RowsHaveTheirColumns' /\ ReviewIdsAndKeysAreUnique'
  BY <1>1 DEF CreateIntent, IntentIdsAreUnique, RowsHaveTheirColumns,
     ReviewIdsAndKeysAreUnique
<1>4. EventsMatchRows'
  <2>1. {e \in audit' : e.action = "intent_created"}
          = {[action |-> "intent_created", intent |-> i] : i \in intents'}
    BY DEF CreateIntent, EventsMatchRows
  <2>2. {e \in audit' : e.action = "review_recorded"}
          = {[action |-> "review_recorded", review |-> v] : v \in reviews'}
    BY DEF CreateIntent, EventsMatchRows
  <2>3. \A e \in audit' :
          e.action = "applied" => e.intent \in intents' /\ e.review \in Approving(e.intent)'
    BY DEF CreateIntent, EventsMatchRows, Approving
  <2> QED
    BY <2>1, <2>2, <2>3 DEF EventsMatchRows, Approving
<1>5. HasCause(q)'
  <2>1. status[<<q.kind, q.id>>] = "PENDING_REVIEW"
    BY <1>1 DEF CreateIntent, StatusHasCause, Intent
  <2> QED
    BY <2>1 DEF HasCause, CreateIntent
<1>6. ASSUME NEW i \in intents PROVE HasCause(i)'
  <2>1. HasCause(i)
    BY DEF StatusHasCause
  <2> QED
    BY <2>1 DEF HasCause, CreateIntent, AppliedOn, SaysApplied
<1>7. StatusHasCause'
  BY <1>5, <1>6 DEF StatusHasCause, CreateIntent
<1>8. ConfigurationIsReviewed'
  BY StaysReviewed DEF CreateIntent
<1>9. HandlersAreBacked'
  BY DEF CreateIntent, HandlersAreBacked, Approving
<1> QED
  BY <1>2, <1>3, <1>4, <1>7, <1>8, <1>9

LEMMA RecordReviewPreserves ==
    ASSUME Inductive, NEW t \in Thread, RecordReview(t)
    PROVE  Inductive'
<1> USE DEF Inductive, TablesAreSound
<1> DEFINE q == handling[t].request
           saw == handling[t].saw
           new == Upper[q.outcome]
<1>1. handling[t].step = "id_free"
  BY DEF RecordReview
<1>2. q \in Review /\ saw \in Status
  BY <1>1 DEF TypeOK, Handling, Idle
<1>3. q.kind \in Kind /\ q.intent \in IntentId /\ q.outcome \in Outcome /\ new \in Status
  BY <1>2, UpperType DEF Review
<1>4. /\ status' \in [Kind \X IntentId -> Status]
      /\ status'[<<q.kind, q.intent>>] \in {new, status[<<q.kind, q.intent>>]}
      /\ \A k \in Kind, id \in IntentId :
            <<k, id>> # <<q.kind, q.intent>> => status'[<<k, id>>] = status[<<k, id>>]
  BY <1>3 DEF RecordReview, StatusAfter, Written, TypeOK
<1>5. /\ reviews' = reviews \cup {q} /\ UNCHANGED <<intents, configuration>>
      /\ audit' = audit \cup {[action |-> "review_recorded", review |-> q]}
      /\ ~KeyTaken(q) /\ ~IdTaken(q)
  BY DEF RecordReview
<1>6. TypeOK'
  BY <1>2, <1>4, <1>5 DEF TypeOK, RecordReview, Event, Handling
<1>7. IntentIdsAreUnique' /\ RowsHaveTheirColumns'
  BY <1>5 DEF IntentIdsAreUnique, RowsHaveTheirColumns
<1>8. ReviewIdsAndKeysAreUnique'
  BY <1>5 DEF ReviewIdsAndKeysAreUnique, KeyTaken, IdTaken
<1>9. \A i \in intents : Approving(i) \subseteq Approving(i)'
  BY <1>5 DEF Approving
<1>10. EventsMatchRows'
  <2>1. {e \in audit' : e.action = "intent_created"}
          = {[action |-> "intent_created", intent |-> i] : i \in intents'}
    BY <1>5 DEF EventsMatchRows
  <2>2. {e \in audit' : e.action = "review_recorded"}
          = {[action |-> "review_recorded", review |-> v] : v \in reviews'}
    BY <1>5 DEF EventsMatchRows
  <2>3. \A e \in audit' :
          e.action = "applied" => e.intent \in intents' /\ e.review \in Approving(e.intent)'
    BY <1>5, <1>9 DEF EventsMatchRows
  <2> QED
    BY <2>1, <2>2, <2>3 DEF EventsMatchRows, Approving
<1>11. ASSUME NEW i \in intents PROVE HasCause(i)'
  <2>1. HasCause(i) /\ i \in Intent
    BY DEF StatusHasCause, TypeOK
  <2>2. i.kind \in Kind /\ i.id \in IntentId
    BY <2>1 DEF Intent
  <2>3. CASE status'[<<i.kind, i.id>>] = status[<<i.kind, i.id>>]
    BY <1>5, <2>1, <2>3 DEF HasCause, AppliedOn, SaysApplied
  <2>4. CASE status'[<<i.kind, i.id>>] # status[<<i.kind, i.id>>]
    <3>1. i.kind = q.kind /\ i.id = q.intent /\ status'[<<i.kind, i.id>>] = new
      BY <1>4, <2>2, <2>4
    <3> QED
      BY <1>5, <3>1 DEF HasCause
  <2> QED
    BY <2>3, <2>4
<1>12. StatusHasCause'
  <2>1. \E i \in intents : i.kind = q.kind /\ i.id = q.intent
    BY <1>1 DEF HandlersAreBacked
  <2> QED
    BY <1>4, <1>5, <1>11, <2>1 DEF StatusHasCause
<1>13. ConfigurationIsReviewed'
  BY <1>5, StaysReviewed
<1>14. HandlersAreBacked'
  <2>1. \A u \in Thread : handling'[u] = IF u = t THEN Idle ELSE handling[u]
    BY DEF TypeOK, RecordReview
  <2> QED
    BY <1>5, <1>9, <2>1 DEF HandlersAreBacked, Idle
<1> QED
  BY <1>6, <1>7, <1>8, <1>10, <1>12, <1>13, <1>14

\* What an apply finds when it commits.
LEMMA ApplyFacts ==
    ASSUME Inductive, NEW t \in Thread, Apply(t)
    PROVE  LET h == handling[t]
               i == h.intent
           IN  /\ i \in intents /\ i \in Intent /\ h.saw \in Status
               /\ i.kind \in Kind /\ i.scope \in Scope /\ i.id \in IntentId
               /\ h.review \in Approving(i)
               /\ h.old # None <=> configuration[<<i.kind, i.scope>>] # None
               /\ \E id \in EventId :
                    /\ FreshEventId(id)
                    /\ audit' = audit \cup
                        {[action |-> "applied", id |-> id, intent |-> i,
                          review |-> h.review]}
               /\ UNCHANGED <<intents, reviews>>
<1>1. handling[t].step = "configuration_read"
  BY DEF Apply
<1>2. handling[t].intent \in Intent /\ handling[t].saw \in Status
  BY <1>1 DEF Inductive, TypeOK, Handling, Idle
<1> QED
  BY <1>1, <1>2 DEF Inductive, HandlersAreBacked, Apply, Intent

\* And what it leaves of the configuration: the other rows, and in its own the
\* columns it does not change.
LEMMA ApplyWrites ==
    ASSUME Inductive, NEW t \in Thread, Apply(t)
    PROVE  LET i == handling[t].intent
               row == <<i.kind, i.scope>>
           IN  /\ configuration' \in [Kind \X Scope -> Content \cup {None}]
               /\ configuration'[row] \in [ColumnsOf[i.kind] -> Value]
               /\ \A c \in ColumnsOf[i.kind] :
                    \/ configuration'[row][c] = i.content[c]
                    \/ /\ configuration[row] # None
                       /\ configuration'[row][c] = configuration[row][c]
               /\ \A k \in Kind, s \in Scope :
                    <<k, s>> # row => configuration'[<<k, s>>] = configuration[<<k, s>>]
<1> DEFINE h == handling[t]
           i == h.intent
           row == <<i.kind, i.scope>>
           new == Upserted(i, h.old, configuration[row])
<1>1. /\ i \in intents /\ i \in Intent /\ i.kind \in Kind /\ i.scope \in Scope
      /\ h.old # None <=> configuration[row] # None
  BY ApplyFacts
<1>2. i.content \in [ColumnsOf[i.kind] -> Value]
  BY <1>1 DEF Inductive, TablesAreSound, RowsHaveTheirColumns
<1>3. configuration[row] \in [ColumnsOf[i.kind] -> Value] \cup {None}
  BY <1>1 DEF Inductive, TablesAreSound, RowsHaveTheirColumns
<1>4. /\ new \in [ColumnsOf[i.kind] -> Value]
      /\ \A c \in ColumnsOf[i.kind] :
            \/ new[c] = i.content[c]
            \/ h.old # None /\ new[c] = configuration[row][c]
  BY <1>1, <1>2, <1>3, UpsertedColumns
<1>5. configuration' = [configuration EXCEPT ![row] = new]
  BY DEF Apply
<1>6. configuration \in [Kind \X Scope -> Content \cup {None}] /\ row \in Kind \X Scope
  BY <1>1 DEF Inductive, TypeOK
<1>7. new \in Content
  BY <1>1, <1>4, ColumnsType
<1>8. configuration'[row] = new
  BY <1>5, <1>6
<1>9. \A k \in Kind, s \in Scope :
         <<k, s>> # row => configuration'[<<k, s>>] = configuration[<<k, s>>]
  BY <1>5, <1>6
<1>10. configuration' \in [Kind \X Scope -> Content \cup {None}]
  BY <1>5, <1>6, <1>7
<1> HIDE DEF new, row, i, h
<1>11. \A c \in ColumnsOf[i.kind] :
         \/ configuration'[row][c] = i.content[c]
         \/ configuration[row] # None /\ configuration'[row][c] = configuration[row][c]
  BY <1>1, <1>4, <1>8
<1>12. configuration'[row] \in [ColumnsOf[i.kind] -> Value]
  BY <1>4, <1>8
<1> QED
  BY <1>9, <1>10, <1>11, <1>12 DEF row, i, h

LEMMA ApplyPreserves ==
    ASSUME Inductive, NEW t \in Thread, Apply(t)
    PROVE  Inductive'
<1> USE DEF Inductive, TablesAreSound
<1>0. PICK i \in intents, r \in reviews : i = handling[t].intent /\ r = handling[t].review
  BY ApplyFacts DEF Approving
<1> DEFINE row == <<i.kind, i.scope>>
<1>1. /\ i \in Intent /\ handling[t].saw \in Status
      /\ i.kind \in Kind /\ i.scope \in Scope /\ i.id \in IntentId
      /\ r \in Approving(i)
      /\ UNCHANGED <<intents, reviews>>
  BY <1>0, ApplyFacts
<1>2. PICK n \in EventId :
          audit' = audit \cup
            {[action |-> "applied", id |-> n, intent |-> i, review |-> r]}
  BY <1>0, ApplyFacts
<1>3. /\ configuration' \in [Kind \X Scope -> Content \cup {None}]
      /\ configuration'[row] \in [ColumnsOf[i.kind] -> Value]
      /\ \A c \in ColumnsOf[i.kind] :
            \/ configuration'[row][c] = i.content[c]
            \/ /\ configuration[row] # None
               /\ configuration'[row][c] = configuration[row][c]
      /\ \A k \in Kind, s \in Scope :
            <<k, s>> # row => configuration'[<<k, s>>] = configuration[<<k, s>>]
  BY <1>0, ApplyWrites
<1>4. /\ status' \in [Kind \X IntentId -> Status]
      /\ status'[<<i.kind, i.id>>] \in {"APPLIED", status[<<i.kind, i.id>>]}
      /\ \A k \in Kind, id \in IntentId :
            <<k, id>> # <<i.kind, i.id>> => status'[<<k, id>>] = status[<<k, id>>]
  BY <1>0, <1>1 DEF Apply, StatusAfter, Written, TypeOK, Status
<1>5. handling' = [handling EXCEPT ![t] = Idle]
  BY DEF Apply
<1>6. r \in Review
  BY <1>1 DEF Approving, TypeOK
<1>7. \A j : Approving(j)' = Approving(j)
  BY <1>1 DEF Approving
<1>8. \A j, v : AppliedOn(j, v) => AppliedOn(j, v)'
  BY <1>2 DEF AppliedOn, SaysApplied
<1>9. AppliedOn(i, r)'
  <2> DEFINE e == [action |-> "applied", id |-> n, intent |-> i, review |-> r]
  <2>1. e.action = "applied" /\ e.intent = i /\ e.review = r
    OBVIOUS
  <2>2. e \in audit'
    BY <1>2
  <2> HIDE DEF e
  <2> QED
    BY <2>1, <2>2 DEF AppliedOn, SaysApplied
<1> HIDE DEF row
<1>10. TypeOK'
  <2>1. [action |-> "applied", id |-> n, intent |-> i, review |-> r] \in Event
    BY <1>1, <1>6 DEF Event
  <2>2. handling' \in [Thread -> Handling]
    BY <1>5 DEF TypeOK, Handling
  <2> QED
    BY <1>1, <1>2, <1>3, <1>4, <2>1, <2>2 DEF TypeOK
<1>11. IntentIdsAreUnique' /\ ReviewIdsAndKeysAreUnique'
  BY <1>1 DEF IntentIdsAreUnique, ReviewIdsAndKeysAreUnique
<1>12. RowsHaveTheirColumns'
  <2>1. ASSUME NEW k \in Kind, NEW s \in Scope
        PROVE  configuration'[<<k, s>>] \in [ColumnsOf[k] -> Value] \cup {None}
    <3>1. CASE <<k, s>> = row
      BY <1>3, <3>1 DEF row
    <3>2. CASE <<k, s>> # row
      BY <1>3, <3>2 DEF RowsHaveTheirColumns
    <3> QED
      BY <3>1, <3>2
  <2> QED
    BY <1>1, <2>1 DEF RowsHaveTheirColumns
<1>13. EventsMatchRows'
  <2>1. {e \in audit' : e.action = "intent_created"}
          = {[action |-> "intent_created", intent |-> j] : j \in intents'}
    BY <1>1, <1>2 DEF EventsMatchRows
  <2>2. {e \in audit' : e.action = "review_recorded"}
          = {[action |-> "review_recorded", review |-> v] : v \in reviews'}
    BY <1>1, <1>2 DEF EventsMatchRows
  <2>3. \A e \in audit' :
          e.action = "applied" => e.intent \in intents' /\ e.review \in Approving(e.intent)
    BY <1>1, <1>2 DEF EventsMatchRows
  <2> QED
    BY <1>7, <2>1, <2>2, <2>3 DEF EventsMatchRows
<1>14. ASSUME NEW j \in intents PROVE HasCause(j)'
  <2>1. HasCause(j) /\ j \in Intent
    BY DEF StatusHasCause, TypeOK
  <2>2. j.kind \in Kind /\ j.id \in IntentId
    BY <2>1 DEF Intent
  <2>3. CASE status'[<<j.kind, j.id>>] = status[<<j.kind, j.id>>]
    BY <1>1, <1>8, <2>1, <2>3 DEF HasCause
  <2>4. CASE status'[<<j.kind, j.id>>] # status[<<j.kind, j.id>>]
    <3>1. j.kind = i.kind /\ j.id = i.id /\ status'[<<j.kind, j.id>>] = "APPLIED"
      BY <1>4, <2>2, <2>4
    <3>2. j = i
      BY <1>1, <3>1 DEF IntentIdsAreUnique
    <3> QED
      BY <1>1, <1>6, <1>9, <3>1, <3>2 DEF HasCause
  <2> QED
    BY <2>3, <2>4
<1>15. StatusHasCause'
  BY <1>1, <1>4, <1>14 DEF StatusHasCause
<1>16. ConfigurationIsReviewed'
  <2> SUFFICES ASSUME NEW k \in Kind, NEW s \in Scope, configuration'[<<k, s>>] # None,
                      NEW c \in ColumnsOf[k]
               PROVE  \E j \in intents' :
                        /\ j.kind = k /\ j.scope = s
                        /\ j.content[c] = configuration'[<<k, s>>][c]
                        /\ \E v \in Approving(j)' : AppliedOn(j, v)'
    BY DEF ConfigurationIsReviewed
  <2>1. CASE /\ configuration[<<k, s>>] # None
             /\ configuration'[<<k, s>>][c] = configuration[<<k, s>>][c]
    <3>1. PICK j \in intents : /\ j.kind = k /\ j.scope = s
                               /\ j.content[c] = configuration[<<k, s>>][c]
                               /\ \E v \in Approving(j) : AppliedOn(j, v)
      BY <2>1 DEF ConfigurationIsReviewed
    <3> QED
      BY <1>1, <1>7, <1>8, <2>1, <3>1
  <2>2. CASE <<k, s>> = row /\ configuration'[row][c] = i.content[c]
    <3>1. i.kind = k /\ i.scope = s
      BY <2>2 DEF row
    <3> QED
      BY <1>1, <1>7, <1>9, <2>2, <3>1
  <2>3. CASE <<k, s>> # row
    BY <1>3, <2>1, <2>3
  <2>4. <<k, s>> = row => k = i.kind
    BY DEF row
  <2> QED
    BY <1>3, <2>1, <2>2, <2>3, <2>4
<1>17. HandlersAreBacked'
  <2>1. \A u \in Thread : handling'[u] = IF u = t THEN Idle ELSE handling[u]
    BY <1>5 DEF TypeOK
  <2>2. \A k \in Kind, s \in Scope :
           configuration[<<k, s>>] # None => configuration'[<<k, s>>] # None
    BY <1>1, <1>3, ColumnsType DEF row
  <2>3. \A u \in Thread : handling[u].step = "configuration_read" =>
           handling[u].intent.kind \in Kind /\ handling[u].intent.scope \in Scope
    BY DEF TypeOK, Handling, Idle, Intent
  <2> QED
    BY <1>1, <1>7, <2>1, <2>2, <2>3 DEF HandlersAreBacked, Idle
<1> QED
  BY <1>10, <1>11, <1>12, <1>13, <1>15, <1>16, <1>17

-----------------------------------------------------------------------------
LEMMA NextPreserves == Inductive /\ [Next]_vars => Inductive'
<1> SUFFICES ASSUME Inductive, [Next]_vars PROVE Inductive'
  OBVIOUS
<1>1. CASE UNCHANGED vars
  BY <1>1, TablesUnchanged DEF vars, tables, Inductive, TypeOK, HandlersAreBacked, Approving
<1>2. ASSUME NEW kind \in Kind, Arrive(kind) PROVE Inductive'
  BY <1>2, CreateIntentPreserves, LoadForReviewPreserves, LoadForApplyPreserves DEF Arrive
<1>3. CASE PortalSupport \/ SourceRules \/ IncentivePrograms
  BY <1>2, <1>3 DEF PortalSupport, SourceRules, IncentivePrograms, Kind
<1>4. ASSUME NEW t \in Thread, CheckKey(t) PROVE Inductive'
  <2>1. UNCHANGED tables /\ handling[t].step = "loaded_for_review"
    BY <1>4 DEF CheckKey, tables
  <2>2. \/ handling' = [handling EXCEPT ![t] = Idle]
        \/ handling' = [handling EXCEPT ![t].step = "key_free"]
    BY <1>4 DEF CheckKey
  <2> QED
    BY <2>1, <2>2, GivenUp, ReviewGoesOn
<1>5. ASSUME NEW t \in Thread, CheckId(t) PROVE Inductive'
  <2>1. UNCHANGED tables /\ handling[t].step = "key_free"
    BY <1>5 DEF CheckId, tables
  <2>2. \/ handling' = [handling EXCEPT ![t] = Idle]
        \/ handling' = [handling EXCEPT ![t].step = "id_free"]
    BY <1>5 DEF CheckId
  <2> QED
    BY <2>1, <2>2, GivenUp, ReviewGoesOn
<1>6. ASSUME NEW t \in Thread, RecordFails(t) \/ ApplyFails(t) \/ Crash(t) PROVE Inductive'
  BY <1>6, GivenUp DEF RecordFails, ApplyFails, Crash, tables
<1> QED
  BY <1>1, <1>3, <1>4, <1>5, <1>6, RecordReviewPreserves, RequirePreserves,
     ReadConfigurationPreserves, ApplyPreserves
  DEF Next

LEMMA InvariantHolds == Spec => []Inductive
BY InitInductive, NextPreserves, PTL DEF Spec

\* The tables and the handlers have their types.
THEOREM TypeCorrect == Spec => []TypeOK
<1>1. Inductive => TypeOK
  BY DEF Inductive
<1> QED
  BY <1>1, InvariantHolds, PTL

\* What stands in a column of the configuration was asked for, approved and applied.
THEOREM ConfigurationReviewed == Spec => []ConfigurationIsReviewed
<1>1. Inductive => ConfigurationIsReviewed
  BY DEF Inductive, TablesAreSound
<1> QED
  BY <1>1, InvariantHolds, PTL

\* The trail has an event for every row, and no event without its row.
THEOREM TrailComplete == Spec => []TrailIsComplete
<1>1. Inductive => TrailIsComplete
  BY DEF Inductive, TablesAreSound, TrailIsComplete, ReviewIdsAndKeysAreUnique,
      EventsMatchRows, StatusHasCause, HasCause
<1> QED
  BY <1>1, InvariantHolds, PTL

\* The configuration changes only with the event of an approved intent.
THEOREM ChangesAudited == Spec => ChangesAreAudited
<1> DEFINE Audited ==
      \A k \in Kind, s \in Scope :
         configuration'[<<k, s>>] # configuration[<<k, s>>] =>
            \E i \in intents : \E v \in Approving(i) :
                /\ i.kind = k /\ i.scope = s
                /\ \E e \in audit' \ audit : SaysApplied(e, i, v)
                /\ \A c \in ColumnsOf[k] :
                      \/ configuration'[<<k, s>>][c] = i.content[c]
                      \/ /\ configuration[<<k, s>>] # None
                         /\ configuration'[<<k, s>>][c] = configuration[<<k, s>>][c]
<1>1. ASSUME Inductive, NEW t \in Thread, Apply(t) PROVE Audited
  <2> SUFFICES ASSUME NEW k \in Kind, NEW s \in Scope,
                      configuration'[<<k, s>>] # configuration[<<k, s>>]
               PROVE  \E i \in intents : \E v \in Approving(i) :
                        /\ i.kind = k /\ i.scope = s
                        /\ \E e \in audit' \ audit : SaysApplied(e, i, v)
                        /\ \A c \in ColumnsOf[k] :
                              \/ configuration'[<<k, s>>][c] = i.content[c]
                              \/ /\ configuration[<<k, s>>] # None
                                 /\ configuration'[<<k, s>>][c] = configuration[<<k, s>>][c]
    OBVIOUS
  <2>0. PICK i \in intents, v \in reviews :
            i = handling[t].intent /\ v = handling[t].review /\ v \in Approving(i)
    BY <1>1, ApplyFacts DEF Approving
  <2>1. PICK id \in EventId :
            /\ FreshEventId(id)
            /\ audit' = audit \cup
                 {[action |-> "applied", id |-> id, intent |-> i, review |-> v]}
    BY <1>1, <2>0, ApplyFacts
  <2>2. \E e \in audit' \ audit : SaysApplied(e, i, v)
    <3> DEFINE e == [action |-> "applied", id |-> id, intent |-> i, review |-> v]
    <3>1. e.action = "applied" /\ e.id = id /\ e.intent = i /\ e.review = v
      OBVIOUS
    <3>2. e \in audit'
      BY <2>1
    <3> HIDE DEF e
    <3>3. e \notin audit
      BY <2>1, <3>1 DEF FreshEventId
    <3> QED
      BY <3>1, <3>2, <3>3 DEF SaysApplied
  <2>3. <<k, s>> = <<i.kind, i.scope>>
    BY <1>1, <2>0, ApplyWrites
  <2>4. k = i.kind /\ \A c \in ColumnsOf[i.kind] :
           \/ configuration'[<<i.kind, i.scope>>][c] = i.content[c]
           \/ /\ configuration[<<i.kind, i.scope>>] # None
              /\ configuration'[<<i.kind, i.scope>>][c] = configuration[<<i.kind, i.scope>>][c]
    BY <1>1, <2>0, <2>3, ApplyWrites
  <2>5. i.kind = k /\ i.scope = s
    BY <2>3
  <2> QED
    BY <2>0, <2>2, <2>4, <2>5
<1>2. ASSUME Next, \A t \in Thread : ~Apply(t) PROVE UNCHANGED configuration
  BY <1>2 DEF Next, PortalSupport, SourceRules, IncentivePrograms, Arrive, CreateIntent,
     LoadForReview, LoadForApply, CheckKey, CheckId, RecordReview, RecordFails,
     RequireApprovedReview, ReadConfiguration, ApplyFails, Crash
<1>3. Inductive /\ [Next]_vars => [Audited]_vars
  <2> SUFFICES ASSUME Inductive, Next PROVE Audited
    BY DEF vars
  <2>1. CASE \E t \in Thread : Apply(t)
    BY <1>1, <2>1
  <2>2. CASE \A t \in Thread : ~Apply(t)
    BY <1>2, <2>2
  <2> QED
    BY <2>1, <2>2
<1>4. Spec => [][Audited]_vars
  BY <1>3, InvariantHolds, PTL DEF Spec
<1> QED
  BY <1>4 DEF ChangesAreAudited

\* Source rules and incentive programs have one column: what is configured for
\* them is, as a whole, what an approved and applied intent asked for.
THEOREM SingleColumnsAreAnIntents ==
    Spec => [](\A k \in {"source_rule", "incentive_program"}, s \in Scope :
                 configuration[<<k, s>>] # None =>
                    \E i \in intents : /\ i.kind = k /\ i.scope = s
                                       /\ i.content = configuration[<<k, s>>]
                                       /\ Approving(i) # {})
<1>1. ASSUME Inductive, NEW k \in {"source_rule", "incentive_program"}, NEW s \in Scope,
             configuration[<<k, s>>] # None
      PROVE  \E i \in intents : /\ i.kind = k /\ i.scope = s
                                /\ i.content = configuration[<<k, s>>]
                                /\ Approving(i) # {}
  <2>1. k \in Kind /\ \E c : ColumnsOf[k] = {c}
    BY DEF Kind, ColumnsOf, SourceRuleColumns, IncentiveProgramColumns
  <2>2. PICK c : ColumnsOf[k] = {c}
    BY <2>1
  <2>3. PICK i \in intents : /\ i.kind = k /\ i.scope = s
                             /\ i.content[c] = configuration[<<k, s>>][c]
                             /\ \E v \in Approving(i) : AppliedOn(i, v)
    BY <1>1, <2>1, <2>2 DEF Inductive, TablesAreSound, ConfigurationIsReviewed
  <2>4. /\ i.content \in [{c} -> Value]
        /\ configuration[<<k, s>>] \in [{c} -> Value]
    BY <1>1, <2>1, <2>2, <2>3 DEF Inductive, TablesAreSound, RowsHaveTheirColumns
  <2>5. i.content = configuration[<<k, s>>]
    BY <2>3, <2>4
  <2> QED
    BY <2>3, <2>5
<1>2. Inductive => \A k \in {"source_rule", "incentive_program"}, s \in Scope :
                 configuration[<<k, s>>] # None =>
                    \E i \in intents : /\ i.kind = k /\ i.scope = s
                                       /\ i.content = configuration[<<k, s>>]
                                       /\ Approving(i) # {}
  BY <1>1
<1> QED
  BY <1>2, InvariantHolds, PTL
=============================================================================
