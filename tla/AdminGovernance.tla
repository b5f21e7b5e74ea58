--------------------------- MODULE AdminGovernance ---------------------------
(***************************************************************************)
(* Configuration under review: portal support, source rules and incentive  *)
(* programs (src/sps/api/routes/admin_*.py, src/sps/services/admin_*.py).  *)
(* An admin writes an intent, a reviewer decides on it, an admin applies   *)
(* it to the configuration of its scope.  Each kind has the same three     *)
(* handlers over three tables of its own and the audit events.  They are   *)
(* plain functions, run by a pool of threads, with one statement after     *)
(* another under READ COMMITTED and all their writes in the commit.        *)
(***************************************************************************)
EXTENDS Integers

CONSTANTS
    Scope,            \* rule scopes, program keys, portal families
    Value,            \* what a column of a configuration holds
    IntentId,         \* intent ids, chosen by clients
    ReviewId,         \* review ids, chosen by clients
    Key,              \* idempotency keys of reviews
    Thread,           \* threads serving requests, of any process
    EventId,          \* bound: the ids of the events of applications
    SubmittedIntents, \* bound: the intents clients create
    SubmittedReviews, \* bound: the reviews clients record, any number of times
    None              \* an absent value

Kind == {"portal_support", "source_rule", "incentive_program"}

\* The columns an apply sets in a row of the kind's configuration.
PortalSupportColumns == {"support_level", "metadata_payload"}
SourceRuleColumns == {"rule_payload"}
IncentiveProgramColumns == {"program_payload"}

ColumnsOf ==
    [k \in Kind |-> IF k = "portal_support" THEN PortalSupportColumns
                    ELSE IF k = "source_rule" THEN SourceRuleColumns
                    ELSE IncentiveProgramColumns]

Content == UNION {[ColumnsOf[k] -> Value] : k \in Kind}

\* decision_outcome is free text, in any case; bound: these four.
Outcome == {"APPROVED", "approved", "REJECTED", "applied"}

Upper ==
    [o \in Outcome |-> IF o = "approved" THEN "APPROVED"
                       ELSE IF o = "applied" THEN "APPLIED" ELSE o]

Status == {"PENDING_REVIEW", "APPROVED", "REJECTED", "APPLIED"}

Intent == [kind : Kind, id : IntentId, scope : Scope, content : Content]

Review ==
    [kind : Kind, id : ReviewId, intent : IntentId, key : Key, outcome : Outcome]

ASSUME GovernanceAssumption ==
    /\ SubmittedReviews \subseteq Review
    /\ SubmittedIntents \subseteq Intent
    /\ \A i \in SubmittedIntents : i.content \in [ColumnsOf[i.kind] -> Value]
    /\ None \notin Content

VARIABLES
    intents,        \* admin_*_intents, without their status
    status,         \* their status
    reviews,        \* admin_*_reviews
    configuration,  \* portal_support_metadata, source_rules, incentive_programs
    audit,          \* audit_events of the three handlers
    handling        \* per thread: the handler between its statements

vars == <<intents, status, reviews, configuration, audit, handling>>

\* What happens once to an intent or a review is told by it; an intent may be
\* applied any number of times, each with an event of its own.
Event ==
    [action : {"intent_created"}, intent : Intent]
    \cup [action : {"review_recorded"}, review : Review]
    \cup [action : {"applied"}, id : EventId, intent : Intent, review : Review]

Idle == [step |-> "idle"]

\* saw is the status the handler read; old the configuration it read.
Handling ==
    {Idle}
    \cup [step : {"loaded_for_review", "key_free", "id_free"},
          request : Review, saw : Status]
    \cup [step : {"loaded_for_apply"}, intent : Intent, saw : Status]
    \cup [step : {"approved"}, intent : Intent, saw : Status, review : Review]
    \cup [step : {"configuration_read"}, intent : Intent, saw : Status,
          review : Review, old : Content \cup {None}]

Init ==
    /\ intents = {}
    /\ status = [x \in Kind \X IntentId |-> "PENDING_REVIEW"]
    /\ reviews = {}
    /\ configuration = [x \in Kind \X Scope |-> None]
    /\ audit = {}
    /\ handling = [t \in Thread |-> Idle]

-----------------------------------------------------------------------------
\* The session writes an attribute only when it was set to another value than
\* the one it loaded, whatever the row holds by then.
Written(loaded, new, stored) == IF new = loaded THEN stored ELSE new

StatusAfter(kind, id, saw, new) ==
    [status EXCEPT ![<<kind, id>>] = Written(saw, new, @)]

\* POST intents: the row and its event.  A taken id is answered 409.
CreateIntent(q) ==
    /\ ~\E i \in intents : i.kind = q.kind /\ i.id = q.id
    /\ intents' = intents \cup {q}
    /\ audit' = audit \cup {[action |-> "intent_created", intent |-> q]}
    /\ UNCHANGED <<status, reviews, configuration, handling>>

\* POST reviews, statement by statement: the intent, the key, the id.
LoadForReview(t, q) ==
    /\ handling[t] = Idle
    /\ \E i \in intents : i.kind = q.kind /\ i.id = q.intent
    /\ handling' = [handling EXCEPT ![t] =
            [step |-> "loaded_for_review", request |-> q,
             saw |-> status[<<q.kind, q.intent>>]]]
    /\ UNCHANGED <<intents, status, reviews, configuration, audit>>

KeyTaken(q) == \E v \in reviews : v.kind = q.kind /\ v.key = q.key
IdTaken(q) == \E v \in reviews : v.kind = q.kind /\ v.id = q.id

CheckKey(t) ==
    /\ handling[t].step = "loaded_for_review"
    /\ handling' = IF KeyTaken(handling[t].request)
                   THEN [handling EXCEPT ![t] = Idle]
                   ELSE [handling EXCEPT ![t].step = "key_free"]
    /\ UNCHANGED <<intents, status, reviews, configuration, audit>>

CheckId(t) ==
    /\ handling[t].step = "key_free"
    /\ handling' = IF IdTaken(handling[t].request)
                   THEN [handling EXCEPT ![t] = Idle]
                   ELSE [handling EXCEPT ![t].step = "id_free"]
    /\ UNCHANGED <<intents, status, reviews, configuration, audit>>

\* Mutant: the outcome becomes the status as the reviewer wrote it.
RecordReviewVerbatim(t) ==
    /\ handling[t].step = "id_free"
    /\ LET q == handling[t].request
       IN  /\ ~KeyTaken(q) /\ ~IdTaken(q)
           /\ reviews' = reviews \cup {q}
           /\ status' = StatusAfter(q.kind, q.intent, handling[t].saw, q.outcome)
           /\ audit' = audit \cup {[action |-> "review_recorded", review |-> q]}
    /\ handling' = [handling EXCEPT ![t] = Idle]
    /\ UNCHANGED <<intents, configuration>>

\* Mutant: the columns of the review are not unique.
RecordReviewTwice(t) ==
    /\ handling[t].step = "id_free"
    /\ LET q == handling[t].request
       IN  /\ reviews' = reviews \cup {q}
           /\ status' = StatusAfter(q.kind, q.intent, handling[t].saw, Upper[q.outcome])
           /\ audit' = audit \cup {[action |-> "review_recorded", review |-> q]}
    /\ handling' = [handling EXCEPT ![t] = Idle]
    /\ UNCHANGED <<intents, configuration>>

RecordReview(t) ==
    /\ handling[t].step = "id_free"
    /\ LET q == handling[t].request
       IN  /\ ~KeyTaken(q) /\ ~IdTaken(q)
           /\ reviews' = reviews \cup {q}
           /\ status' = StatusAfter(q.kind, q.intent, handling[t].saw, Upper[q.outcome])
           /\ audit' = audit \cup {[action |-> "review_recorded", review |-> q]}
    /\ handling' = [handling EXCEPT ![t] = Idle]
    /\ UNCHANGED <<intents, configuration>>

\* Another thread's review took the key or the id: the commit fails (500).
RecordFails(t) ==
    /\ handling[t].step = "id_free"
    /\ KeyTaken(handling[t].request) \/ IdTaken(handling[t].request)
    /\ handling' = [handling EXCEPT ![t] = Idle]
    /\ UNCHANGED <<intents, status, reviews, configuration, audit>>

\* POST apply, statement by statement: the intent, a review, the configuration.
LoadForApply(t, i) ==
    /\ handling[t] = Idle
    /\ handling' = [handling EXCEPT ![t] =
            [step |-> "loaded_for_apply", intent |-> i,
             saw |-> status[<<i.kind, i.id>>]]]
    /\ UNCHANGED <<intents, status, reviews, configuration, audit>>

Approving(i) ==
    {v \in reviews :
        v.kind = i.kind /\ v.intent = i.id /\ Upper[v.outcome] = "APPROVED"}

\* Mutant: a review of any outcome will do.
RequireAnyReview(t) ==
    /\ handling[t].step = "loaded_for_apply"
    /\ LET i == handling[t].intent
           found == {v \in reviews : v.kind = i.kind /\ v.intent = i.id}
       IN  \/ /\ found = {}
              /\ handling' = [handling EXCEPT ![t] = Idle]
           \/ \E v \in found :
                handling' = [handling EXCEPT ![t] =
                    [step |-> "approved", intent |-> i,
                     saw |-> handling[t].saw, review |-> v]]
    /\ UNCHANGED <<intents, status, reviews, configuration, audit>>

\* The latest approving review is taken; which one does not matter here.  A
\* rejection beside it, earlier or later, changes nothing.
RequireApprovedReview(t) ==
    /\ handling[t].step = "loaded_for_apply"
    /\ LET i == handling[t].intent
       IN  \/ /\ Approving(i) = {}
              /\ handling' = [handling EXCEPT ![t] = Idle]
           \/ \E v \in Approving(i) :
                handling' = [handling EXCEPT ![t] =
                    [step |-> "approved", intent |-> i,
                     saw |-> handling[t].saw, review |-> v]]
    /\ UNCHANGED <<intents, status, reviews, configuration, audit>>

ReadConfiguration(t) ==
    /\ handling[t].step = "approved"
    /\ LET i == handling[t].intent
       IN  handling' = [handling EXCEPT ![t] =
                [step |-> "configuration_read", intent |-> i,
                 saw |-> handling[t].saw, review |-> handling[t].review,
                 old |-> configuration[<<i.kind, i.scope>>]]]
    /\ UNCHANGED <<intents, status, reviews, configuration, audit>>

\* A row is inserted whole, and updated column by column.
Upserted(i, old, stored) ==
    IF old = None THEN i.content
    ELSE [c \in ColumnsOf[i.kind] |-> Written(old[c], i.content[c], stored[c])]

FreshEventId(id) == ~\E e \in audit : e.action = "applied" /\ e.id = id

\* Mutant: an intent that was applied already leaves no second event.
ApplyAgainUnaudited(t) ==
    /\ handling[t].step = "configuration_read"
    /\ LET h == handling[t]
           i == h.intent
           row == <<i.kind, i.scope>>
       IN  /\ h.old = None => configuration[row] = None
           /\ configuration' = [configuration EXCEPT ![row] = Upserted(i, h.old, @)]
           /\ status' = StatusAfter(i.kind, i.id, h.saw, "APPLIED")
           /\ \E id \in EventId :
                /\ FreshEventId(id)
                /\ audit' = IF h.saw = "APPLIED" THEN audit ELSE audit \cup
                     {[action |-> "applied", id |-> id, intent |-> i, review |-> h.review]}
    /\ handling' = [handling EXCEPT ![t] = Idle]
    /\ UNCHANGED <<intents, reviews>>

Apply(t) ==
    /\ handling[t].step = "configuration_read"
    /\ LET h == handling[t]
           i == h.intent
           row == <<i.kind, i.scope>>
       IN  /\ h.old = None => configuration[row] = None
           /\ configuration' = [configuration EXCEPT ![row] = Upserted(i, h.old, @)]
           /\ status' = StatusAfter(i.kind, i.id, h.saw, "APPLIED")
           /\ \E id \in EventId :
                /\ FreshEventId(id)
                /\ audit' = audit \cup
                     {[action |-> "applied", id |-> id, intent |-> i, review |-> h.review]}
    /\ handling' = [handling EXCEPT ![t] = Idle]
    /\ UNCHANGED <<intents, reviews>>

\* Another thread inserted the row of the scope first: the commit fails (500).
ApplyFails(t) ==
    /\ handling[t].step = "configuration_read"
    /\ handling[t].old = None
    /\ configuration[<<handling[t].intent.kind, handling[t].intent.scope>>] # None
    /\ handling' = [handling EXCEPT ![t] = Idle]
    /\ UNCHANGED <<intents, status, reviews, configuration, audit>>

\* The process dies or loses its connection: nothing of the handler is kept.
Crash(t) ==
    /\ handling[t] # Idle
    /\ handling' = [handling EXCEPT ![t] = Idle]
    /\ UNCHANGED <<intents, status, reviews, configuration, audit>>

\* The requests of one kind, and the threads that serve them.
Arrive(kind) ==
    \/ \E q \in SubmittedIntents : q.kind = kind /\ CreateIntent(q)
    \/ \E t \in Thread :
          \/ \E q \in SubmittedReviews : q.kind = kind /\ LoadForReview(t, q)
          \/ \E i \in intents : i.kind = kind /\ LoadForApply(t, i)

PortalSupport == Arrive("portal_support")
SourceRules == Arrive("source_rule")
IncentivePrograms == Arrive("incentive_program")

Next ==
    \/ PortalSupport
    \/ SourceRules
    \/ IncentivePrograms
    \/ \E t \in Thread :
          \/ CheckKey(t) \/ CheckId(t) \/ RecordReview(t) \/ RecordFails(t)
          \/ RequireApprovedReview(t) \/ ReadConfiguration(t)
          \/ Apply(t) \/ ApplyFails(t) \/ Crash(t)

Spec == Init /\ [][Next]_vars

-----------------------------------------------------------------------------
TypeOK ==
    /\ intents \subseteq Intent
    /\ status \in [Kind \X IntentId -> Status]
    /\ reviews \subseteq Review
    /\ configuration \in [Kind \X Scope -> Content \cup {None}]
    /\ audit \subseteq Event
    /\ handling \in [Thread -> Handling]

\* An intent was applied: the event that says so names the review behind it.
SaysApplied(e, i, v) == e.action = "applied" /\ e.intent = i /\ e.review = v
AppliedOn(i, v) == \E e \in audit : SaysApplied(e, i, v)

\* Whatever overlaps, and whoever rejects an intent later, what stands in a
\* column was asked for by an intent for that very row, which a reviewer had
\* approved and whose application is in the trail.
ConfigurationIsReviewed ==
    \A k \in Kind, s \in Scope :
        configuration[<<k, s>>] # None =>
            \A c \in ColumnsOf[k] :
                \E i \in intents :
                    /\ i.kind = k /\ i.scope = s
                    /\ i.content[c] = configuration[<<k, s>>][c]
                    /\ \E v \in Approving(i) : AppliedOn(i, v)

\* Every row of the trail has its table row and every table row its trail: no
\* key and no id stands for two reviews, an application names an approving
\* review of its own intent, and a status has an event behind it.
TrailIsComplete ==
    /\ \A v, w \in reviews :
          v.kind = w.kind /\ (v.id = w.id \/ v.key = w.key) => v = w
    /\ {e \in audit : e.action = "intent_created"}
          = {[action |-> "intent_created", intent |-> i] : i \in intents}
    /\ {e \in audit : e.action = "review_recorded"}
          = {[action |-> "review_recorded", review |-> v] : v \in reviews}
    /\ \A e \in audit :
          e.action = "applied" => e.intent \in intents /\ e.review \in Approving(e.intent)
    /\ \A i \in intents :
          \/ status[<<i.kind, i.id>>] = "PENDING_REVIEW"
          \/ \E v \in reviews : /\ v.kind = i.kind /\ v.intent = i.id
                                /\ status[<<i.kind, i.id>>] = Upper[v.outcome]
          \/ /\ status[<<i.kind, i.id>>] = "APPLIED"
             /\ \E v \in reviews : AppliedOn(i, v)

\* A configuration changes only together with a new event, of the application of
\* an intent approved beforehand, and to nothing that intent did not ask for; so
\* does one that is changed again by an intent applied before.
ChangesAreAudited ==
    [][\A k \in Kind, s \in Scope :
         configuration'[<<k, s>>] # configuration[<<k, s>>] =>
            \E i \in intents : \E v \in Approving(i) :
                /\ i.kind = k /\ i.scope = s
                /\ \E e \in audit' \ audit : SaysApplied(e, i, v)
                /\ \A c \in ColumnsOf[k] :
                      \/ configuration'[<<k, s>>][c] = i.content[c]
                      \/ /\ configuration[<<k, s>>] # None
                         /\ configuration'[<<k, s>>][c] = configuration[<<k, s>>][c]]_vars

\* "Every admin change MUST leave an intent, review, and audit trail": what is
\* configured is what some applied intent says.  Two intents applied at a time
\* each write the columns they change, and leave a row neither of them asked for.
ConfigurationIsAnIntents ==
    \A k \in Kind, s \in Scope :
        configuration[<<k, s>>] # None =>
            \E i \in intents :
                /\ i.kind = k /\ i.scope = s
                /\ i.content = configuration[<<k, s>>]
=============================================================================
