------------------------- MODULE MCAdminGovernance -------------------------
(***************************************************************************)
(* An instance of AdminGovernance for TLC.                                 *)
(***************************************************************************)
EXTENDS AdminGovernance, TLC

CONSTANTS i1, i2, i3, r1, r2, r3, r4, k1, k2, k3, k4, s1, s2, x, y

Portal(id, level, payload) ==
    [kind |-> "portal_support", id |-> id, scope |-> s1,
     content |-> [support_level |-> level, metadata_payload |-> payload]]

Rule(id, scope, payload) ==
    [kind |-> "source_rule", id |-> id, scope |-> scope,
     content |-> [rule_payload |-> payload]]

\* Three intents for one portal that differ in one column or the other, two
\* rules for one scope and one for another, one program.
Intents ==
    {Portal(i1, x, x), Portal(i2, x, y), Portal(i3, y, x),
     Rule(i1, s1, x), Rule(i2, s1, y), Rule(i3, s2, y),
     [kind |-> "incentive_program", id |-> i1, scope |-> s1,
      content |-> [program_payload |-> x]]}

Decide(kind, id, intent, key, outcome) ==
    [kind |-> kind, id |-> id, intent |-> intent, key |-> key, outcome |-> outcome]

\* Portal intents are approved; rules are also rejected, on keys and ids that
\* are used twice, and marked as applied by a review.
Reviews ==
    {Decide("portal_support", r1, i1, k1, "APPROVED"),
     Decide("portal_support", r2, i2, k2, "approved"),
     Decide("portal_support", r3, i3, k3, "APPROVED"),
     Decide("source_rule", r1, i1, k1, "APPROVED"),
     Decide("source_rule", r2, i1, k2, "REJECTED"),
     Decide("source_rule", r3, i2, k2, "approved"),
     Decide("source_rule", r3, i3, k3, "applied"),
     Decide("source_rule", r4, i3, k4, "APPROVED"),
     Decide("incentive_program", r1, i1, k1, "applied"),
     Decide("incentive_program", r2, i1, k2, "APPROVED")}

\* The kinds share no table: one of them has intents.
OneStory == \A i, j \in intents : i.kind = j.kind

Symmetry == Permutations(Thread) \cup Permutations(EventId)
=============================================================================
