SPECIFICATION Spec
CONSTANTS
    i1 = i1
    i2 = i2
    i3 = i3
    r1 = r1
    r2 = r2
    r3 = r3
    r4 = r4
    k1 = k1
    k2 = k2
    k3 = k3
    k4 = k4
    s1 = s1
    s2 = s2
    x = x
    y = y
    None = None
    Scope = {s1, s2}
    Value = {x, y}
    IntentId = {i1, i2, i3}
    ReviewId = {r1, r2, r3, r4}
    Key = {k1, k2, k3, k4}
    Thread = {t1, t2}
    EventId = {n1, n2, n3}
    SubmittedIntents <- Intents
    SubmittedReviews <- Reviews
INVARIANT TypeOK
INVARIANT ConfigurationIsReviewed
INVARIANT TrailIsComplete
PROPERTY ChangesAreAudited
CONSTRAINT OneStory
SYMMETRY Symmetry
