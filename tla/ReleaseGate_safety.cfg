SPECIFICATION StorySpec
CONSTANTS
    c1 = c1
    d1 = d1
    d2 = d2
    d3 = d3
    d4 = d4
    k1 = k1
    k2 = k2
    k3 = k3
    k4 = k4
    alice = alice
    bob = bob
    carol = carol
    y1 = y1
    y2 = y2
    a1 = a1
    a2 = a2
    a3 = a3
    None = None
    Case = {c1}
    DecisionId = {d1, d2, d3, d4}
    Key = {k1, k2, k3, k4}
    Person = {alice, bob, carol}
    Server = {s1, s2}
    Posted <- Requests
    Window = 0
    MaxNow = 1
    ContradictionId = {q1}
    Resolver = {v1, v2}
    ReleaseId = {y1, y2}
    ArtifactId = {a1, a2, a3}
    Manifest <- Manifests
    Run = {r1, r2}
    Direct = {p1}
    DirectPost <- DirectPosts
    Rehearsal = {x1}
INVARIANT TypeOK
INVARIANT DecisionsStand
INVARIANT PairShareIsBounded
INVARIANT GateSeesOlderBlockers
INVARIANT ReleasesAreWhole
CONSTRAINT OneStory
CHECK_DEADLOCK FALSE
SYMMETRY Symmetry
