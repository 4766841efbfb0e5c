SPECIFICATION Spec
CONSTANTS
    Content = {c1, c2}
    NoContent = NoContent
    MaxVersion = 2
    Request = {p1, p2}
    Review = {r1, r2}
    Run = {n1, n2}
    Group = {g1}
    Widening = {g1}
    Verdict = {"expected"}
    None = None
    Upgraded <- MCUpgraded
    ReplayGroups <- MCReplayGroups
CONSTRAINT SmallWhenOverlapped
SYMMETRY Symmetric
INVARIANTS DecisionsMatchVersions OpenReviewHoldsCandidate DecisionPinsContent
PROPERTIES ImplementsLifecycle
