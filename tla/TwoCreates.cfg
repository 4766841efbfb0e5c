SPECIFICATION Spec
CONSTANTS
    Content = {c1, c2}
    NoContent = NoContent
    MaxVersion = 1
    Request = {p1, p2}
    Review = {r1, r2}
    Run = {n1, n2}
    Group = {}
    Widening = {}
    Verdict = {"expected"}
    None = None
    Upgraded <- MCUpgraded
    ReplayGroups <- MCReplayGroups
SYMMETRY Symmetric
INVARIANTS AtMostOneOpenReview
