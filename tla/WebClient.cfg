SPECIFICATION Spec
CONSTANTS
    Doc = {d1, d2}
    Group = {g1}
    Verdict = {"expected", "needs_mandate"}
    None = None
    MaxEvent = 2
    MaxFault = 1
INVARIANTS
    SeesOwnWrites
    GroupsFollowReview
PROPERTIES
    ShownReviewStaysClosed
    PagesMoveOn
CHECK_DEADLOCK FALSE
