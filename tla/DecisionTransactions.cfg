SPECIFICATION Spec
CONSTANTS
    Version = {v1}
    Review = {r1, r2}
    Seed = {s1}
    Candidate <- MCCandidate
    Tx = {t1, t2, t3}
    MaxSequence = 3
    None = None
SYMMETRY MCSymmetry
INVARIANTS ChainIntact OnlyAWithdrawalDeadlocks
PROPERTIES ImplementsDecisionLog
CHECK_DEADLOCK FALSE
