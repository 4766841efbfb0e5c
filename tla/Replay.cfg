SPECIFICATION FairSpec
CONSTANTS
    Run = {n1}
    Server = {s1, s2}
    Request = {q1}
    Inputs = {i1, i2}
    MaxFault = 2
    None = None
INVARIANTS ExecutedOnce
PROPERTIES ImplementsRunLifecycle NoRunIsStuck OthersAreLeftAlone
