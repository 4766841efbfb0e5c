SPECIFICATION Spec
CONSTANTS
    Null = Null
    fork = fork
    git = git
    Value = {fork}
    Program = {git}
    ActionRank <- MCActionRank
    DocumentOf <- MCDocumentOf
    World <- MCWorld
    DayLength = 3
    CronAt = 1
    LastTick = 8
    MaxRuns = 1
INVARIANTS
    DayIsCheckedAgainstItsVersion
    FindingsCanBeActedOn
    NoSilenceIsMissed
CHECK_DEADLOCK FALSE
