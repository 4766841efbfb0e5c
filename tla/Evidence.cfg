SPECIFICATION Spec
CONSTANTS
    Value = {fork, main, settings, source}
    Program = {1}
    Null = Null
    Document <- MCDocument
    Recorded <- MCRecorded
    fork = fork
    main = main
    settings = settings
    source = source
    TargetKeyOf <- MCTargetKeyOf
    DefaultEnvironment <- MCDefaultEnvironment
    TargetLimit = 1
    ProgramLimit = 1
    SampleEnd = 1
    OverviewLimit = 1
INVARIANTS GroupsHaveOneDirection OneWayEditsMoveOneWay AdoptionAgreesWithMap ResultsAgree DefaultKeepsExceptions
