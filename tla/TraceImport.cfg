SPECIFICATION Spec
CONSTANTS
    Null = Null
    MaxInputLength = 5
    SessionRank <- MCSessionRank
    KeyRank <- MCKeyRank
    File = {"a", "b"}
    Transcript <- MCTranscript
    Request = {r1, r2}
    MaxRuns = 2
    MaxVersion = 2
    BatchSize = 1
    Reclassifier = reclassifier
    Longest = 3
INVARIANTS
    RedactedOnce
    SettledIsComplete
    ReadIsComplete
    ReadIsOfOneVersion
PROPERTY
    ProvenanceIsKept
CHECK_DEADLOCK FALSE
