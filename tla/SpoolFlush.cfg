SPECIFICATION FairInstallSpec
CONSTANTS
    Record = {1, 2, 3}
    File = {1, 2}
    FileOf <- MCFileOf
    Flush = {p1, p2}
    BatchLimit = 1
    EventOf <- MCEventOf
    Installer = {"i1", "i2", "i3"}
    MachineOf <- MCMachineOf
    OverrideOf <- MCOverrideOf
    PrintOnly = {"i3"}
    InitialSettings <- MCInitialSettings
    Foreign <- MCForeign
    None = None
INVARIANTS OnlyRacedAreLost SettingsAreMerged
PROPERTIES AppendedAreStored
CHECK_DEADLOCK FALSE
