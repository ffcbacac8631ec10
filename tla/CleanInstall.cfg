SPECIFICATION FairSpec
CONSTANTS
    Procs = {p1, p2}
    MaxFaults = 1
INVARIANTS
    JournalIsTruthful
    PartialIsLocked
    ServicesAreAccountedFor
    LockIsExclusive
PROPERTIES
    ImplementsStairs
    UndisturbedInstallCompletes
CHECK_DEADLOCK FALSE
