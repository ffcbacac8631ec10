SPECIFICATION FairSpec
CONSTANTS
    session = session
    operation = operation
    Target = 2
    Rows <- MCRows
    Imported <- MCImported
    MaxCrashes = 4
INVARIANTS
    ServesOnlyTarget
    NothingIsLost
PROPERTY
    ServesAgain
CHECK_DEADLOCK FALSE
