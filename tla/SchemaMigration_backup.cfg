SPECIFICATION Spec
CONSTANTS
    session = session
    operation = operation
    Target = 2
    Rows <- MCRows
    Imported <- MCImported
    MaxCrashes = 1
INVARIANT
    PriorStateIsPreserved
CHECK_DEADLOCK FALSE
