\* Three opens and purges compete for the gate and for the sessions' rows, with any two
\* of: a close, a transcript update, a directory that cannot be removed, a crash; and
\* one tmux command that fails.
SPECIFICATION Spec
CONSTANTS
    Sessions = {s1, s2, s3}
    FullTranscripts = {s1, s2, s3}
    MaxActive = 1
    Quota = 2
    MaxEvents = 2
    MaxFaults = 1
SYMMETRY SessionSymmetry
INVARIANTS
    SlotsAreReturned
    ActiveWithinTwice
    LiveTmuxIsKnown
    MetadataHasRow
    MetadataIsWhole
PROPERTIES
    ReturnNeedsStaleSave
CHECK_DEADLOCK FALSE
