\* Services that keep their databases open in WAL mode.
SPECIFICATION FairSpec
CONSTANTS
    NW = 2
    NI = 1
    NT = 2
    Wal = 1
    MaxFaults = 1
PROPERTIES
    HealthyCandidateCanRollBack
CHECK_DEADLOCK FALSE
