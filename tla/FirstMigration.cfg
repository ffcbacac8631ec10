\* The four writers and two ingress units, the configuration and both databases.
SPECIFICATION FairSpec
CONSTANTS
    NW = 4
    NI = 2
    NT = 3
    Wal = 0
    MaxFaults = 4
INVARIANTS
    IngressStaysClosed
    WritersMatchState
PROPERTIES
    RewindsOnlyUnexposed
    InterruptedReplacementFinishes
CHECK_DEADLOCK FALSE
