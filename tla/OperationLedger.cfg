\* Two calls with the same key or different ones, interrupts, purges, and two events:
\* two closes, or a close and an update, crash or reboot, so that a late close or
\* update, or the next start, can bring back the row a purge has deleted.  One
\* command text: AdmitRefused may refuse any call, as it would a key that is bound
\* to another text.
SPECIFICATION Spec
CONSTANTS
    Sessions = {s1}
    Calls = {c1, c2}
    Keys = {k1, k2}
    Commands = {x1}
    UserInput = UserInput
    NoOp = NoOp
    MaxInputs = 0
    MaxEvents = 2
SYMMETRY CallSymmetry
INVARIANTS
    OneWriter
    AtMostOncePerKey
    FinalStatusHasEvidence
    PaneIsAccountedFor
    RunningIsWatched
PROPERTIES
    StatusSteps
CHECK_DEADLOCK FALSE
