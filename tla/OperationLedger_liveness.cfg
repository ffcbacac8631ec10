\* A call and its retry, typed input, interrupts, and a close, an update or a crash;
\* no symmetry, because liveness is checked.
SPECIFICATION FairSpec
CONSTANTS
    Sessions = {s1}
    Calls = {c1, c2}
    Keys = {k1}
    Commands = {x1}
    UserInput = UserInput
    NoOp = NoOp
    MaxInputs = 1
    MaxEvents = 1
PROPERTIES
    RecordIsObserved
CHECK_DEADLOCK FALSE
