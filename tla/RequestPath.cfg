SPECIFICATION Spec
CONSTANTS
    r1 = r1
    r2 = r2
    o1 = o1
    o2 = o2
    s1 = s1
    Requests = {r1, r2}
    Owners = {o1, o2}
    Static = static
    Sessions = {s1}
    None = none
    MaxMishaps = 1
    MaxPauses = 1
SYMMETRY Symmetry
INVARIANTS DrainIsTruthful OwnerOnly UnownedHasCause
CHECK_DEADLOCK FALSE
