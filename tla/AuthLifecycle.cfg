\* Two authorizations and the owner's commands, while every credential expires.
SPECIFICATION Spec
CONSTANTS
    Auths = {a1, a2}
    Clients = {c1}
    NoClient = NoClient
    MaxPending = 1
    TransactionTtl = 1
    CodeTtl = 1
    AccessTtl = 3
    RefreshTtl = 1
    GrantTtl = 2
    BootstrapTtl = 1
    MaxGeneration = 1
    MaxClock = 3
    MaxResets = 1
    MaxCrashes = 1
SYMMETRY Symmetry
INVARIANTS
    OneValidBranch
    CondemnedStaysOut
    QuietResetIsComplete
    NothingOutlivesGrant
PROPERTIES
    NeverReactivated
