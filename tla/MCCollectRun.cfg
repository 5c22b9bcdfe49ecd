SPECIFICATION Spec
CONSTANTS
    a = a
    b = b
    s = s
    t = t
    Keeper = Keeper
    Nobody = Nobody
    Run = {a, b}
    Retry = {}
    Single = {}
    StopOne = {s}
    StopAll = {}
    MaxPurges = 1
SYMMETRY Requests
INVARIANTS
    RunSafe
    Reachable
    SealingHandedOver
    NoOrphanClaim
PROPERTIES
    StatusKept
CHECK_DEADLOCK FALSE
