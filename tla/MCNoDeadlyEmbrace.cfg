SPECIFICATION Spec
CONSTANTS
    a = a
    b = b
    f = f
    g = g
    Free = Free
    Source = {a}
    Film = {f}
    Ending = {"done", "failed"}
    MaxFailures = 0
    MaxInvalidations = 1
INVARIANTS
    NoDeadlyEmbrace
CHECK_DEADLOCK FALSE
