SPECIFICATION FairSpec
CONSTANTS
    a = a
    b = b
    f = f
    g = g
    Free = Free
    Source = {a, b}
    Film = {f}
    Ending = {"done", "abandoned"}
    MaxFailures = 0
    MaxInvalidations = 0
PROPERTIES
    FilmsGetIndexed
    SealingSettles
CHECK_DEADLOCK FALSE
